---------------------------- MODULE ProgramsProofs ----------------------------
(***************************************************************************)
(* Safety of the programs of Programs.                                     *)
(*                                                                         *)
(* The boot of ex61, for tables of any size and images and devices         *)
(* anywhere: every turn of setup_vm's loop enters a superpage of its own,  *)
(* so that after the last one the two maps lead from the kernel's          *)
(* superpage to the end of its GiB; nothing that the processor needs       *)
(* before the jump is above, and nothing that it needs after it is below.  *)
(*                                                                         *)
(* The frame buffer of ex52: what has been copied is the frame, and what   *)
(* has been flushed is in memory, whatever the cache writes back by        *)
(* itself.                                                                 *)
(*                                                                         *)
(* The walk over a device tree (ex21): the nodes that enclose a token are  *)
(* named by the components compared so far, as strncmp2 compares names,    *)
(* and above the last component no other node answers to them unless the   *)
(* path forks. So the walk stops at the first node of the path, where      *)
(* fdt_getprop finds the properties that no FDT_NOP comes before.          *)
(*                                                                         *)
(* The walks over an archive (ex22, ex41, ex62): hextoi undoes what cpio   *)
(* writes, so each walk goes from one header to the next and misses none.  *)
(*                                                                         *)
(* The file system of ex71: a path leads to one file only, whatever is     *)
(* left of it to look up, and an object belongs to one descriptor only, so *)
(* each call ends as DescriptorTable promises, and changes nothing that    *)
(* the promise speaks of before its end.                                   *)
(***************************************************************************)
EXTENDS Programs, SequenceTheorems, FiniteSetTheorems, WellFoundedInduction, TLAPS

-----------------------------------------------------------------------------
(* The boot of ex61: the inductive invariant *)

HALF == ENTRIES \div 2
Low == 0 .. (HALF - 1)
Tables == {PGD, ID_MAP, HH_MAP, UART_MAP}
Entries == {NONE} \cup [ppn : Nat, perm : {"table", "kernel"}]

\* The steps of the boot, in order
BuildingMap == {"setup_vm_loop", "setup_vm_uart", "setup_vm_satp"}
Translated == {"jump", "load_sp", "drop_loop", "drop_sfence", "start_kernel"}
Above == {"load_sp", "drop_loop", "drop_sfence", "start_kernel"}
StackAbove == {"drop_loop", "drop_sfence", "start_kernel"}

\* Shapes of the variables
BootTypes ==
  /\ pc \in {"_start"} \cup BuildingMap \cup Translated
  /\ mem \in [Tables -> [Indices -> Entries]]
  /\ i \in 0 .. ENTRIES
  /\ cached \subseteq Indices

\* Where the processor executes and where its stack is
Registers ==
  /\ satp <=> pc \in Translated
  /\ base = IF pc \in Above THEN PAGE_OFFSET ELSE 0
  /\ sp = IF pc \in StackAbove THEN PAGE_OFFSET ELSE 0

\* Both maps have the superpages of the turns before turn n.
Filled(n) ==
  \A t \in 0 .. (n - 1) :
    /\ mem[HH_MAP][Index(Va(t), 1)] = Entry(Pa(t), "kernel")
    /\ mem[ID_MAP][Index(Pa(t), 1)] = Entry(Pa(t), "kernel")

Maps ==
  /\ pc = "_start" => i = 0
  /\ pc = "setup_vm_loop" => i < ENTRIES /\ Filled(i)
  /\ pc \notin {"_start", "setup_vm_loop"} => Filled(ENTRIES)

\* The two entries of pgd that lead to the maps; the lower one goes with the
\* rest of its half.
Links ==
  /\ pc # "_start" => mem[PGD][Index(Va(0), 2)] = Entry(HH_MAP, "table")
  /\ pc \in BuildingMap \cup {"jump", "load_sp"} =>
       mem[PGD][Index(Pa(0), 2)] = Entry(ID_MAP, "table")

Uart ==
  pc \in Translated \cup {"setup_vm_satp"} =>
    /\ mem[PGD][Index(UART + PAGE_OFFSET, 2)] = Entry(UART_MAP, "table")
    /\ mem[UART_MAP][Index(UART + PAGE_OFFSET, 1)] = Entry(SuperPage(UART), "kernel")

\* What drop_identity_map has taken away
Dropped ==
  /\ pc = "drop_loop" => i < HALF /\ \A n \in 0 .. (i - 1) : mem[PGD][n] = NONE
  /\ pc \in {"drop_sfence", "start_kernel"} => \A n \in Low : mem[PGD][n] = NONE
  /\ pc = "start_kernel" => cached \cap Low = {}

BootInv == BootTypes /\ Registers /\ Maps /\ Links /\ Uart /\ Dropped

-----------------------------------------------------------------------------
(* Indices *)

\* Division with remainder
LEMMA DivMod ==
  ASSUME NEW p \in Nat, NEW s \in Nat \ {0}
  PROVE  /\ p \div s \in Nat /\ (p % s) \in 0 .. (s - 1)
         /\ (p \div s) * s \in Nat /\ p = (p \div s) * s + (p % s)
OBVIOUS

\* The quotient is the only number that fits.
LEMMA Quotient ==
  ASSUME NEW a \in Nat, NEW s \in Nat \ {0}, NEW r \in 0 .. (s - 1)
  PROVE  (a * s + r) \div s = a /\ ((a * s + r) % s) = r
<1> DEFINE p == a * s + r
           q == p \div s
<1>1. p \in Nat /\ q \in Nat /\ (p % s) \in 0 .. (s - 1) /\ p = q * s + (p % s)
      /\ a * s \in Nat /\ q * s \in Nat
  <2>1. a * s \in Nat
    OBVIOUS
  <2>2. p \in Nat
    BY <2>1
  <2> HIDE DEF p
  <2> QED BY <2>1, <2>2, DivMod
<1>2. ~ (q < a)
  <2> SUFFICES ASSUME q < a PROVE FALSE
    OBVIOUS
  <2>1. q + 1 <= a /\ a - (q + 1) \in Nat
    BY <1>1
  <2>2. (a - (q + 1)) * s \in Nat
    BY <2>1
  <2>3. a * s = (q + 1) * s + (a - (q + 1)) * s /\ (q + 1) * s = q * s + s
    BY <1>1, <2>1
  <2> HIDE DEF q
  <2> QED BY <1>1, <2>2, <2>3
<1>3. ~ (a < q)
  <2> SUFFICES ASSUME a < q PROVE FALSE
    OBVIOUS
  <2>1. a + 1 <= q /\ q - (a + 1) \in Nat
    BY <1>1
  <2> HIDE DEF q
  <2>2. (q - (a + 1)) * s \in Nat
    BY <2>1
  <2>3. q * s = (a + 1) * s + (q - (a + 1)) * s /\ (a + 1) * s = a * s + s
    BY <1>1, <2>1
  <2> QED BY <1>1, <2>2, <2>3
<1>4. q = a
  BY <1>1, <1>2, <1>3
<1> HIDE DEF q
<1> QED BY <1>1, <1>4 DEF q

\* Sizes of tables and halves
LEMMA TableSizes ==
  /\ ENTRIES \in Nat /\ ENTRIES >= 2 /\ HALF \in Nat \ {0} /\ ENTRIES = 2 * HALF
  /\ Span(1) = ENTRIES /\ Span(2) = ENTRIES * ENTRIES /\ Span(2) \in Nat \ {0}
  /\ PAGE_OFFSET = HALF * Span(2) /\ PAGE_OFFSET \in Nat
  /\ PAGE_OFFSET = (HALF * ENTRIES) * ENTRIES /\ HALF * ENTRIES \in Nat
<1>1. ENTRIES \in Nat /\ ENTRIES >= 2 /\ (ENTRIES % 2) = 0
  BY Sv39Assumption, HigherHalfAssumption
<1>2. HALF \in Nat \ {0} /\ ENTRIES = 2 * HALF
  BY <1>1 DEF HALF
<1>3. Span(1) = ENTRIES /\ Span(2) = ENTRIES * ENTRIES
  <2>1. 1 # 0 /\ 2 # 0 /\ 2 # 1
    OBVIOUS
  <2> QED BY <2>1, Zenon DEF Span
<1>4. ENTRIES * ENTRIES \in Nat \ {0} /\ HALF * ENTRIES \in Nat
  <2> DEFINE e == ENTRIES
  <2>1. e \in Nat /\ e >= 2 /\ HALF \in Nat
    BY <1>1, <1>2
  <2> HIDE DEF e
  <2>2. e * e = (e - 1) * e + e /\ (e - 1) * e \in Nat /\ HALF * e \in Nat
    BY <2>1
  <2>3. e * e \in Nat \ {0} /\ HALF * e \in Nat
    BY <2>1, <2>2
  <2> QED BY <2>3 DEF e
<1>5. PAGE_OFFSET = HALF * Span(2)
  BY DEF PAGE_OFFSET, HALF
<1>6. HALF * (ENTRIES * ENTRIES) \in Nat /\ HALF * (ENTRIES * ENTRIES) = (HALF * ENTRIES) * ENTRIES
  <2> DEFINE e == ENTRIES
             h == HALF
  <2>1. e \in Nat /\ h \in Nat
    BY <1>1, <1>2
  <2> HIDE DEF e, h
  <2>2. h * (e * e) = (h * e) * e /\ e * e \in Nat
    BY <2>1
  <2>3. h * (e * e) \in Nat
    BY <2>1, <2>2
  <2> QED BY <2>2, <2>3 DEF e, h
<1> QED BY <1>1, <1>2, <1>3, <1>4, <1>5, <1>6

\* The superpage a page lies in, by its number
Super(x) == x \div ENTRIES

\* What the indices of a page are
LEMMA Digits ==
  ASSUME NEW x \in Nat
  PROVE  /\ Super(x) \in Nat /\ GiB(x) \in Nat
         /\ Index(x, 1) = (Super(x) % ENTRIES) /\ Index(x, 1) \in Indices
         /\ Index(x, 2) = (GiB(x) % ENTRIES) /\ Index(x, 2) \in Indices
         /\ Super(x) = GiB(x) * ENTRIES + (Super(x) % ENTRIES)
         /\ x = Super(x) * ENTRIES + (x % ENTRIES) /\ (x % ENTRIES) \in 0 .. (ENTRIES - 1)
<1> DEFINE e == ENTRIES
           a == x \div e
           r == (x % e)
           g == a \div e
           b == (a % e)
<1>1. e \in Nat \ {0} /\ Span(1) = e /\ Span(2) = e * e /\ Indices = 0 .. (e - 1)
  BY TableSizes DEF Indices
<1> HIDE DEF e
<1>2. a \in Nat /\ r \in 0 .. (e - 1) /\ x = a * e + r
  BY <1>1, DivMod
<1>3. g \in Nat /\ b \in 0 .. (e - 1) /\ a = g * e + b
  <2> HIDE DEF a
  <2> QED BY <1>1, <1>2, DivMod
<1> HIDE DEF a, r, g, b
<1>4. x \div (e * e) = g
  <2>1. x = g * (e * e) + (b * e + r)
    <3>1. (g * e + b) * e = g * (e * e) + b * e
      BY <1>1, <1>2, <1>3
    <3> QED BY <1>1, <1>2, <1>3, <3>1
  <2>2. b * e + r \in 0 .. (e * e - 1) /\ e * e \in Nat \ {0}
    <3>1. (e - 1 - b) * e \in Nat /\ b * e \in Nat /\ e * e = b * e + (e - 1 - b) * e + e
      BY <1>1, <1>3
    <3> QED BY <1>1, <1>2, <3>1
  <2> DEFINE s == e * e
             t == b * e + r
  <2>3. x = g * s + t /\ t \in 0 .. (s - 1) /\ s \in Nat \ {0}
    BY <2>1, <2>2
  <2> HIDE DEF s, t
  <2>4. (g * s + t) \div s = g
    BY <1>3, <2>3, Quotient
  <2> QED BY <2>3, <2>4 DEF s
<1>5. GiB(x) = g /\ Super(x) = a
  BY <1>1, <1>4 DEF GiB, Super, a, e
<1>6. Index(x, 1) = b /\ Index(x, 2) = (g % e)
  BY <1>1, <1>4 DEF Index, a, b, e
<1>7. (g % e) \in Indices
  BY <1>1, <1>3
<1> QED BY <1>1, <1>2, <1>3, <1>5, <1>6, <1>7 DEF e, b, r

\* What they are PAGE_OFFSET above
LEMMA Upper ==
  ASSUME NEW x \in Nat
  PROVE  /\ x + PAGE_OFFSET \in Nat
         /\ Index(x + PAGE_OFFSET, 1) = Index(x, 1)
         /\ GiB(x + PAGE_OFFSET) = GiB(x) + HALF
         /\ ((x + PAGE_OFFSET) % ENTRIES) = (x % ENTRIES)
<1> DEFINE e == ENTRIES
           a == Super(x)
           r == (x % e)
           g == GiB(x)
           b == (a % e)
           z == x + PAGE_OFFSET
<1>1. e \in Nat \ {0} /\ HALF \in Nat /\ HALF * e \in Nat /\ PAGE_OFFSET \in Nat
      /\ PAGE_OFFSET = (HALF * e) * e
  BY TableSizes
<1>2. a \in Nat /\ g \in Nat /\ r \in 0 .. (e - 1) /\ b \in 0 .. (e - 1)
      /\ x = a * e + r /\ a = g * e + b
  BY <1>1, Digits
<1>3. z \in Nat
  BY <1>1
<1> HIDE DEF a, r, g, b, e
<1>4. z = (a + HALF * e) * e + r /\ a + HALF * e \in Nat
  <2> DEFINE k == HALF * e
  <2>1. k \in Nat /\ PAGE_OFFSET = k * e
    BY <1>1
  <2> HIDE DEF k
  <2>2. (a + k) * e = a * e + k * e /\ a + k \in Nat
    BY <1>1, <1>2, <2>1
  <2>3. z = (a + k) * e + r /\ a + k \in Nat
    BY <1>1, <1>2, <2>1, <2>2
  <2> QED BY <2>3 DEF k
<1>5. Super(z) = a + HALF * e /\ (z % e) = r
  <2> DEFINE k == a + HALF * e
  <2>1. k \in Nat /\ z = k * e + r
    BY <1>4
  <2> HIDE DEF k, z
  <2>2. z \div e = k /\ (z % e) = r
    BY <1>1, <1>2, <2>1, Quotient
  <2> QED BY <2>2 DEF Super, k, e
<1>6. Super(z) = (g + HALF) * e + b /\ g + HALF \in Nat
  <2>1. (g + HALF) * e = g * e + HALF * e
    BY <1>1, <1>2
  <2> QED BY <1>1, <1>2, <1>5, <2>1
<1>7. (Super(z) % e) = b /\ Super(z) \div e = g + HALF
  <2> DEFINE k == g + HALF
  <2>1. k \in Nat /\ Super(z) = k * e + b
    BY <1>6
  <2> HIDE DEF k
  <2>2. (k * e + b) \div e = k /\ ((k * e + b) % e) = b
    BY <1>1, <1>2, <2>1, Quotient
  <2> QED BY <2>1, <2>2 DEF k
<1>8. GiB(z) \in Nat /\ Super(z) = GiB(z) * e + (Super(z) % e)
  <2> HIDE DEF z
  <2> QED BY <1>3, Digits DEF e
<1>9. GiB(z) = g + HALF
  <2> DEFINE k == GiB(z)
             j == g + HALF
  <2>1. k \in Nat /\ j \in Nat /\ Super(z) = k * e + b /\ Super(z) \div e = j
    BY <1>1, <1>2, <1>7, <1>8
  <2> HIDE DEF k, j
  <2>2. (k * e + b) \div e = k
    BY <1>1, <1>2, <2>1, Quotient
  <2>3. k = j
    BY <2>1, <2>2
  <2> QED BY <2>3 DEF k, j
<1>10. Index(z, 1) = b /\ Index(x, 1) = b
  <2>1. Index(z, 1) = (Super(z) % e) /\ Index(x, 1) = b
    <3> HIDE DEF z
    <3> QED BY <1>3, Digits DEF e, a, b
  <2> QED BY <1>7, <2>1
<1> QED BY <1>3, <1>5, <1>9, <1>10 DEF z, g, r, e

\* The half of pgd that a page of memory is mapped by, and PAGE_OFFSET above it
LEMMA Halves ==
  ASSUME NEW x \in 0 .. (PAGE_OFFSET - 1)
  PROVE  /\ Index(x, 2) = GiB(x) /\ GiB(x) \in Low
         /\ Index(x + PAGE_OFFSET, 2) = GiB(x) + HALF
         /\ GiB(x) + HALF \in Indices \ Low
<1> DEFINE s == Span(2)
           g == GiB(x)
<1>1. s \in Nat \ {0} /\ HALF \in Nat \ {0} /\ ENTRIES = 2 * HALF /\ PAGE_OFFSET = HALF * s
      /\ PAGE_OFFSET \in Nat /\ x \in Nat
  BY TableSizes
<1>2. Index(x, 2) = (g % ENTRIES) /\ g \in Nat
  BY <1>1, Digits
<1> HIDE DEF s
<1>3. g < HALF
  <2>1. x \div s \in Nat /\ (x % s) \in 0 .. (s - 1) /\ x = (x \div s) * s + (x % s)
    BY <1>1, DivMod
  <2>2. g = x \div s
    BY DEF GiB, s
  <2> SUFFICES ASSUME g >= HALF PROVE FALSE
    BY <1>1, <1>2
  <2> HIDE DEF g
  <2>3. g * s = HALF * s + (g - HALF) * s /\ (g - HALF) * s \in Nat
    BY <1>1, <1>2
  <2>4. (x % s) >= 0 /\ x = g * s + (x % s)
    BY <2>1, <2>2
  <2> QED BY <1>1, <2>3, <2>4
<1>4. (g % ENTRIES) = g
  <2> HIDE DEF g
  <2> QED BY <1>1, <1>2, <1>3
<1>5. Index(x + PAGE_OFFSET, 2) = ((g + HALF) % ENTRIES)
  <2>1. x + PAGE_OFFSET \in Nat /\ GiB(x + PAGE_OFFSET) = g + HALF
    BY <1>1, Upper
  <2> QED BY <2>1, Digits
<1>6. ((g + HALF) % ENTRIES) = g + HALF
  <2> HIDE DEF g
  <2> QED BY <1>1, <1>2, <1>3
<1>7. g \in Low /\ g + HALF \in Indices \ Low
  <2> HIDE DEF g
  <2> QED BY <1>1, <1>2, <1>3 DEF Low, Indices
<1> QED BY <1>2, <1>4, <1>5, <1>6, <1>7

\* The pages of the kernel's image and tables, and of the UART
LEMMA Places ==
  /\ START \in Nat /\ END \in Nat /\ START <= END /\ UART \in Nat
  /\ START \in 0 .. (PAGE_OFFSET - 1) /\ UART \in 0 .. (PAGE_OFFSET - 1)
  /\ Tables \subseteq Nat /\ GiB(UART) # GiB(START)
  /\ ID_MAP # HH_MAP /\ ID_MAP # UART_MAP /\ HH_MAP # UART_MAP
  /\ PGD # ID_MAP /\ PGD # HH_MAP /\ PGD # UART_MAP
<1>1. PAGE_OFFSET \in Nat
  BY TableSizes
<1> QED BY <1>1, HigherHalfAssumption DEF Tables, ID_MAP, HH_MAP, UART_MAP

\* The superpage of a turn and the index it is entered at
LEMMA Turn ==
  ASSUME NEW t \in Nat
  PROVE  /\ Pa(t) \in Nat /\ Pa(t) = (Super(START) + t) * ENTRIES
         /\ Index(Pa(t), 1) = ((Super(START) + t) % ENTRIES)
         /\ Index(Va(t), 1) = Index(Pa(t), 1) /\ Index(Pa(t), 1) \in Indices
<1> DEFINE e == ENTRIES
           k == Super(START)
           x == Pa(t)
<1>1. e \in Nat \ {0} /\ Span(1) = e /\ START \in Nat
  BY TableSizes, Places
<1>2. k \in Nat /\ START = k * e + (START % e) /\ (START % e) \in Nat /\ k * e \in Nat
  <2>1. k \in Nat /\ START = k * e + (START % e) /\ (START % e) \in 0 .. (e - 1)
    BY <1>1, Digits
  <2> HIDE DEF k, e
  <2> QED BY <1>1, <2>1
<1>3. x = (START - (START % e)) + t * e
  BY <1>1 DEF Pa, SuperPage
<1> HIDE DEF e, k, x
<1>4. x = (k + t) * e /\ k + t \in Nat /\ x \in Nat
  <2>1. (k + t) * e = k * e + t * e /\ t * e \in Nat /\ k + t \in Nat
    BY <1>1, <1>2
  <2> QED BY <1>2, <1>3, <2>1
<1>5. Super(x) = k + t
  <2> DEFINE n == k + t
  <2>1. x = n * e + 0 /\ n \in Nat /\ 0 \in 0 .. (e - 1)
    BY <1>1, <1>4
  <2> HIDE DEF n
  <2>2. (n * e + 0) \div e = n
    BY <1>1, <2>1, Quotient
  <2> QED BY <2>1, <2>2 DEF Super, n, e
<1>6. Index(x, 1) = (Super(x) % e) /\ Index(x, 1) \in Indices
  BY <1>4, Digits DEF e
<1>7. Index(x + PAGE_OFFSET, 1) = Index(x, 1)
  BY <1>4, Upper
<1> QED BY <1>4, <1>5, <1>6, <1>7 DEF x, k, e, Va

\* No two turns enter their superpages at the same index.
LEMMA TurnsApart ==
  ASSUME NEW t \in 0 .. (ENTRIES - 1), NEW u \in 0 .. (ENTRIES - 1), t < u
  PROVE  Index(Pa(t), 1) # Index(Pa(u), 1)
<1> DEFINE e == ENTRIES
           a == Super(START) + t
           b == Super(START) + u
<1>1. e \in Nat \ {0} /\ a \in Nat /\ b \in Nat /\ b - a \in 1 .. (e - 1) /\ t \in Nat /\ u \in Nat
  <2>1. Super(START) \in Nat /\ ENTRIES \in Nat \ {0}
    BY TableSizes, Places, Digits
  <2> QED BY <2>1
<1>2. Index(Pa(t), 1) = (a % e) /\ Index(Pa(u), 1) = (b % e)
  BY <1>1, Turn
<1> HIDE DEF e, a, b
<1>3. (a % e) # (b % e)
  <2> SUFFICES ASSUME (a % e) = (b % e) PROVE FALSE
    OBVIOUS
  <2> DEFINE p == a \div e
             q == b \div e
  <2>1. /\ p \in Nat /\ q \in Nat /\ a = p * e + (a % e) /\ b = q * e + (b % e)
        /\ p * e \in Nat /\ q * e \in Nat /\ (a % e) \in 0 .. (e - 1)
    BY <1>1, DivMod
  <2> HIDE DEF p, q
  <2>2. b - a = q * e - p * e
    BY <1>1, <2>1
  <2>3. CASE q <= p
    <3>1. p * e = q * e + (p - q) * e /\ (p - q) * e \in Nat
      BY <1>1, <2>1, <2>3
    <3> QED BY <1>1, <2>1, <2>2, <3>1
  <2>4. CASE q > p
    <3>1. q * e = p * e + (q - p - 1) * e + e /\ (q - p - 1) * e \in Nat
      BY <1>1, <2>1, <2>4
    <3> QED BY <1>1, <2>1, <2>2, <3>1
  <2> QED BY <2>1, <2>3, <2>4
<1> QED BY <1>2, <1>3

\* The turn that enters the superpage of a page: any from the kernel's own on,
\* up to the end of its GiB
LEMMA TurnOf ==
  ASSUME NEW x \in Nat, GiB(x) = GiB(START), Super(x) >= Super(START)
  PROVE  \E t \in 0 .. (ENTRIES - 1) :
           Pa(t) + (x % ENTRIES) = x /\ Index(Pa(t), 1) = Index(x, 1)
<1> DEFINE e == ENTRIES
           k == Super(START)
           n == Super(x)
           g == GiB(x)
           t == n - k
<1>1. e \in Nat \ {0} /\ START \in Nat
  BY TableSizes, Places
<1>2. /\ k \in Nat /\ g \in Nat /\ k = g * e + (k % e) /\ n \in Nat /\ n = g * e + (n % e)
      /\ x = n * e + (x % e) /\ Index(x, 1) = (n % e)
  BY <1>1, Digits
<1>3. (k % e) \in 0 .. (e - 1) /\ (n % e) \in 0 .. (e - 1) /\ n >= k
  <2> HIDE DEF k, n
  <2>1. (k % e) \in 0 .. (e - 1) /\ (n % e) \in 0 .. (e - 1)
    BY <1>1, <1>2, DivMod
  <2> QED BY <2>1 DEF k, n
<1> HIDE DEF e, k, n, g
<1>4. t \in 0 .. (e - 1) /\ t \in Nat /\ k + t = n
  <2>1. g * e \in Nat
    BY <1>1, <1>2
  <2> QED BY <1>1, <1>2, <1>3, <2>1
<1> HIDE DEF t
<1>5. Pa(t) = (k + t) * e /\ Index(Pa(t), 1) = ((k + t) % e)
  BY <1>4, Turn DEF k, e
<1>6. Pa(t) + (x % e) = x /\ Index(Pa(t), 1) = Index(x, 1)
  BY <1>2, <1>4, <1>5
<1> QED BY <1>4, <1>6 DEF e

\* Where the entries of pgd for the kernel are
LEMMA StartLinks ==
  /\ Index(Pa(0), 2) = GiB(START) /\ GiB(START) \in Low
  /\ Index(Va(0), 2) = GiB(START) + HALF /\ GiB(START) + HALF \in Indices \ Low
<1> DEFINE e == ENTRIES
           k == Super(START)
           x == Pa(0)
<1>1. e \in Nat \ {0} /\ START \in Nat /\ START \in 0 .. (PAGE_OFFSET - 1) /\ PAGE_OFFSET \in Nat
  BY TableSizes, Places
<1>2. /\ k \in Nat /\ k = GiB(START) * e + (k % e) /\ GiB(START) \in Nat
      /\ START = k * e + (START % e) /\ (START % e) \in Nat /\ k * e \in Nat
  BY <1>1, Digits
<1>3. x \in Nat /\ x = k * e
  <2>1. x = (k + 0) * e /\ x \in Nat
    BY Turn
  <2> HIDE DEF k, e, x
  <2> QED BY <1>2, <2>1
<1>4. x \in 0 .. (PAGE_OFFSET - 1)
  <2> HIDE DEF k, e, x
  <2> QED BY <1>1, <1>2, <1>3
<1> HIDE DEF x
<1>5. Super(x) = k
  <2> HIDE DEF k
  <2>1. 0 \in 0 .. (e - 1) /\ x = k * e + 0
    BY <1>1, <1>2, <1>3
  <2>2. (k * e + 0) \div e = k
    <3> HIDE DEF e
    <3> QED BY <1>1, <1>2, <2>1, Quotient
  <2> QED BY <2>1, <2>2 DEF Super
<1>6. GiB(x) \in Nat /\ k = GiB(x) * e + (k % e)
  BY <1>3, <1>5, Digits
<1>7. GiB(x) = GiB(START)
  <2> DEFINE a == GiB(x)
             b == GiB(START)
             r == (k % e)
  <2>1. a \in Nat /\ b \in Nat /\ a * e + r = b * e + r /\ r \in 0 .. (e - 1)
    <3>1. r \in 0 .. (e - 1)
      <4> HIDE DEF k, e
      <4> QED BY <1>1, <1>2, DivMod
    <3> QED BY <1>2, <1>6, <3>1
  <2> HIDE DEF a, b, r, e
  <2>2. (a * e + r) \div e = a /\ (b * e + r) \div e = b
    BY <1>1, <2>1, Quotient
  <2> QED BY <2>1, <2>2 DEF a, b
<1>8. Va(0) = x + PAGE_OFFSET
  BY DEF Va, x
<1> QED BY <1>4, <1>7, <1>8, Halves DEF x

\* Division keeps the order.
LEMMA DivMonotone ==
  ASSUME NEW a \in Nat, NEW b \in Nat, a <= b, NEW s \in Nat \ {0}
  PROVE  a \div s <= b \div s
<1> DEFINE p == a \div s
           q == b \div s
<1>1. /\ p \in Nat /\ q \in Nat /\ a = p * s + (a % s) /\ b = q * s + (b % s)
      /\ (a % s) \in 0 .. (s - 1) /\ (b % s) \in 0 .. (s - 1) /\ p * s \in Nat /\ q * s \in Nat
  BY DivMod
<1> HIDE DEF p, q
<1>2. SUFFICES ASSUME q < p PROVE FALSE
  BY <1>1 DEF p, q
<1>3. p * s = q * s + (p - q - 1) * s + s /\ (p - q - 1) * s \in Nat
  BY <1>1, <1>2
<1> QED BY <1>1, <1>3

\* The pages of the image lie in the GiB that it begins in, from its first
\* superpage on.
LEMMA ImagePages ==
  ASSUME NEW p \in START .. END
  PROVE  p \in 0 .. (PAGE_OFFSET - 1) /\ GiB(p) = GiB(START) /\ Super(p) >= Super(START)
<1>1. /\ p \in Nat /\ START \in Nat /\ END \in Nat /\ START <= p /\ p <= END
      /\ ENTRIES \in Nat \ {0} /\ Span(2) \in Nat \ {0}
      /\ PAGE_OFFSET \in Nat /\ END \in 0 .. (PAGE_OFFSET - 1)
  BY Places, TableSizes, HigherHalfAssumption
<1>2. GiB(START) <= GiB(p) /\ GiB(p) <= GiB(END)
  BY <1>1, DivMonotone DEF GiB
<1>3. Super(START) <= Super(p)
  BY <1>1, DivMonotone DEF Super
<1>4. GiB(END) = GiB(START)
  BY HigherHalfAssumption
<1>5. GiB(p) \in Nat /\ GiB(START) \in Nat /\ Super(p) \in Nat /\ Super(START) \in Nat
  BY <1>1, Digits
<1> QED BY <1>1, <1>2, <1>3, <1>4, <1>5

\* The superpages of that GiB
LEMMA GiBPages ==
  ASSUME NEW b \in Indices, NEW x, x = GiB(START) * Span(2) + b * Span(1)
  PROVE  /\ x \in 0 .. (PAGE_OFFSET - 1) /\ GiB(x) = GiB(START)
         /\ Super(x) = GiB(START) * ENTRIES + b /\ (x % ENTRIES) = 0
         /\ b >= Index(START, 1) => Super(x) >= Super(START)
<1> DEFINE e == ENTRIES
           s == Span(2)
           g == GiB(START)
           n == g * e + b
<1>1. /\ e \in Nat \ {0} /\ s \in Nat \ {0} /\ s = e * e /\ Span(1) = e /\ HALF \in Nat
      /\ PAGE_OFFSET = HALF * s /\ PAGE_OFFSET \in Nat
  BY TableSizes
<1>2. /\ g \in Nat /\ g < HALF
      /\ Super(START) \in Nat /\ Super(START) = g * e + Index(START, 1) /\ Index(START, 1) \in Indices
  BY TableSizes, StartLinks, Places, Digits DEF Low
<1>3. b \in Nat /\ b <= e - 1 /\ Index(START, 1) \in Nat
  BY <1>1, <1>2 DEF Indices
<1>4. x = g * s + b * e
  BY <1>1
<1> HIDE DEF e, s, g
<1>5. b * e \in 0 .. (s - 1) /\ x \in Nat
  <2>1. (e - 1 - b) * e \in Nat /\ b * e \in Nat /\ e * e = b * e + (e - 1 - b) * e + e
    BY <1>1, <1>3
  <2>2. g * s \in Nat
    BY <1>1, <1>2
  <2> QED BY <1>1, <1>4, <2>1, <2>2
<1>6. x < PAGE_OFFSET
  <2>1. HALF * s = g * s + (HALF - g - 1) * s + s /\ (HALF - g - 1) * s \in Nat /\ g * s \in Nat
    BY <1>1, <1>2
  <2> QED BY <1>1, <1>4, <1>5, <2>1
<1>7. GiB(x) = g
  <2> DEFINE r == b * e
  <2>1. x = g * s + r /\ r \in 0 .. (s - 1) /\ g \in Nat /\ s \in Nat \ {0}
    BY <1>1, <1>2, <1>4, <1>5
  <2> HIDE DEF r
  <2>2. (g * s + r) \div s = g
    BY <2>1, Quotient
  <2> QED BY <2>1, <2>2 DEF GiB, s
<1>8. Super(x) = n /\ (x % e) = 0
  <2>1. x = n * e + 0 /\ n \in Nat /\ 0 \in 0 .. (e - 1)
    <3>1. (g * e + b) * e = g * (e * e) + b * e /\ g * e \in Nat
      BY <1>1, <1>2, <1>3
    <3>2. n * e = g * s + b * e /\ n \in Nat
      BY <1>1, <1>3, <3>1
    <3> QED BY <1>1, <1>4, <1>5, <3>2
  <2>2. PICK z : z = 0
    OBVIOUS
  <2> HIDE DEF n
  <2>3. x = n * e + z /\ n \in Nat /\ z \in 0 .. (e - 1)
    BY <2>1, <2>2
  <2>4. e \in Nat \ {0}
    BY <1>1
  <2>5. (n * e + z) \div e = n /\ ((n * e + z) % e) = z
    BY <2>3, <2>4, Quotient
  <2> QED BY <2>2, <2>3, <2>5 DEF Super, e
<1>9. ASSUME b >= Index(START, 1) PROVE n >= Super(START)
  <2>1. g * e \in Nat
    BY <1>1, <1>2
  <2> QED BY <1>2, <1>3, <1>9, <2>1 DEF e, g
<1> QED BY <1>1, <1>5, <1>6, <1>7, <1>8, <1>9 DEF e, g

-----------------------------------------------------------------------------
(* What the processor finds *)

\* A page under an entry of pgd that leads to a map with its superpage
LEMMA Through ==
  ASSUME NEW v \in Nat, NEW m \in Nat, NEW q \in Nat,
         mem[PGD][Index(v, 2)] = Entry(m, "table"),
         mem[m][Index(v, 1)] = Entry(q, "kernel")
  PROVE  Translate(mem, PGD, v) = Entry(q + (v % ENTRIES), "kernel")
<1>1. /\ Entry(m, "table") # NONE /\ Entry(q, "kernel") # NONE
      /\ Entry(m, "table").ppn = m /\ Entry(m, "table").perm = "table"
      /\ Entry(q, "kernel").ppn = q /\ Entry(q, "kernel").perm = "kernel"
  BY Sv39Assumption DEF Entry
<1>2. Translate(mem, PGD, v) = LeafPage(Entry(q, "kernel"), v, 1)
  BY <1>1 DEF Translate
<1>3. LeafPage(Entry(q, "kernel"), v, 1) = Entry(q + (v % Span(1)), "kernel")
  BY <1>1 DEF LeafPage
<1> QED BY <1>2, <1>3, TableSizes

\* With all turns done, a page of the kernel's GiB from its superpage on is
\* reached at its own address as long as pgd leads to the lower map there, and
\* PAGE_OFFSET above it.
LEMMA KernelReached ==
  ASSUME Filled(ENTRIES), NEW x \in 0 .. (PAGE_OFFSET - 1),
         GiB(x) = GiB(START), Super(x) >= Super(START)
  PROVE  /\ mem[PGD][Index(Pa(0), 2)] = Entry(ID_MAP, "table") => Reaches(x, x)
         /\ mem[PGD][Index(Va(0), 2)] = Entry(HH_MAP, "table") =>
              Reaches(x + PAGE_OFFSET, x)
<1>1. x \in Nat /\ PAGE_OFFSET \in Nat /\ ID_MAP \in Nat /\ HH_MAP \in Nat
  BY TableSizes, Places DEF Tables
<1>2. PICK t \in 0 .. (ENTRIES - 1) :
        Pa(t) + (x % ENTRIES) = x /\ Index(Pa(t), 1) = Index(x, 1)
  BY <1>1, TurnOf
<1>3. t \in Nat
  BY TableSizes
<1>4. Pa(t) \in Nat /\ Index(Va(t), 1) = Index(Pa(t), 1)
  BY <1>3, Turn
<1>5. /\ mem[HH_MAP][Index(x, 1)] = Entry(Pa(t), "kernel")
      /\ mem[ID_MAP][Index(x, 1)] = Entry(Pa(t), "kernel")
  BY <1>2, <1>4 DEF Filled
<1>6. ASSUME mem[PGD][Index(Pa(0), 2)] = Entry(ID_MAP, "table") PROVE Reaches(x, x)
  <2>1. Index(x, 2) = Index(Pa(0), 2)
    BY Halves, StartLinks
  <2>2. Translate(mem, PGD, x) = Entry(Pa(t) + (x % ENTRIES), "kernel")
    BY <1>1, <1>4, <1>5, <1>6, <2>1, Through
  <2> QED BY <1>2, <2>2 DEF Reaches
<1>7. ASSUME mem[PGD][Index(Va(0), 2)] = Entry(HH_MAP, "table")
      PROVE  Reaches(x + PAGE_OFFSET, x)
  <2> DEFINE v == x + PAGE_OFFSET
  <2>1. Index(v, 2) = Index(Va(0), 2)
    BY Halves, StartLinks
  <2>2. v \in Nat /\ Index(v, 1) = Index(x, 1) /\ (v % ENTRIES) = (x % ENTRIES)
    BY <1>1, Upper
  <2> HIDE DEF v
  <2>3. Translate(mem, PGD, v) = Entry(Pa(t) + (v % ENTRIES), "kernel")
    BY <1>1, <1>4, <1>5, <1>7, <2>1, <2>2, Through
  <2> QED BY <1>2, <2>2, <2>3 DEF Reaches, v
<1> QED BY <1>6, <1>7

\* The last turns come round: the superpages of the kernel's GiB that are below
\* its own show, PAGE_OFFSET above, the first of the next GiB.
LEMMA WrappedReached ==
  ASSUME Filled(ENTRIES), mem[PGD][Index(Va(0), 2)] = Entry(HH_MAP, "table"),
         NEW b \in Indices, b < Index(START, 1),
         NEW x, x = GiB(START) * Span(2) + b * Span(1)
  PROVE  Reaches(x + PAGE_OFFSET, x + Span(2))
<1> DEFINE e == ENTRIES
           g == GiB(START)
           first == Index(START, 1)
           t == (b - first) + e
<1>1. e \in Nat \ {0} /\ Span(2) = e * e /\ b \in Nat /\ b <= e - 1 /\ Indices = 0 .. (e - 1)
  BY TableSizes DEF Indices
<1>2. g \in Nat /\ first \in Nat /\ first <= e - 1 /\ Super(START) = g * e + first
  BY <1>1, Places, Digits
<1>3. /\ x \in 0 .. (PAGE_OFFSET - 1) /\ x \in Nat /\ GiB(x) = g
      /\ Super(x) = g * e + b /\ (x % e) = 0
  BY TableSizes, GiBPages
<1>4. t \in 0 .. (e - 1) /\ t \in Nat
  BY <1>1, <1>2
<1>5. Super(START) + t = (g + 1) * e + b
  BY <1>1, <1>2
<1>6. Pa(t) \in Nat /\ Pa(t) = ((g + 1) * e + b) * e
      /\ Index(Va(t), 1) = (((g + 1) * e + b) % e)
  BY <1>4, <1>5, Turn
<1>7. ((g + 1) * e + b) % e = b
  <2> HIDE DEF e, g
  <2>1. g + 1 \in Nat /\ b \in 0 .. (e - 1)
    BY <1>1, <1>2
  <2> QED BY <1>1, <2>1, Quotient
<1>8. Pa(t) = x + Span(2)
  <2>1. x = (g * e + b) * e
    <3>1. x = Super(x) * e + (x % e) /\ Super(x) \in Nat
      BY <1>3, Digits
    <3> HIDE DEF e, g
    <3>2. Super(x) * e \in Nat
      BY <1>1, <3>1
    <3> QED BY <1>3, <3>1, <3>2
  <2> HIDE DEF e, g, t
  <2>2. g * e \in Nat
    BY <1>1, <1>2
  <2>3. (g * e + b) * e = (g * e) * e + b * e /\ (g + 1) * e = g * e + e
    BY <1>1, <1>2, <2>2
  <2>4. ((g * e + e) + b) * e = (g * e) * e + e * e + b * e
    BY <1>1, <2>2
  <2>5. (g * e) * e \in Nat /\ b * e \in Nat /\ e * e \in Nat
    BY <1>1, <2>2
  <2> QED BY <1>1, <1>6, <2>1, <2>3, <2>4, <2>5
<1>9. Index(x, 1) = b
  <2>1. Index(x, 1) = ((g * e + b) % e)
    BY <1>3, Digits
  <2> HIDE DEF e, g
  <2>2. b \in 0 .. (e - 1)
    BY <1>1
  <2> QED BY <1>1, <1>2, <2>1, <2>2, Quotient
<1> DEFINE v == x + PAGE_OFFSET
<1>10. v \in Nat /\ Index(v, 1) = b /\ (v % e) = 0 /\ Index(v, 2) = Index(Va(0), 2)
  BY <1>3, <1>9, Upper, Halves, StartLinks
<1>11. mem[HH_MAP][b] = Entry(x + Span(2), "kernel") /\ x + Span(2) \in Nat
  BY <1>4, <1>6, <1>7, <1>8 DEF Filled
<1>12. HH_MAP \in Nat
  BY Places DEF Tables
<1> HIDE DEF v
<1>13. Translate(mem, PGD, v) = Entry((x + Span(2)) + (v % e), "kernel")
  BY <1>10, <1>11, <1>12, Through
<1>14. (x + Span(2)) + 0 = x + Span(2)
  BY <1>11
<1> QED BY <1>10, <1>13, <1>14 DEF Reaches, v

\* The UART, PAGE_OFFSET above its address
LEMMA UartReached ==
  ASSUME mem[PGD][Index(UART + PAGE_OFFSET, 2)] = Entry(UART_MAP, "table"),
         mem[UART_MAP][Index(UART + PAGE_OFFSET, 1)] = Entry(SuperPage(UART), "kernel")
  PROVE  Reaches(UART + PAGE_OFFSET, UART)
<1> DEFINE v == UART + PAGE_OFFSET
           r == (UART % ENTRIES)
<1>1. /\ v \in Nat /\ (v % ENTRIES) = r /\ UART \in Nat /\ UART_MAP \in Nat
      /\ r \in Nat /\ UART - r \in Nat
  <2>1. UART \in Nat /\ UART_MAP \in Nat /\ ENTRIES \in Nat \ {0}
    BY TableSizes, Places DEF Tables
  <2>2. UART = (UART \div ENTRIES) * ENTRIES + r /\ (UART \div ENTRIES) * ENTRIES \in Nat
        /\ r \in 0 .. (ENTRIES - 1)
    BY <2>1, DivMod
  <2>3. v \in Nat /\ (v % ENTRIES) = r
    BY <2>1, Upper
  <2> HIDE DEF r, v
  <2>4. UART - r \in Nat
    BY <2>1, <2>2
  <2> QED BY <2>1, <2>2, <2>3, <2>4
<1>2. SuperPage(UART) = UART - r
  BY TableSizes DEF SuperPage
<1> HIDE DEF v, r
<1>3. Translate(mem, PGD, v) = Entry((UART - r) + (v % ENTRIES), "kernel")
  BY <1>1, <1>2, Through DEF v
<1>4. (UART - r) + r = UART
  BY <1>1
<1> QED BY <1>1, <1>3, <1>4 DEF Reaches, v

-----------------------------------------------------------------------------
(* Every step of the boot keeps the invariant. *)

\* An entry is one, a superpage's or one that leads to a table.
LEMMA EntryTypes ==
  ASSUME NEW q \in Nat
  PROVE  Entry(q, "kernel") \in Entries /\ Entry(q, "table") \in Entries
BY DEF Entry, Entries

\* _start: nothing is mapped yet.
LEMMA InitBoot == Init => BootInv
<1> SUFFICES ASSUME Init PROVE BootInv
  OBVIOUS
<1> USE DEF Init
<1>1. BootTypes
  <2>1. Zeroed \in [Indices -> Entries]
    BY DEF Zeroed, Entries
  <2>2. mem \in [Tables -> [Indices -> Entries]]
    BY <2>1 DEF Tables
  <2> QED BY <2>2, TableSizes DEF BootTypes
<1>2. Registers
  BY DEF Registers, Translated, Above, StackAbove
<1>3. Maps /\ Links /\ Uart /\ Dropped
  BY DEF Maps, Links, Uart, Dropped, BuildingMap, Translated
<1> QED BY <1>1, <1>2, <1>3 DEF BootInv

\* setup_vm before its loop: the two links of pgd
LEMMA SetupPgdStep == ASSUME BootInv, setup_vm_pgd PROVE BootInv'
<1> USE DEF BootInv, setup_vm_pgd
<1> DEFINE lo == Index(Pa(0), 2)
           hi == Index(Va(0), 2)
<1>1. lo \in Indices /\ hi \in Indices /\ lo # hi
  BY StartLinks, TableSizes DEF Low, Indices
<1>2. Entry(HH_MAP, "table") \in Entries /\ Entry(ID_MAP, "table") \in Entries
  BY Places, EntryTypes DEF Tables
<1>3. mem \in [Tables -> [Indices -> Entries]] /\ PGD \in Tables
  BY DEF BootTypes, Tables
<1> HIDE DEF lo, hi
<1>4. mem' = [mem EXCEPT ![PGD] = [@ EXCEPT ![hi] = Entry(HH_MAP, "table"),
                                            ![lo] = Entry(ID_MAP, "table")]]
  BY DEF Linked, lo, hi
<1>5. /\ mem' \in [Tables -> [Indices -> Entries]]
      /\ mem'[PGD][hi] = Entry(HH_MAP, "table") /\ mem'[PGD][lo] = Entry(ID_MAP, "table")
  BY <1>1, <1>2, <1>3, <1>4
<1>6. BootTypes'
  BY <1>5 DEF BootTypes, BuildingMap
<1>7. Registers'
  BY DEF Registers, Translated, Above, StackAbove, BuildingMap
<1>8. Links'
  BY <1>5 DEF Links, lo, hi
<1>9. Maps'
  BY TableSizes DEF Maps, Filled
<1>10. Uart' /\ Dropped'
  BY DEF Uart, Dropped, Translated
<1> QED BY <1>6, <1>7, <1>8, <1>9, <1>10

\* A turn of setup_vm's loop: the superpage enters both maps, and none that
\* has been entered before makes room for it.
LEMMA SetupLoopStep == ASSUME BootInv, setup_vm_loop PROVE BootInv'
<1> USE DEF BootInv, setup_vm_loop
<1>1. i \in 0 .. (ENTRIES - 1) /\ i \in Nat /\ Filled(i) /\ ENTRIES \in Nat /\ ENTRIES >= 2
  BY TableSizes DEF BootTypes, Maps
<1>2. PICK e : e = Entry(Pa(i), "kernel")
  OBVIOUS
<1>3. PICK n : n = Index(Pa(i), 1)
  OBVIOUS
<1>4. n \in Indices /\ n = Index(Va(i), 1) /\ e \in Entries
  BY <1>1, <1>2, <1>3, Turn, EntryTypes
<1>5. mem' = [mem EXCEPT ![HH_MAP][n] = e, ![ID_MAP][n] = e]
  BY <1>2, <1>3, <1>4
<1>6. /\ mem \in [Tables -> [Indices -> Entries]] /\ Tables = {PGD, ID_MAP, HH_MAP, UART_MAP}
      /\ ID_MAP # HH_MAP /\ PGD \notin {ID_MAP, HH_MAP} /\ UART_MAP \notin {ID_MAP, HH_MAP}
  BY Places DEF BootTypes, Tables
<1>7. /\ mem' \in [Tables -> [Indices -> Entries]]
      /\ mem'[PGD] = mem[PGD] /\ mem'[UART_MAP] = mem[UART_MAP]
      /\ mem'[HH_MAP] = [mem[HH_MAP] EXCEPT ![n] = e]
      /\ mem'[ID_MAP] = [mem[ID_MAP] EXCEPT ![n] = e]
  <2>1. mem'[PGD] = mem[PGD] /\ mem'[UART_MAP] = mem[UART_MAP]
    BY <1>5, <1>6
  <2>2. mem'[HH_MAP] = [mem[HH_MAP] EXCEPT ![n] = e]
    BY <1>5, <1>6
  <2>3. mem'[ID_MAP] = [mem[ID_MAP] EXCEPT ![n] = e]
    BY <1>5, <1>6
  <2>4. mem' \in [Tables -> [Indices -> Entries]]
    <3>1. mem' = [t \in Tables |-> mem'[t]]
      BY <1>5, <1>6
    <3>2. mem'[PGD] \in [Indices -> Entries] /\ mem'[UART_MAP] \in [Indices -> Entries]
      BY <1>6, <2>1
    <3>3. mem'[HH_MAP] \in [Indices -> Entries]
      <4>1. mem[HH_MAP] \in [Indices -> Entries]
        BY <1>6
      <4>2. [mem[HH_MAP] EXCEPT ![n] = e] \in [Indices -> Entries]
        BY <1>4, <4>1
      <4> QED BY <2>2, <4>2
    <3>4. mem'[ID_MAP] \in [Indices -> Entries]
      <4>1. mem[ID_MAP] \in [Indices -> Entries]
        BY <1>6
      <4>2. [mem[ID_MAP] EXCEPT ![n] = e] \in [Indices -> Entries]
        BY <1>4, <4>1
      <4> QED BY <2>3, <4>2
    <3> QED BY <1>6, <3>1, <3>2, <3>3, <3>4
  <2> QED BY <2>1, <2>2, <2>3, <2>4
<1>8. ASSUME NEW t \in 0 .. i
      PROVE  /\ mem'[HH_MAP][Index(Va(t), 1)] = Entry(Pa(t), "kernel")
             /\ mem'[ID_MAP][Index(Pa(t), 1)] = Entry(Pa(t), "kernel")
  <2>1. t \in Nat /\ t \in 0 .. (ENTRIES - 1)
    BY <1>1
  <2>2. Index(Va(t), 1) = Index(Pa(t), 1) /\ Index(Pa(t), 1) \in Indices
    BY <2>1, Turn
  <2>3. CASE t = i
    <3>1. mem'[HH_MAP][n] = e /\ mem'[ID_MAP][n] = e
      BY <1>4, <1>6, <1>7
    <3> QED BY <1>2, <1>3, <2>2, <2>3, <3>1
  <2>4. CASE t # i
    <3>1. Index(Pa(t), 1) # n
      BY <1>1, <1>3, <2>1, <2>4, TurnsApart
    <3>2. /\ mem[HH_MAP][Index(Va(t), 1)] = Entry(Pa(t), "kernel")
          /\ mem[ID_MAP][Index(Pa(t), 1)] = Entry(Pa(t), "kernel")
      BY <1>1, <2>4 DEF Filled
    <3> QED BY <1>6, <1>7, <2>2, <3>1, <3>2
  <2> QED BY <2>3, <2>4
<1>9. i' = i + 1 /\ (pc' = "setup_vm_loop" => i' < ENTRIES) /\ (pc' # "setup_vm_loop" => i' = ENTRIES)
      /\ pc' \in {"setup_vm_loop", "setup_vm_uart"} /\ i' \in 0 .. ENTRIES
  BY <1>1
<1>10. Filled(i)'
  <2>1. \A t \in 0 .. (i' - 1) : t \in 0 .. i
    BY <1>1, <1>9
  <2> QED BY <1>8, <2>1 DEF Filled
<1>11. Maps'
  BY <1>9, <1>10 DEF Maps, Filled, Pa, Va
<1>12. BootTypes'
  BY <1>7, <1>9 DEF BootTypes, BuildingMap
<1>13. Registers'
  BY <1>9 DEF Registers, Translated, Above, StackAbove
<1>14. Links'
  BY <1>7, <1>9 DEF Links, BuildingMap
<1>15. Uart' /\ Dropped'
  BY <1>9 DEF Uart, Dropped, Translated
<1> QED BY <1>11, <1>12, <1>13, <1>14, <1>15

\* The UART's entries of pgd and of its table: pgd keeps the links to the
\* kernel, which lies in another GiB.
LEMMA SetupUartStep == ASSUME BootInv, setup_vm_uart PROVE BootInv'
<1> USE DEF BootInv, setup_vm_uart
<1> DEFINE v == UART + PAGE_OFFSET
<1>1. PICK n : n = Index(v, 2)
  OBVIOUS
<1>2. PICK k : k = Index(v, 1)
  OBVIOUS
<1>3. PICK e : e = Entry(SuperPage(UART), "kernel")
  OBVIOUS
<1>4. PICK d : d = Entry(UART_MAP, "table")
  OBVIOUS
<1>5. /\ n \in Indices /\ k \in Indices /\ n # Index(Pa(0), 2) /\ n # Index(Va(0), 2)
  <2>1. v \in Nat /\ UART \in 0 .. (PAGE_OFFSET - 1) /\ UART \in Nat
    BY Places, Upper
  <2>2. k \in Indices
    <3> HIDE DEF v
    <3> QED BY <1>2, <2>1, Digits
  <2>3. n = GiB(UART) + HALF /\ n \in Indices \ Low
    BY <1>1, <2>1, Halves
  <2>4. n # GiB(START) + HALF
    <3>1. GiB(UART) # GiB(START) /\ GiB(UART) \in Nat /\ GiB(START) \in Nat /\ HALF \in Nat
      BY Places, TableSizes, Digits
    <3> QED BY <2>3, <3>1
  <2> QED BY <2>2, <2>3, <2>4, StartLinks
<1>6. e \in Entries /\ d \in Entries
  <2>1. UART_MAP \in Nat /\ SuperPage(UART) \in Nat
    <3>1. UART \in Nat /\ ENTRIES \in Nat \ {0} /\ UART_MAP \in Nat
      BY Places, TableSizes DEF Tables
    <3>2. UART = (UART \div ENTRIES) * ENTRIES + (UART % ENTRIES)
          /\ (UART \div ENTRIES) * ENTRIES \in Nat /\ (UART % ENTRIES) \in 0 .. (ENTRIES - 1)
      BY <3>1, DivMod
    <3>3. UART - (UART % ENTRIES) \in Nat
      <4> DEFINE q == (UART \div ENTRIES) * ENTRIES
                 r == (UART % ENTRIES)
      <4>1. UART = q + r /\ q \in Nat /\ r \in Nat
        BY <3>1, <3>2
      <4> HIDE DEF q, r
      <4>2. UART - r \in Nat
        BY <4>1
      <4> QED BY <4>2 DEF r
    <3> QED BY <3>1, <3>3, TableSizes DEF SuperPage
  <2> QED BY <1>3, <1>4, <2>1, EntryTypes
<1> HIDE DEF v
<1>7. mem' = [mem EXCEPT ![PGD][n] = d, ![UART_MAP][k] = e]
  BY <1>1, <1>2, <1>3, <1>4 DEF v
<1>8. /\ mem \in [Tables -> [Indices -> Entries]] /\ Tables = {PGD, ID_MAP, HH_MAP, UART_MAP}
      /\ UART_MAP \notin {ID_MAP, HH_MAP} /\ PGD \notin {ID_MAP, HH_MAP, UART_MAP}
  BY Places DEF BootTypes, Tables
<1>9. /\ mem' \in [Tables -> [Indices -> Entries]]
      /\ mem'[ID_MAP] = mem[ID_MAP] /\ mem'[HH_MAP] = mem[HH_MAP]
      /\ mem'[PGD] = [mem[PGD] EXCEPT ![n] = d]
      /\ mem'[UART_MAP] = [mem[UART_MAP] EXCEPT ![k] = e]
  <2>1. mem'[ID_MAP] = mem[ID_MAP] /\ mem'[HH_MAP] = mem[HH_MAP]
    BY <1>7, <1>8
  <2>2. mem'[PGD] = [mem[PGD] EXCEPT ![n] = d]
    BY <1>7, <1>8
  <2>3. mem'[UART_MAP] = [mem[UART_MAP] EXCEPT ![k] = e]
    BY <1>7, <1>8
  <2>4. mem' \in [Tables -> [Indices -> Entries]]
    <3>1. mem' = [t \in Tables |-> mem'[t]]
      BY <1>7, <1>8
    <3>2. mem'[ID_MAP] \in [Indices -> Entries] /\ mem'[HH_MAP] \in [Indices -> Entries]
      BY <1>8, <2>1
    <3>3. mem'[PGD] \in [Indices -> Entries]
      <4>1. mem[PGD] \in [Indices -> Entries]
        BY <1>8
      <4>2. [mem[PGD] EXCEPT ![n] = d] \in [Indices -> Entries]
        BY <1>6, <4>1
      <4> QED BY <2>2, <4>2
    <3>4. mem'[UART_MAP] \in [Indices -> Entries]
      <4>1. mem[UART_MAP] \in [Indices -> Entries]
        BY <1>8
      <4>2. [mem[UART_MAP] EXCEPT ![k] = e] \in [Indices -> Entries]
        BY <1>6, <4>1
      <4> QED BY <2>3, <4>2
    <3> QED BY <1>8, <3>1, <3>2, <3>3, <3>4
  <2> QED BY <2>1, <2>2, <2>3, <2>4
<1>10. BootTypes'
  BY <1>9 DEF BootTypes, BuildingMap
<1>11. Registers' /\ Dropped'
  BY DEF Registers, Dropped, Translated, Above, StackAbove
<1>12. Maps'
  BY <1>9 DEF Maps, Filled
<1>13. Links'
  <2>1. Index(Pa(0), 2) \in Indices /\ Index(Va(0), 2) \in Indices
    BY StartLinks, TableSizes DEF Low, Indices
  <2> QED BY <1>5, <1>8, <1>9, <2>1 DEF Links, BuildingMap
<1>14. Uart'
  BY <1>1, <1>2, <1>3, <1>4, <1>5, <1>8, <1>9 DEF Uart, v
<1> QED BY <1>10, <1>11, <1>12, <1>13, <1>14

\* Translation is turned on, with everything that the cache can hold in pgd.
LEMMA SetupSatpStep == ASSUME BootInv, setup_vm_satp PROVE BootInv'
<1> USE DEF BootInv, setup_vm_satp
<1>1. BootTypes'
  BY DEF BootTypes, Valid, Translated
<1>2. Registers'
  BY DEF Registers, Translated, Above, StackAbove
<1>3. Maps' /\ Links' /\ Uart' /\ Dropped'
  BY DEF Maps, Filled, Links, Uart, Dropped, BuildingMap, Translated
<1> QED BY <1>1, <1>2, <1>3

\* The two moves up, of the program and of its stack
LEMMA MoveUpStep == ASSUME BootInv, jump \/ load_sp PROVE BootInv'
<1> USE DEF BootInv, jump, load_sp
<1>1. BootTypes'
  BY TableSizes DEF BootTypes, Translated
<1>2. Registers'
  <2>1. PAGE_OFFSET \in Nat
    BY TableSizes
  <2> QED BY <2>1 DEF Registers, Translated, Above, StackAbove
<1>3. Maps' /\ Links' /\ Uart'
  BY DEF Maps, Filled, Links, Uart, BuildingMap, Translated
<1>4. Dropped'
  BY TableSizes DEF Dropped
<1> QED BY <1>1, <1>2, <1>3, <1>4

\* A turn of drop_identity_map's loop: an entry of the lower half goes.
LEMMA DropLoopStep == ASSUME BootInv, drop_loop PROVE BootInv'
<1> USE DEF BootInv, drop_loop
<1>1. /\ i \in Low /\ i \in Nat /\ HALF \in Nat /\ HALF < ENTRIES /\ Low \subseteq Indices
      /\ i < ENTRIES /\ ENTRIES \in Nat
      /\ NONE \in Entries
  BY TableSizes DEF BootTypes, Dropped, Low, Indices, Entries
<1>2. /\ mem \in [Tables -> [Indices -> Entries]] /\ PGD \in Tables
      /\ PGD \notin {ID_MAP, HH_MAP, UART_MAP}
  BY Places DEF BootTypes, Tables
<1>3. /\ mem' \in [Tables -> [Indices -> Entries]]
      /\ mem'[ID_MAP] = mem[ID_MAP] /\ mem'[HH_MAP] = mem[HH_MAP]
      /\ mem'[UART_MAP] = mem[UART_MAP]
      /\ mem'[PGD] = [mem[PGD] EXCEPT ![i] = NONE]
  <2>1. ID_MAP \in Tables /\ HH_MAP \in Tables /\ UART_MAP \in Tables
    BY DEF Tables
  <2> QED BY <1>1, <1>2, <2>1
<1>4. \A n \in Indices \ Low : mem'[PGD][n] = mem[PGD][n]
  BY <1>1, <1>2, <1>3
<1>5. i' = i + 1 /\ pc' \in {"drop_loop", "drop_sfence"} /\ (pc' = "drop_loop" <=> i' < HALF)
  BY <1>1 DEF HALF
<1>6. BootTypes'
  BY <1>1, <1>3, <1>5 DEF BootTypes, Translated
<1>7. Registers'
  BY <1>5 DEF Registers, Translated, Above, StackAbove
<1>8. Maps'
  BY <1>3, <1>5 DEF Maps, Filled
<1>9. Links'
  BY <1>4, <1>5, StartLinks DEF Links, BuildingMap
<1>10. Uart'
  <2>1. Index(UART + PAGE_OFFSET, 2) \in Indices \ Low
    BY Places, Halves
  <2> QED BY <1>3, <1>4, <1>5, <2>1 DEF Uart, Translated
<1>11. Dropped'
  <2>1. \A n \in 0 .. i : mem'[PGD][n] = NONE
    BY <1>1, <1>2, <1>3 DEF Dropped, Low
  <2>2. pc' = "drop_sfence" => Low \subseteq 0 .. i
    BY <1>1, <1>5 DEF Low
  <2>3. i' - 1 = i
    BY <1>1, <1>5
  <2> QED BY <1>5, <2>1, <2>2, <2>3 DEF Dropped
<1> QED BY <1>6, <1>7, <1>8, <1>9, <1>10, <1>11

\* After the last sfence.vma the cache knows the upper half only.
LEMMA DropSfenceStep == ASSUME BootInv, drop_sfence PROVE BootInv'
<1> USE DEF BootInv, drop_sfence
<1>1. BootTypes'
  BY DEF BootTypes, AfterSfence, Valid, Translated
<1>2. Registers'
  BY DEF Registers, Translated, Above, StackAbove
<1>3. Maps' /\ Links' /\ Uart'
  BY DEF Maps, Filled, Links, Uart, BuildingMap, Translated
<1>4. Dropped'
  BY DEF Dropped, AfterSfence, Valid
<1> QED BY <1>1, <1>2, <1>3, <1>4

\* Through every turn of both loops, the maps are as far as they have been
\* built and taken away.
LEMMA BootStep == ASSUME BootInv, [Next]_vars PROVE BootInv'
<1>1. CASE setup_vm_pgd \/ setup_vm_loop \/ setup_vm_uart
  BY <1>1, SetupPgdStep, SetupLoopStep, SetupUartStep
<1>2. CASE setup_vm_satp \/ jump \/ load_sp
  BY <1>2, SetupSatpStep, MoveUpStep
<1>3. CASE drop_loop \/ drop_sfence
  BY <1>3, DropLoopStep, DropSfenceStep
<1>4. CASE UNCHANGED vars
  BY <1>4 DEF vars, BootInv, BootTypes, Registers, Maps, Filled, Links, Uart, Dropped
<1> QED BY <1>1, <1>2, <1>3, <1>4 DEF Next

\* The image and the stack are mapped where the processor uses them.
LEMMA BootSafe == ASSUME BootInv PROVE BootRuns
<1> USE DEF BootInv
<1> SUFFICES ASSUME satp, NEW p \in START .. END
             PROVE  Reaches(p + base, p) /\ Reaches(p + sp, p)
  BY DEF BootRuns
<1>1. p \in 0 .. (PAGE_OFFSET - 1) /\ GiB(p) = GiB(START) /\ Super(p) >= Super(START)
  BY ImagePages
<1>2. pc \in Translated /\ Filled(ENTRIES)
  BY DEF Registers, Maps, Translated
<1>3. pc \in {"jump", "load_sp"} => Reaches(p, p)
  BY <1>1, <1>2, KernelReached DEF Links
<1>4. Reaches(p + PAGE_OFFSET, p)
  BY <1>1, <1>2, KernelReached DEF Links, Translated
<1>5. p + 0 = p
  BY <1>1
<1> QED BY <1>2, <1>3, <1>4, <1>5 DEF Registers, Translated, Above, StackAbove

\* What is left when start_kernel runs
LEMMA BootEnds == ASSUME BootInv PROVE FinalMap
<1> SUFFICES ASSUME pc = "start_kernel" PROVE FinalMap
  BY DEF FinalMap
<1> USE DEF BootInv
<1>1. Filled(ENTRIES) /\ mem[PGD][Index(Va(0), 2)] = Entry(HH_MAP, "table")
  BY DEF Maps, Links
<1>2. Valid(mem) \cup cached \subseteq (ENTRIES \div 2) .. (ENTRIES - 1)
  <2>1. Valid(mem) \cup cached \subseteq Indices \ Low
    BY DEF BootTypes, Dropped, Valid
  <2> QED BY <2>1, TableSizes DEF Indices, Low, HALF
<1>3. Reaches(UART + PAGE_OFFSET, UART)
  BY UartReached DEF Uart, Translated
<1>4. ASSUME NEW b \in Indices, NEW x, x = GiB(START) * Span(2) + b * Span(1)
      PROVE  Reaches(x + PAGE_OFFSET, IF b < Index(START, 1) THEN x + Span(2) ELSE x)
  <2>1. ASSUME ~ (b < Index(START, 1)) PROVE Reaches(x + PAGE_OFFSET, x)
    <3>1. b >= Index(START, 1)
      <4>1. Index(START, 1) \in Int /\ b \in Int
        BY TableSizes, Places, Digits DEF Indices
      <4> QED BY <2>1, <4>1
    <3> QED BY <1>1, <1>4, <3>1, GiBPages, KernelReached
  <2> QED BY <1>1, <1>4, <2>1, WrappedReached
<1> QED BY <1>2, <1>3, <1>4 DEF FinalMap

-----------------------------------------------------------------------------
(* The frame buffer of ex52: the inductive invariant *)

\* The pixel at column x of row r, and whether the frame has one there
At(r, x) == r * FB_WIDTH + x
Rows == 0 .. (FB_HEIGHT - 1)
Columns == 0 .. (FB_WIDTH - 1)
FrameRows == FB!start_y .. (FB!start_y + FB!height - 1)
FrameColumns == FB!start_x .. (FB!start_x + FB!width - 1)

\* What frame n has there
Shown(n, r, x) == <<n, (r - FB!start_y) * FB!width + (x - FB!start_x)>>

\* How many rows of the frame the kernel has copied
RowsCopied == IF fpc = "flush_dcache" THEN y + 1 ELSE y

\* Shapes of the variables
FrameTypes ==
  /\ size \in Sizes
  /\ f \in 0 .. (FRAME_COUNT - 1)
  /\ fpc \in {"memcpy", "flush_dcache", "usleep"}
  /\ y \in 0 .. FB!height
  /\ fpc = "usleep" <=> y = FB!height
  /\ line \in Nat
  /\ memory = [p \in FB!Pixels |-> memory[p]]
  /\ view = [p \in FB!Pixels |-> view[p]]

\* Nobody writes beside the frame, in the cache or behind it.
Beside ==
  \A r \in Rows, x \in Columns :
    ~ (r \in FrameRows /\ x \in FrameColumns) =>
      view[At(r, x)] = FB!BLANK /\ memory[At(r, x)] = FB!BLANK

\* The rows copied are the frame's.
Copied ==
  \A r \in FB!start_y .. (FB!start_y + RowsCopied - 1), x \in FrameColumns :
    view[At(r, x)] = Shown(f, r, x)

\* The rows before the current one are in memory, and of the current one what
\* lies in the lines that have been flushed.
Flushed ==
  /\ \A r \in FB!start_y .. (FB!start_y + y - 1), x \in FrameColumns :
       memory[At(r, x)] = view[At(r, x)]
  /\ fpc = "flush_dcache" =>
       \A x \in FrameColumns :
         At(FB!start_y + y, x) \div LINE < line =>
           memory[At(FB!start_y + y, x)] = view[At(FB!start_y + y, x)]

FrameInv == FrameTypes /\ Beside /\ Copied /\ Flushed

-----------------------------------------------------------------------------
(* Rows, columns and pixels *)

\* Neither a line nor a row is empty, and there is a frame.
LEMMA Strides == LINE \in Nat \ {0} /\ FRAME_COUNT \in Nat \ {0} /\ FB_WIDTH \in Nat \ {0}
BY FramesAssumption

\* A frame lies inside the frame buffer.
LEMMA FrameInside ==
  ASSUME size \in Sizes
  PROVE  /\ FB!width \in 1 .. FB_WIDTH /\ FB!height \in 1 .. FB_HEIGHT
         /\ FB!start_x \in 0 .. (FB_WIDTH - FB!width)
         /\ FB!start_y \in 0 .. (FB_HEIGHT - FB!height)
         /\ FrameRows \subseteq Rows /\ FrameColumns \subseteq Columns
         /\ FB_WIDTH \in Nat \ {0} /\ FB_HEIGHT \in Nat \ {0}
<1> DEFINE w == FB!width
           h == FB!height
<1>1. w \in 1 .. FB_WIDTH /\ h \in 1 .. FB_HEIGHT
  BY FramesAssumption DEF FB!width, FB!height
<1>2. FB_WIDTH \in Nat \ {0} /\ FB_HEIGHT \in Nat \ {0}
  BY FramesAssumption
<1>3. FB!start_x = (FB_WIDTH - w) \div 2 /\ FB!start_y = (FB_HEIGHT - h) \div 2
  BY DEF FB!start_x, FB!start_y
<1> HIDE DEF w, h
<1>4. FB!start_x \in 0 .. (FB_WIDTH - w) /\ FB!start_y \in 0 .. (FB_HEIGHT - h)
  BY <1>1, <1>2, <1>3
<1>5. FrameRows \subseteq Rows /\ FrameColumns \subseteq Columns
  BY <1>1, <1>2, <1>4 DEF FrameRows, FrameColumns, Rows, Columns, w, h
<1> QED BY <1>1, <1>2, <1>4, <1>5 DEF w, h

\* Every column of every row is a pixel of its own.
LEMMA PixelOf ==
  ASSUME NEW r \in Rows, NEW x \in Columns
  PROVE  /\ At(r, x) \in FB!Pixels /\ At(r, x) \in Nat
         /\ At(r, x) \div FB_WIDTH = r /\ (At(r, x) % FB_WIDTH) = x
<1> DEFINE w == FB_WIDTH
           h == FB_HEIGHT
<1>1. w \in Nat \ {0} /\ h \in Nat \ {0} /\ r \in 0 .. (h - 1) /\ x \in 0 .. (w - 1)
  BY FramesAssumption DEF Rows, Columns
<1>2. At(r, x) = r * w + x
  BY DEF At
<1> HIDE DEF w, h
<1>3. r * w + x \in 0 .. (w * h - 1)
  <2>1. r * w \in Nat /\ w * h = r * w + (h - r - 1) * w + w /\ (h - r - 1) * w \in Nat
    BY <1>1
  <2> QED BY <1>1, <2>1
<1>4. (r * w + x) \div w = r /\ ((r * w + x) % w) = x
  BY <1>1, Quotient
<1>5. FB!Pixels = 0 .. (w * h - 1)
  BY DEF FB!Pixels, w, h
<1>6. r * w + x \in Nat
  BY <1>1
<1> QED BY <1>2, <1>3, <1>4, <1>5, <1>6 DEF w

\* The pixels memcpy writes in a turn are one row of the frame.
LEMMA RowCopied ==
  ASSUME size \in Sizes, y \in 0 .. (FB!height - 1), NEW r \in Rows, NEW x \in Columns
  PROVE  /\ At(r, x) \in FB!dst .. (FB!dst + FB!width - 1) <=>
              r = FB!start_y + y /\ x \in FrameColumns
         /\ r = FB!start_y + y => At(r, x) - FB!dst = x - FB!start_x
<1> DEFINE w == FB!width
           a == FB!start_x
           b == FB!start_y + y
           d == FB!dst
           n == FB_WIDTH
<1>1. /\ w \in 1 .. n /\ a \in 0 .. (n - w) /\ n \in Nat \ {0} /\ b \in Rows /\ b \in Nat
      /\ r \in Nat /\ x \in 0 .. (n - 1)
  BY FrameInside DEF Rows, Columns
<1>2. d = b * n + a /\ At(r, x) = r * n + x /\ FrameColumns = a .. (a + w - 1)
  BY DEF FB!dst, At, FrameColumns
<1> HIDE DEF w, a, b, d, n
<1>3. b * n \in Nat /\ r * n \in Nat
  BY <1>1
<1>4. CASE r = b
  <2> DEFINE k == b * n
  <2>1. At(r, x) = k + x /\ d = k + a /\ k \in Nat
    BY <1>2, <1>3, <1>4
  <2> HIDE DEF k
  <2>2. At(r, x) \in d .. (d + w - 1) <=> x \in a .. (a + w - 1)
    BY <1>1, <2>1
  <2>3. At(r, x) - d = x - a
    BY <1>1, <2>1
  <2> QED BY <1>2, <1>4, <2>2, <2>3 DEF w, a, b, d
<1>5. CASE r < b
  <2>1. b * n = r * n + (b - r - 1) * n + n /\ (b - r - 1) * n \in Nat
    BY <1>1, <1>5
  <2>2. At(r, x) < d
    BY <1>1, <1>2, <1>3, <2>1
  <2>3. d \in Nat /\ At(r, x) \in Nat
    BY <1>1, <1>2, <1>3
  <2>4. At(r, x) \notin d .. (d + w - 1)
    BY <1>1, <2>2, <2>3
  <2> QED BY <1>1, <1>5, <2>4 DEF w, b, d
<1>6. CASE r > b
  <2>1. r * n = b * n + (r - b - 1) * n + n /\ (r - b - 1) * n \in Nat
    BY <1>1, <1>6
  <2>2. At(r, x) > d + w - 1
    BY <1>1, <1>2, <1>3, <2>1
  <2>3. d \in Nat /\ At(r, x) \in Nat
    BY <1>1, <1>2, <1>3
  <2>4. At(r, x) \notin d .. (d + w - 1)
    BY <1>1, <2>2, <2>3
  <2> QED BY <1>1, <1>6, <2>4 DEF w, b, d
<1> QED BY <1>1, <1>4, <1>5, <1>6

\* A line written to memory brings what the kernel sees there, and no more.
LEMMA LineWritten ==
  ASSUME NEW l, memory' = FB!Written(l), NEW p \in FB!Pixels
  PROVE  memory'[p] = IF p \div LINE = l THEN view[p] ELSE memory[p]
BY DEF FB!Written

-----------------------------------------------------------------------------
(* Every step of the kernel and of the cache keeps the invariant. *)

\* Before the first frame, nothing is in the frame buffer.
LEMMA InitFrame == FB!Init => FrameInv
<1> SUFFICES ASSUME FB!Init PROVE FrameInv
  OBVIOUS
<1> USE DEF FB!Init
<1>1. FB!height \in Nat \ {0} /\ FB!start_y \in Nat
  BY FrameInside
<1>2. FrameTypes
  BY <1>1, Strides DEF FrameTypes
<1>3. Beside
  BY PixelOf DEF Beside
<1>4. Copied /\ Flushed
  BY <1>1 DEF Copied, Flushed, RowsCopied
<1> QED BY <1>2, <1>3, <1>4 DEF FrameInv

\* What stays when the image does
LEMMA SameFrame ==
  ASSUME UNCHANGED size
  PROVE  /\ FB!width' = FB!width /\ FB!height' = FB!height
         /\ FB!start_x' = FB!start_x /\ FB!start_y' = FB!start_y
         /\ FrameRows' = FrameRows /\ FrameColumns' = FrameColumns
BY DEF FB!width, FB!height, FB!start_x, FB!start_y, FrameRows, FrameColumns

\* A line is written to memory, by the cache or in a turn of flush_dcache.
LEMMA LineStep ==
  ASSUME FrameInv, NEW l, memory' = FB!Written(l), UNCHANGED <<size, f, fpc, y, view>>,
         line' \in Nat, line' = line \/ (l = line /\ line' = line + 1)
  PROVE  FrameInv'
<1> USE DEF FrameInv
<1>1. /\ FrameRows' = FrameRows /\ FrameColumns' = FrameColumns /\ FB!start_y' = FB!start_y
      /\ FB!width' = FB!width /\ FB!height' = FB!height /\ FB!start_x' = FB!start_x
  BY SameFrame
<1>2. /\ FrameRows \subseteq Rows /\ FrameColumns \subseteq Columns
      /\ FB!start_y \in Nat /\ FB!height \in Nat /\ y \in 0 .. FB!height
      /\ FrameRows = FB!start_y .. (FB!start_y + FB!height - 1)
      /\ y = FB!height <=> fpc = "usleep"
  BY FrameInside DEF FrameTypes, FrameRows
<1>3. ASSUME NEW r \in Rows, NEW x \in Columns
      PROVE  memory'[At(r, x)] = IF At(r, x) \div LINE = l THEN view[At(r, x)]
                                                          ELSE memory[At(r, x)]
  BY PixelOf, LineWritten
<1>4. FrameTypes'
  BY <1>1 DEF FrameTypes, FB!Written
<1>5. Beside'
  BY <1>1, <1>3 DEF Beside, FB!BLANK
<1>6. Copied'
  BY <1>1 DEF Copied, RowsCopied, Shown
<1>7. \A r \in FB!start_y .. (FB!start_y + y - 1), x \in FrameColumns :
        memory'[At(r, x)] = view[At(r, x)]
  <2> SUFFICES ASSUME NEW r \in FB!start_y .. (FB!start_y + y - 1), NEW x \in FrameColumns
               PROVE  memory'[At(r, x)] = view[At(r, x)]
    OBVIOUS
  <2>1. r \in Rows /\ x \in Columns
    BY <1>2
  <2> QED BY <1>3, <2>1 DEF Flushed
<1>8. ASSUME fpc = "flush_dcache", NEW x \in FrameColumns,
             At(FB!start_y + y, x) \div LINE < line'
      PROVE  memory'[At(FB!start_y + y, x)] = view[At(FB!start_y + y, x)]
  <2>1. FB!start_y + y \in Rows /\ x \in Columns
    BY <1>2, <1>8
  <2>2. At(FB!start_y + y, x) \div LINE \in Nat /\ line \in Nat
    BY <2>1, PixelOf, Strides, DivMod DEF FrameTypes
  <2>3. CASE At(FB!start_y + y, x) \div LINE < line
    BY <1>3, <1>8, <2>1, <2>3 DEF Flushed
  <2>4. CASE ~ (At(FB!start_y + y, x) \div LINE < line)
    <3>1. At(FB!start_y + y, x) \div LINE = l
      BY <1>8, <2>2, <2>4
    <3> QED BY <1>3, <2>1, <3>1
  <2> QED BY <2>3, <2>4
<1>9. Flushed'
  BY <1>1, <1>7, <1>8 DEF Flushed
<1> QED BY <1>4, <1>5, <1>6, <1>9

\* memcpy: of what has been copied, only the row itself changes, and none of it
\* has been flushed.
LEMMA CopyStep == ASSUME FrameInv, FB!CopyRow PROVE FrameInv'
<1> USE DEF FrameInv, FB!CopyRow
<1>1. /\ FrameRows' = FrameRows /\ FrameColumns' = FrameColumns /\ FB!start_y' = FB!start_y
      /\ FB!width' = FB!width /\ FB!height' = FB!height /\ FB!start_x' = FB!start_x
  BY SameFrame
<1>2. /\ FrameRows \subseteq Rows /\ FrameColumns \subseteq Columns /\ size \in Sizes
      /\ FB!start_y \in Nat /\ FB!height \in Nat /\ y \in 0 .. (FB!height - 1)
      /\ FrameRows = FB!start_y .. (FB!start_y + FB!height - 1)
      /\ FB!start_x \in Nat /\ FB!width \in Nat \ {0} /\ FB!width <= FB_WIDTH
      /\ FB_WIDTH \in Nat
  BY FrameInside DEF FrameTypes, FrameRows
<1>3. ASSUME NEW r \in Rows, NEW x \in Columns
      PROVE  view'[At(r, x)] = IF r = FB!start_y + y /\ x \in FrameColumns
                                 THEN Shown(f, r, x) ELSE view[At(r, x)]
  <2> DEFINE p == At(r, x)
  <2>1. p \in FB!Pixels
    BY PixelOf
  <2>2. /\ p \in FB!dst .. (FB!dst + FB!width - 1) <=> r = FB!start_y + y /\ x \in FrameColumns
        /\ r = FB!start_y + y => p - FB!dst = x - FB!start_x /\ r - FB!start_y = y
    BY <1>2, RowCopied
  <2> HIDE DEF p
  <2>3. view'[p] = IF p \in FB!dst .. (FB!dst + FB!width - 1)
                     THEN <<f, y * FB!width + (p - FB!dst)>> ELSE view[p]
    BY <2>1
  <2> QED BY <2>2, <2>3 DEF Shown, p
<1>4. FrameTypes'
  <2>1. line' \in Nat
    <3>1. FB!dst \in Nat
      <4>1. FB!start_y + y \in Nat
        BY <1>2
      <4>2. (FB!start_y + y) * FB_WIDTH \in Nat
        BY <1>2, <4>1
      <4> QED BY <1>2, <4>2 DEF FB!dst
    <3> QED BY <3>1, Strides, DivMod DEF FB!FirstLine
  <2>2. fpc' = "flush_dcache" /\ fpc = "memcpy"
    OBVIOUS
  <2>3. view' = [p \in FB!Pixels |-> view'[p]]
    OBVIOUS
  <2> QED BY <1>1, <2>1, <2>2, <2>3 DEF FrameTypes
<1>5. Beside'
  <2>1. FB!start_y + y \in FrameRows
    BY <1>2
  <2> QED BY <1>1, <1>3, <2>1 DEF Beside, FB!BLANK
<1>6. Copied'
  <2> SUFFICES ASSUME NEW r \in FB!start_y .. (FB!start_y + y), NEW x \in FrameColumns
               PROVE  view'[At(r, x)] = Shown(f, r, x)
    <3>1. RowsCopied' = y + 1 /\ f' = f
      BY DEF RowsCopied
    <3>2. FB!start_y + (y + 1) - 1 = FB!start_y + y
      BY <1>2
    <3>3. FB!start_y' .. (FB!start_y' + RowsCopied' - 1) = FB!start_y .. (FB!start_y + y)
      BY <1>1, <3>1, <3>2
    <3>4. \A q, x : Shown(f, q, x)' = Shown(f, q, x)
      BY <1>1, <3>1 DEF Shown
    <3>5. \A q \in FB!start_y .. (FB!start_y + y), x \in FrameColumns :
            view'[At(q, x)] = Shown(f, q, x)'
      BY <3>4, Zenon
    <3> QED BY <1>1, <3>3, <3>5, Zenon DEF Copied
  <2>1. r \in Rows /\ x \in Columns
    BY <1>2
  <2>2. CASE r = FB!start_y + y
    BY <1>3, <2>1, <2>2
  <2>3. CASE r # FB!start_y + y
    <3>1. r \in FB!start_y .. (FB!start_y + y - 1)
      BY <1>2, <2>3
    <3>2. RowsCopied = y
      BY DEF RowsCopied
    <3> QED BY <1>3, <2>1, <2>3, <3>1, <3>2 DEF Copied
  <2> QED BY <2>2, <2>3
<1>7. ASSUME NEW r \in FB!start_y .. (FB!start_y + y - 1), NEW x \in FrameColumns
      PROVE  memory[At(r, x)] = view'[At(r, x)]
  <2>1. r \in Rows /\ x \in Columns /\ r # FB!start_y + y
    BY <1>2
  <2> QED BY <1>3, <2>1 DEF Flushed
<1>8. ASSUME NEW x \in FrameColumns
      PROVE  ~ (At(FB!start_y + y, x) \div LINE < line')
  <2>1. FB!start_y + y \in Rows /\ x \in Columns
    BY <1>2
  <2>2. At(FB!start_y + y, x) \in FB!dst .. (FB!dst + FB!width - 1)
    BY <1>2, <2>1, RowCopied
  <2> DEFINE p == At(FB!start_y + y, x)
             d == FB!dst
  <2>3. d \in Nat /\ p \in Nat /\ d <= p /\ line' = d \div LINE /\ LINE \in Nat \ {0}
    <3>1. d \in Nat
      <4>1. FB!start_y + y \in Nat
        BY <1>2
      <4>2. (FB!start_y + y) * FB_WIDTH \in Nat
        BY <1>2, <4>1
      <4> QED BY <1>2, <4>2 DEF FB!dst
    <3>2. line' = d \div LINE
      BY DEF FB!FirstLine
    <3> QED BY <1>2, <2>1, <2>2, <3>1, <3>2, PixelOf, Strides
  <2> HIDE DEF p, d
  <2>4. d \div LINE <= p \div LINE /\ d \div LINE \in Nat /\ p \div LINE \in Nat
    BY <2>3, DivMonotone, DivMod
  <2> QED BY <2>3, <2>4 DEF p
<1>9. Flushed'
  BY <1>1, <1>7, <1>8 DEF Flushed
<1> QED BY <1>4, <1>5, <1>6, <1>9

\* The last line of a row is flushed: the row is in memory.
LEMMA NextRowStep == ASSUME FrameInv, FB!NextRow PROVE FrameInv'
<1> USE DEF FrameInv, FB!NextRow
<1>1. /\ FrameRows' = FrameRows /\ FrameColumns' = FrameColumns /\ FB!start_y' = FB!start_y
      /\ FB!width' = FB!width /\ FB!height' = FB!height /\ FB!start_x' = FB!start_x
  BY SameFrame
<1>2. /\ FrameRows \subseteq Rows /\ FrameColumns \subseteq Columns /\ size \in Sizes
      /\ FB!start_y \in Nat /\ FB!height \in Nat /\ y \in 0 .. (FB!height - 1)
      /\ FrameRows = FB!start_y .. (FB!start_y + FB!height - 1)
      /\ FB!start_x \in Nat /\ FB!width \in Nat \ {0} /\ FB_WIDTH \in Nat
      /\ y' = y + 1 /\ line \in Nat /\ LINE \in Nat \ {0}
  BY FrameInside, Strides DEF FrameTypes, FrameRows
<1>3. ASSUME NEW x \in FrameColumns
      PROVE  memory[At(FB!start_y + y, x)] = view[At(FB!start_y + y, x)]
  <2> DEFINE p == At(FB!start_y + y, x)
             e == FB!dst + FB!width
  <2>1. FB!start_y + y \in Rows /\ x \in Columns
    BY <1>2
  <2>2. p \in FB!dst .. (FB!dst + FB!width - 1)
    <3> HIDE DEF e
    <3> QED BY <1>2, <2>1, RowCopied
  <2>3. p \in Nat /\ e \in Nat /\ p < e /\ e <= line * LINE
    <3>1. FB!dst \in Nat
      <4>1. FB!start_y + y \in Nat
        BY <1>2
      <4>2. (FB!start_y + y) * FB_WIDTH \in Nat
        BY <1>2, <4>1
      <4> QED BY <1>2, <4>2 DEF FB!dst
    <3>2. ~ (line * LINE < e)
      BY DEF FB!LineInRow
    <3>3. line * LINE \in Nat
      BY <1>2
    <3> HIDE DEF p
    <3> QED BY <1>2, <2>2, <3>1, <3>2, <3>3
  <2> HIDE DEF p, e
  <2>4. p \div LINE < line
    <3> DEFINE q == p \div LINE
    <3>1. q \in Nat /\ q * LINE <= p
      <4>1. /\ q \in Nat /\ p = q * LINE + (p % LINE) /\ (p % LINE) \in 0 .. (LINE - 1)
            /\ q * LINE \in Nat
        BY <1>2, <2>3, DivMod
      <4> HIDE DEF q
      <4> QED BY <1>2, <2>3, <4>1
    <3> HIDE DEF q
    <3>2. SUFFICES ASSUME q >= line PROVE FALSE
      BY <1>2, <3>1 DEF q
    <3>3. q * LINE = line * LINE + (q - line) * LINE /\ (q - line) * LINE \in Nat
      BY <1>2, <3>1, <3>2
    <3>4. q * LINE \in Nat /\ line * LINE \in Nat
      BY <1>2, <3>1
    <3> QED BY <2>3, <3>1, <3>3, <3>4
  <2> QED BY <2>4 DEF Flushed, p
<1>4. FrameTypes'
  BY <1>1, <1>2 DEF FrameTypes
<1>5. Beside'
  BY <1>1 DEF Beside, FB!BLANK
<1>6. Copied'
  <2>1. RowsCopied' = RowsCopied
    BY DEF RowsCopied
  <2>2. \A n, r, x : Shown(n, r, x)' = Shown(n, r, x)
    BY <1>1 DEF Shown
  <2>3. FB!start_y' .. (FB!start_y' + RowsCopied' - 1) = FB!start_y .. (FB!start_y + RowsCopied - 1)
    BY <1>1, <2>1
  <2>4. \A r, x : At(r, x)' = At(r, x)
    BY <1>1 DEF At
  <2>5. view' = view /\ f' = f
    OBVIOUS
  <2> HIDE DEF FrameInv, FB!NextRow
  <2>6. \A r \in FB!start_y .. (FB!start_y + RowsCopied - 1), x \in FrameColumns :
          view[At(r, x)] = Shown(f, r, x)
    BY DEF FrameInv, Copied
  <2>7. \A r \in (FB!start_y .. (FB!start_y + RowsCopied - 1))', x \in FrameColumns' :
          view'[At(r, x)'] = Shown(f, r, x)'
    BY <1>1, <2>2, <2>3, <2>4, <2>5, <2>6
  <2> QED BY <2>7, Zenon DEF Copied
<1>7. Flushed'
  <2>1. ASSUME NEW r \in FB!start_y .. (FB!start_y + y), NEW x \in FrameColumns
        PROVE  memory[At(r, x)] = view[At(r, x)]
    <3>1. r = FB!start_y + y \/ r \in FB!start_y .. (FB!start_y + y - 1)
      BY <1>2
    <3> QED BY <1>3, <3>1 DEF Flushed
  <2>2. FB!start_y' .. (FB!start_y' + y' - 1) = FB!start_y .. (FB!start_y + y)
    BY <1>1, <1>2
  <2>3. memory' = memory /\ view' = view /\ fpc' # "flush_dcache"
    OBVIOUS
  <2>4. \A r \in FB!start_y' .. (FB!start_y' + y' - 1), x \in FrameColumns' :
          memory'[At(r, x)] = view'[At(r, x)]
    <3> SUFFICES ASSUME NEW r \in FB!start_y' .. (FB!start_y' + y' - 1),
                        NEW x \in FrameColumns'
                 PROVE  memory'[At(r, x)] = view'[At(r, x)]
      BY Zenon
    <3>1. r \in FB!start_y .. (FB!start_y + y) /\ x \in FrameColumns
      BY <1>1, <2>2, Zenon
    <3> QED BY <2>1, <2>3, <3>1
  <2> QED BY <2>3, <2>4 DEF Flushed
<1> QED BY <1>4, <1>5, <1>6, <1>7

\* The next frame: none of its rows has been copied.
LEMMA NextFrameStep == ASSUME FrameInv, FB!NextFrame PROVE FrameInv'
<1> USE DEF FrameInv, FB!NextFrame
<1>1. /\ FrameRows' = FrameRows /\ FrameColumns' = FrameColumns /\ FB!start_y' = FB!start_y
      /\ FB!width' = FB!width /\ FB!height' = FB!height /\ FB!start_x' = FB!start_x
  BY SameFrame
<1>2. FB!start_y \in Nat /\ FB!height \in Nat \ {0} /\ y' = 0
  BY FrameInside DEF FrameTypes
<1>3. FrameTypes'
  <2>1. f' \in 0 .. (FRAME_COUNT - 1)
    BY Strides DEF FrameTypes
  <2> QED BY <1>1, <1>2, <2>1 DEF FrameTypes
<1>4. Beside'
  BY <1>1 DEF Beside, FB!BLANK
<1>5. Copied' /\ Flushed'
  <2>1. FB!start_y' .. (FB!start_y' + y' - 1) = {} /\ RowsCopied' = y' /\ fpc' = "memcpy"
    BY <1>1, <1>2 DEF RowsCopied
  <2> QED BY <2>1 DEF Copied, Flushed
<1> QED BY <1>3, <1>4, <1>5

\* The invariant is inductive.
LEMMA FrameStep == ASSUME FrameInv, [FB!Next]_frameVars PROVE FrameInv'
<1>1. CASE FB!WriteBack
  <2>1. PICK l \in dirty : memory' = FB!Written(l)
    BY <1>1 DEF FB!WriteBack
  <2>2. line' = line /\ line \in Nat /\ UNCHANGED <<size, f, fpc, y, view>>
    BY <1>1 DEF FB!WriteBack, FrameInv, FrameTypes
  <2> QED BY <2>1, <2>2, LineStep
<1>2. CASE FB!FlushLine
  <2>1. line \in Nat
    BY DEF FrameInv, FrameTypes
  <2> QED BY <1>2, <2>1, LineStep DEF FB!FlushLine
<1>3. CASE FB!CopyRow \/ FB!NextRow \/ FB!NextFrame
  BY <1>3, CopyStep, NextRowStep, NextFrameStep
<1>4. CASE UNCHANGED frameVars
  <2>1. UNCHANGED <<size, f, fpc, y, line, memory, view, dirty>>
    BY <1>4 DEF frameVars
  <2>2. /\ FrameRows' = FrameRows /\ FrameColumns' = FrameColumns /\ FB!start_y' = FB!start_y
        /\ FB!width' = FB!width /\ FB!height' = FB!height /\ FB!start_x' = FB!start_x
    BY <2>1, SameFrame
  <2>3. FrameTypes'
    BY <2>1, <2>2 DEF FrameInv, FrameTypes
  <2>4. Beside' /\ Copied' /\ Flushed'
    BY <2>1, <2>2 DEF FrameInv, Beside, Copied, Flushed, RowsCopied, Shown, FB!BLANK
  <2> QED BY <2>3, <2>4 DEF FrameInv
<1> QED BY <1>1, <1>2, <1>3, <1>4 DEF FB!Next

\* While the kernel sleeps, the display shows the frame and nothing else.
LEMMA FrameSafe == ASSUME FrameInv PROVE FB!FrameShown
<1> USE DEF FrameInv
<1> SUFFICES ASSUME fpc = "usleep", NEW r \in Rows, NEW x \in Columns
             PROVE  memory[At(r, x)] = FB!Centred(r, x)
  BY DEF FB!FrameShown, Rows, Columns, At
<1>1. FB!Centred(r, x) = IF r \in FrameRows /\ x \in FrameColumns THEN Shown(f, r, x) ELSE FB!BLANK
  BY DEF FB!Centred, FrameRows, FrameColumns, Shown
<1>2. /\ FrameRows = FB!start_y .. (FB!start_y + y - 1)
      /\ FrameRows = FB!start_y .. (FB!start_y + RowsCopied - 1)
  BY DEF FrameTypes, FrameRows, RowsCopied
<1>3. CASE r \in FrameRows /\ x \in FrameColumns
  BY <1>1, <1>2, <1>3 DEF Copied, Flushed
<1>4. CASE ~ (r \in FrameRows /\ x \in FrameColumns)
  BY <1>1, <1>4 DEF Beside
<1> QED BY <1>3, <1>4

-----------------------------------------------------------------------------
(* Numbers and sequences *)

\* A non-empty set of numbers has a least one.
LEMMA LeastNumber ==
  ASSUME NEW T \in SUBSET Nat, T # {}
  PROVE  \E n \in T : \A m \in T : n <= m
<1> DEFINE R == OpToRel(<, Nat)
<1>1. IsWellFoundedOn(R, Nat)
  BY NatLessThanWellFounded
<1>2. \A m, n \in Nat : m < n => <<m, n>> \in R
  BY DEF OpToRel
<1> HIDE DEF R
<1>3. PICK n \in T : \A m \in T : ~ (<<m, n>> \in R)
  BY <1>1, WFMin
<1>4. \A m \in T : ~ (m < n)
  BY <1>2, <1>3
<1> QED BY <1>3, <1>4

\* What is true of 1, and with a number of the next one, is true of all.
LEMMA FromOneOn ==
  ASSUME NEW S, 1 \in S, \A n \in Nat \ {0} : n \in S => n + 1 \in S
  PROVE  \A n \in Nat \ {0} : n \in S
<1> SUFFICES ASSUME NEW n \in Nat \ {0}, n \notin S PROVE FALSE
  OBVIOUS
<1> DEFINE T == {m \in Nat \ {0} : m \notin S}
<1>1. PICK m \in T : \A k \in T : m <= k
  <2>1. T \in SUBSET Nat /\ T # {}
    OBVIOUS
  <2> HIDE DEF T
  <2> QED BY <2>1, LeastNumber
<1>2. m \in Nat /\ m # 1 /\ m - 1 \in Nat \ {0} /\ m - 1 < m /\ (m - 1) + 1 = m
  OBVIOUS
<1>3. m - 1 \in S
  BY <1>1, <1>2
<1> QED BY <1>2, <1>3

\* What a non-empty sequence is
LEMMA SequenceShape ==
  ASSUME NEW s, NonEmptySeq(s)
  PROVE  Len(s) \in Nat \ {0} /\ DOMAIN s = 1 .. Len(s)
<1>1. PICK S : s \in Seq(S) /\ s # << >>
  BY DEF NonEmptySeq, IsSeq
<1> QED BY <1>1

-----------------------------------------------------------------------------
(* fdt_getprop of ex21 *)

\* A tree is a sequence that FDT_END ends: both walks stay inside it.
LEMMA TreeEnds ==
  ASSUME NEW t \in Trees
  PROVE  /\ Len(t) \in Nat \ {0} /\ DOMAIN t = 1 .. Len(t)
         /\ t[Len(t)].kind = "FDT_END"
<1>1. NonEmptySeq(t)
  BY TreesAssumption
<1>2. Len(t) \in Nat \ {0} /\ DOMAIN t = 1 .. Len(t)
  BY <1>1, SequenceShape
<1>3. Len(t) \in DOMAIN t
  BY <1>2
<1> QED BY <1>2, <1>3, TreesAssumption

\* What fdt_getprop has passed: properties with other names
Passed ==
  \A k \in (offset + 1) .. (cur_off - 1) :
    fdt[k].kind = "FDT_PROP" /\ fdt[k].name # name

\* fdt_getprop starts behind the node and ends at the property, or at the
\* first token that is none.
TreeInv ==
  /\ fdt \in Trees
  /\ cur_off \in 1 .. Len(fdt)
  /\ offset \in Int
  /\ dpc \in {"fdt_path_offset", "fdt_getprop", "idle", "undefined"}
  /\ dpc # "idle" => prop = 0
  /\ dpc = "fdt_path_offset" => offset = 0
  /\ dpc = "fdt_getprop" => offset > 0
  /\ offset > 0 => offset < cur_off /\ Passed
  /\ dpc = "idle" /\ offset > 0 =>
       IF prop = 0 THEN fdt[cur_off].kind # "FDT_PROP"
       ELSE prop = cur_off /\ fdt[cur_off].kind = "FDT_PROP" /\ fdt[cur_off].name = name

\* main looks up the path first.
LEMMA InitTree == DT!Init => TreeInv
BY TreeEnds DEF DT!Init, TreeInv

\* A turn of either walk
LEMMA TreeStep == ASSUME TreeInv, [DT!Next]_treeVars PROVE TreeInv'
<1> USE DEF TreeInv
<1>1. /\ Len(fdt) \in Nat /\ fdt[Len(fdt)].kind = "FDT_END"
      /\ cur_off \in Nat /\ cur_off >= 1 /\ cur_off <= Len(fdt)
  BY TreeEnds
<1>2. ASSUME DT!Token.kind # "FDT_END" PROVE cur_off + 1 \in 1 .. Len(fdt)
  BY <1>1, <1>2 DEF DT!Token
<1>3. ASSUME dpc = "fdt_path_offset", DT!Advance, DT!Token.kind # "FDT_END" PROVE TreeInv'
  BY <1>1, <1>2, <1>3 DEF DT!Advance
<1>4. ASSUME dpc = "fdt_path_offset", DT!Token.kind # "FDT_END", DT!Return(cur_off)
      PROVE  TreeInv'
  <2>1. offset' = cur_off /\ cur_off' = cur_off + 1 /\ dpc' = "fdt_getprop"
        /\ fdt' = fdt /\ name' = name /\ prop' = prop
    BY <1>1, <1>4 DEF DT!Return
  <2>2. Passed'
    BY <1>1, <2>1 DEF Passed
  <2> QED BY <1>1, <1>2, <1>4, <2>1, <2>2
<1>5. ASSUME dpc = "fdt_path_offset", DT!Return(-1) PROVE TreeInv'
  BY <1>1, <1>5 DEF DT!Return
<1>6. CASE DT!BeginNode
  <2>1. dpc = "fdt_path_offset" /\ DT!Token.kind # "FDT_END" /\ (DT!Return(cur_off) \/ DT!Advance)
    BY <1>6 DEF DT!BeginNode
  <2> QED BY <1>3, <1>4, <2>1
<1>7. CASE DT!EndNode
  <2>1. dpc = "fdt_path_offset" /\ DT!Token.kind # "FDT_END" /\ (DT!Return(-1) \/ DT!Advance)
    BY <1>7 DEF DT!EndNode
  <2> QED BY <1>3, <1>5, <2>1
<1>8. CASE DT!SkipToken
  <2>1. dpc = "fdt_path_offset" /\ DT!Token.kind # "FDT_END" /\ DT!Advance
    BY <1>8 DEF DT!SkipToken
  <2> QED BY <1>3, <2>1
<1>9. CASE DT!EndOfTree
  BY <1>5, <1>9 DEF DT!EndOfTree
<1>10. CASE DT!fdt_getprop
  <2>1. /\ dpc = "fdt_getprop" /\ offset > 0 /\ prop = 0 /\ offset < cur_off /\ Passed
        /\ UNCHANGED <<fdt, name, offset>>
    BY <1>10 DEF DT!fdt_getprop
  <2>2. CASE DT!Token.kind = "FDT_PROP" /\ DT!Token.name # name
    <3>1. cur_off' = cur_off + 1 /\ dpc' = dpc /\ prop' = prop
      BY <1>10, <2>2 DEF DT!fdt_getprop, DT!MoreProps
    <3>2. cur_off' \in 1 .. Len(fdt)
      BY <1>2, <2>2, <3>1
    <3>3. Passed'
      BY <1>1, <2>1, <2>2, <3>1 DEF Passed, DT!Token
    <3> QED BY <1>1, <2>1, <3>1, <3>2, <3>3
  <2>3. CASE DT!Token.kind = "FDT_PROP" /\ DT!Token.name = name
    <3>1. cur_off' = cur_off /\ dpc' = "idle" /\ prop' = cur_off
      BY <1>10, <2>3 DEF DT!fdt_getprop, DT!MoreProps
    <3>2. Passed'
      BY <2>1, <3>1 DEF Passed
    <3> QED BY <1>1, <2>1, <2>3, <3>1, <3>2 DEF DT!Token
  <2>4. CASE DT!Token.kind # "FDT_PROP"
    <3>1. cur_off' = cur_off /\ dpc' = "idle" /\ prop' = prop
      BY <1>10, <2>4 DEF DT!fdt_getprop, DT!MoreProps
    <3>2. Passed'
      BY <2>1, <3>1 DEF Passed
    <3> QED BY <1>1, <2>1, <2>4, <3>1, <3>2 DEF DT!Token
  <2> QED BY <2>2, <2>3, <2>4
<1>11. CASE UNCHANGED treeVars
  BY <1>11 DEF treeVars, Passed
<1> QED BY <1>6, <1>7, <1>8, <1>9, <1>10, <1>11 DEF DT!Next

\* A non-empty set of positions has a first one and a last one.
LEMMA FirstAndLast ==
  ASSUME NEW N \in Nat, NEW T \in SUBSET (1 .. N), T # {}
  PROVE  /\ DT!Min(T) \in T /\ \A m \in T : DT!Min(T) <= m
         /\ DT!Max(T) \in T /\ \A m \in T : m <= DT!Max(T)
<1>1. \A m \in T : m \in Nat /\ m <= N
  OBVIOUS
<1>2. \E n \in T : \A m \in T : n <= m
  BY <1>1, LeastNumber
<1>3. \E n \in T : \A m \in T : m <= n
  <2> DEFINE U == {N - m : m \in T}
  <2>1. U \in SUBSET Nat /\ U # {}
    <3>1. \A m \in T : N - m \in Nat
      BY <1>1
    <3> QED BY <3>1
  <2>2. PICK k \in U : \A m \in U : k <= m
    <3> HIDE DEF U
    <3> QED BY <2>1, LeastNumber
  <2>3. PICK n \in T : k = N - n
    OBVIOUS
  <2>4. ASSUME NEW m \in T PROVE m <= n
    <3>1. k <= N - m
      BY <2>2
    <3> QED BY <1>1, <2>3, <3>1
  <2> QED BY <2>4
<1>4. DT!Min(T) \in T /\ \A m \in T : DT!Min(T) <= m
  BY <1>2 DEF DT!Min
<1>5. DT!Max(T) \in T /\ \A m \in T : m <= DT!Max(T)
  BY <1>3 DEF DT!Max
<1> QED BY <1>4, <1>5

\* The property found is the first one of the node with the name; none is
\* missed.
LEMMA TreeSafe == ASSUME TreeInv PROVE DT!GetsProperty
<1> DEFINE All == DT!PropsOf(offset)
           Named == {m \in All : fdt[m].kind = "FDT_PROP" /\ fdt[m].name = name}
<1> USE DEF TreeInv
<1> DEFINE Missed == \E m \in All : fdt[m].kind = "FDT_NOP" /\ m < DT!Min(Named)
<1> SUFFICES ASSUME dpc = "idle", offset > 0
             PROVE  prop = IF Named = {} \/ Missed THEN 0 ELSE DT!Min(Named)
  BY DEF DT!GetsProperty
<1>1. /\ Len(fdt) \in Nat /\ DOMAIN fdt = 1 .. Len(fdt)
      /\ cur_off \in 1 .. Len(fdt) /\ offset \in Nat /\ offset < cur_off
  BY TreeEnds
<1>2. ASSUME NEW m \in All
      PROVE  /\ m \in Nat /\ m > offset
             /\ \A k \in (offset + 1) .. m : fdt[k].kind \in {"FDT_PROP", "FDT_NOP"}
  BY <1>1 DEF DT!PropsOf
<1>3. ASSUME NEW m \in Named PROVE m >= cur_off
  <2>1. m \in Nat /\ m > offset /\ fdt[m].name = name
    BY <1>2
  <2> QED BY <1>1, <2>1 DEF Passed
<1>4. fdt[cur_off].kind \in {"FDT_PROP", "FDT_NOP"} => cur_off \in All
  <2>1. \A k \in (offset + 1) .. cur_off : k = cur_off \/ k \in (offset + 1) .. (cur_off - 1)
    BY <1>1
  <2> QED BY <1>1, <2>1 DEF DT!PropsOf, Passed
<1>5. ASSUME NEW x \in Named, \A m \in Named : x <= m
      PROVE  DT!Min(Named) = x
  <2>1. Named \subseteq Int
    BY <1>2
  <2> HIDE DEF Named
  <2>2. PICK m : m = DT!Min(Named)
    OBVIOUS
  <2>3. m \in Named /\ \A k \in Named : m <= k
    BY <1>5, <2>2 DEF DT!Min
  <2> QED BY <1>5, <2>1, <2>2, <2>3
<1>6. CASE prop = 0
  <2> SUFFICES ASSUME Named # {} PROVE Missed
    BY <1>6
  <2>1. Named \in SUBSET (1 .. Len(fdt))
    BY <1>1 DEF DT!PropsOf
  <2>2. DT!Min(Named) \in Named
    <3>1. PICK N : N = Len(fdt)
      OBVIOUS
    <3>2. N \in Nat /\ Named \in SUBSET (1 .. N)
      BY <1>1, <2>1, <3>1
    <3> HIDE DEF Named
    <3> QED BY <3>2, FirstAndLast
  <2>3. PICK m \in Named : m = DT!Min(Named)
    BY <2>2
  <2>4. m \in Nat /\ cur_off <= m /\ fdt[m].kind = "FDT_PROP"
    BY <1>1, <1>2, <1>3
  <2>5. cur_off \in (offset + 1) .. m
    BY <1>1, <2>4
  <2>6. fdt[cur_off].kind = "FDT_NOP" /\ cur_off \in All
    BY <1>2, <1>4, <1>6, <2>5
  <2>7. cur_off < m
    BY <1>1, <2>4, <2>6
  <2> QED BY <2>3, <2>6, <2>7
<1>7. CASE prop # 0
  <2>1. prop = cur_off /\ cur_off \in Named
    BY <1>4, <1>7
  <2>2. \A m \in Named : cur_off <= m
    BY <1>1, <1>2, <1>3
  <2>3. DT!Min(Named) = cur_off
    BY <1>5, <2>1, <2>2
  <2>4. ASSUME NEW m \in All, fdt[m].kind = "FDT_NOP" PROVE ~ (m < cur_off)
    <3>1. m \in Nat /\ m > offset
      BY <1>2
    <3> QED BY <1>1, <2>4, <3>1 DEF Passed
  <2>5. ~ Missed
    BY <2>3, <2>4
  <2> QED BY <2>1, <2>3, <2>5
<1> QED BY <1>6, <1>7

-----------------------------------------------------------------------------
(* fdt_path_offset of ex21: numbers and strings *)

\* DeviceTree counts as we do.
LEMMA Counting == \A S : DT!Cardinality(S) = Cardinality(S)
BY DEF DT!Cardinality, Cardinality

\* How many positions of a set lie before one
Below(S, n) == Cardinality({m \in S : m < n})

\* The next one has one more before it, if this one is in the set.
LEMMA OneMore ==
  ASSUME NEW N \in Nat, NEW S \in SUBSET (1 .. N), NEW n \in 1 .. N
  PROVE  /\ Below(S, n) \in Nat /\ Below(S, 1) = 0
         /\ Below(S, n + 1) = IF n \in S THEN Below(S, n) + 1 ELSE Below(S, n)
<1> DEFINE T == {m \in S : m < n}
           U == {m \in S : m < n + 1}
<1>1. IsFiniteSet(1 .. N)
  BY FS_Interval
<1>2. IsFiniteSet(T) /\ T \subseteq 1 .. N
  BY <1>1, FS_Subset
<1>3. Cardinality(T) \in Nat
  BY <1>2, FS_CardinalityType
<1> DEFINE V == IF n \in S THEN T \cup {n} ELSE T
<1>4. U = V
  <2>1. \A m \in S : m \in Int
    OBVIOUS
  <2>2. \A m \in S : m < n + 1 <=> m < n \/ m = n
    BY <2>1
  <2>3. \A x : x \in U <=> x \in V
    BY <2>2
  <2> HIDE DEF U, V
  <2> QED BY <2>3
<1>5. Below(S, 1) = 0
  <2>1. {m \in S : m < 1} = {}
    <3>1. \A m \in S : m >= 1 /\ m \in Int
      OBVIOUS
    <3>2. \A m \in S : ~ (m < 1)
      BY <3>1
    <3> QED BY <3>2
  <2> QED BY <2>1, FS_EmptySet DEF Below
<1>6. n \notin T
  OBVIOUS
<1> HIDE DEF T, U
<1>7. Cardinality(T \cup {n}) = Cardinality(T) + 1
  BY <1>2, <1>6, FS_AddElement
<1>8. Below(S, n) = Cardinality(T) /\ Below(S, n + 1) = Cardinality(U)
  BY DEF Below, T, U
<1> QED BY <1>3, <1>4, <1>5, <1>7, <1>8

\* With k positions of a set before one, each lesser number of them is before
\* some position of the set.
LEMMA EachCount ==
  ASSUME NEW N \in Nat, NEW S \in SUBSET (1 .. N), NEW k \in 0 .. (Cardinality(S) - 1)
  PROVE  \E n \in S : Below(S, n) = k
<1>1. \A n \in 1 .. N : /\ Below(S, n) \in Nat /\ Below(S, 1) = 0
                        /\ Below(S, n + 1) =
                             IF n \in S THEN Below(S, n) + 1 ELSE Below(S, n)
  BY OneMore
<1>2. IsFiniteSet(S) /\ Cardinality(S) \in Nat
  <2>1. IsFiniteSet(1 .. N)
    BY FS_Interval
  <2>2. IsFiniteSet(S)
    BY <2>1, FS_Subset
  <2> QED BY <2>2, FS_CardinalityType
<1>3. Below(S, N + 1) = Cardinality(S)
  <2>1. {m \in S : m < N + 1} = S
    <3>1. \A m \in S : m \in Int /\ m <= N
      OBVIOUS
    <3>2. \A m \in S : m < N + 1
      BY <3>1
    <3> QED BY <3>2
  <2> QED BY <2>1 DEF Below
<1>4. N >= 1
  <2> SUFFICES ASSUME N = 0 PROVE FALSE
    OBVIOUS
  <2>1. S = {}
    OBVIOUS
  <2> QED BY <2>1, FS_EmptySet
<1> DEFINE T == {n \in 1 .. (N + 1) : Below(S, n) > k}
<1>5. T \in SUBSET Nat /\ T # {}
  BY <1>2, <1>3, <1>4
<1>6. PICK n \in T : \A m \in T : n <= m
  <2> HIDE DEF T
  <2> QED BY <1>5, LeastNumber
<1>7. n # 1
  BY <1>1, <1>4
<1>8. n - 1 \in 1 .. N /\ n - 1 < n /\ (n - 1) + 1 = n
  BY <1>7
<1>9. Below(S, n - 1) <= k
  BY <1>1, <1>6, <1>8
<1>10. Below(S, n) > k
  OBVIOUS
<1>11. n - 1 \in S /\ Below(S, n) = Below(S, n - 1) + 1
  BY <1>1, <1>8, <1>9, <1>10
<1>12. Below(S, n - 1) \in Nat
  BY <1>1, <1>8
<1>13. Below(S, n - 1) = k
  BY <1>9, <1>10, <1>11, <1>12
<1> QED BY <1>11, <1>13
-----------------------------------------------------------------------------
(* fdt_path_offset of ex21: how the nodes of a tree are nested *)

Ends == {n \in DOMAIN fdt : fdt[n].kind = "FDT_END_NODE"}

\* How many nodes the token at n lies in, without itself
Open(n) == Below(DT!Nodes, n) - Below(Ends, n)

\* The last node of a depth before the token at n: where there are more, it is
\* the one the token may lie in.
Last(n, d) == DT!Max({m \in DT!Nodes : m < n /\ DT!Depth(m) = d})

\* The nodes that the component of their depth names
Answers ==
  {n \in DT!Nodes :
     /\ DT!Depth(n) \in 2 .. (DT!path_depth + 1)
     /\ DT!Names(DT!Component(DT!Depth(n) - 2), fdt[n].name)}

\* Each token opens a node, closes one, or does neither.
LEMMA OpenStep ==
  ASSUME fdt \in Trees, NEW n \in 1 .. Len(fdt)
  PROVE  /\ Open(n) \in Int /\ Open(1) = 0
         /\ n \in DT!Nodes => Open(n + 1) = Open(n) + 1 /\ DT!Depth(n) = Open(n) + 1
         /\ n \in Ends => Open(n + 1) = Open(n) - 1
         /\ n \notin DT!Nodes \cup Ends => Open(n + 1) = Open(n)
<1>1. Len(fdt) \in Nat /\ DOMAIN fdt = 1 .. Len(fdt)
  BY TreeEnds
<1> DEFINE B == DT!Nodes
           E == Ends
<1>2. B \in SUBSET (1 .. Len(fdt)) /\ E \in SUBSET (1 .. Len(fdt)) /\ B \cap E = {}
  BY <1>1 DEF DT!Nodes, Ends
<1>3. ASSUME n \in B PROVE DT!Depth(n) = Below(B, n + 1) - Below(E, n)
  <2>1. {m \in B : m <= n} = {m \in B : m < n + 1}
    <3>1. \A m \in B : m <= n <=> m < n + 1
      BY <1>2
    <3> QED BY <3>1
  <2>2. {m \in DOMAIN fdt : m < n /\ fdt[m].kind = "FDT_END_NODE"} = {m \in E : m < n}
    BY DEF Ends
  <2> QED BY <2>1, <2>2, Counting DEF DT!Depth, Below
<1> HIDE DEF B, E
<1>4. /\ Below(B, n) \in Nat /\ Below(B, 1) = 0
      /\ Below(B, n + 1) = IF n \in B THEN Below(B, n) + 1 ELSE Below(B, n)
  <2>1. PICK N : N = Len(fdt)
    OBVIOUS
  <2>2. N \in Nat /\ B \in SUBSET (1 .. N) /\ n \in 1 .. N
    BY <1>1, <1>2, <2>1
  <2> QED BY <2>2, OneMore
<1>5. /\ Below(E, n) \in Nat /\ Below(E, 1) = 0
      /\ Below(E, n + 1) = IF n \in E THEN Below(E, n) + 1 ELSE Below(E, n)
  <2>1. PICK N : N = Len(fdt)
    OBVIOUS
  <2>2. N \in Nat /\ E \in SUBSET (1 .. N) /\ n \in 1 .. N
    BY <1>1, <1>2, <2>1
  <2> QED BY <2>2, OneMore
<1>6. \A k : Open(k) = Below(B, k) - Below(E, k)
  BY DEF Open, B, E
<1>7. /\ Open(n) \in Int /\ Open(1) = 0
      /\ n \in B => Open(n + 1) = Open(n) + 1 /\ DT!Depth(n) = Open(n) + 1
      /\ n \in E => Open(n + 1) = Open(n) - 1
      /\ n \notin B \cup E => Open(n + 1) = Open(n)
  BY <1>2, <1>3, <1>4, <1>5, <1>6
<1> QED BY <1>7 DEF B, E

\* No node ends that has not begun, and all but the first lie in another.
LEMMA Nested ==
  ASSUME fdt \in Trees, NEW n \in DT!Nodes \cup Ends,
         n \in Ends \/ \E m \in DT!Nodes : m < n
  PROVE  Open(n) >= 1
<1>1. Len(fdt) \in Nat /\ DOMAIN fdt = 1 .. Len(fdt) /\ n \in 1 .. Len(fdt)
  BY TreeEnds DEF DT!Nodes, Ends
<1>2. /\ Before(fdt, n, "FDT_BEGIN_NODE") = Below(DT!Nodes, n)
      /\ Before(fdt, n, "FDT_END_NODE") = Below(Ends, n)
  <2>1. /\ {m \in DOMAIN fdt : m < n /\ fdt[m].kind = "FDT_BEGIN_NODE"} = {m \in DT!Nodes : m < n}
        /\ {m \in DOMAIN fdt : m < n /\ fdt[m].kind = "FDT_END_NODE"} = {m \in Ends : m < n}
    BY DEF DT!Nodes, Ends
  <2> QED BY <2>1 DEF Before, Below
<1>3. Below(DT!Nodes, n) \in Nat /\ Below(Ends, n) \in Nat
  <2>1. DT!Nodes \in SUBSET (1 .. Len(fdt)) /\ Ends \in SUBSET (1 .. Len(fdt))
    BY <1>1 DEF DT!Nodes, Ends
  <2> QED BY <1>1, <2>1, OneMore
<1>4. ASSUME NEW m \in DT!Nodes, m < n PROVE Below(DT!Nodes, n) > 0
  <2> DEFINE T == {k \in DT!Nodes : k < n}
  <2>1. m \in T /\ T \subseteq 1 .. Len(fdt)
    BY <1>1, <1>4 DEF DT!Nodes
  <2> HIDE DEF T
  <2>2. IsFiniteSet(T)
    <3>1. IsFiniteSet(1 .. Len(fdt))
      BY <1>1, FS_Interval
    <3> QED BY <2>1, <3>1, FS_Subset
  <2>3. Cardinality(T) # 0
    BY <2>1, <2>2, FS_EmptySet
  <2> QED BY <1>3, <2>3 DEF Below, T
<1>5. \/ fdt[n].kind = "FDT_END_NODE"
      \/ fdt[n].kind = "FDT_BEGIN_NODE" /\ Before(fdt, n, "FDT_BEGIN_NODE") > 0
  BY <1>2, <1>4 DEF DT!Nodes, Ends
<1>6. Below(Ends, n) < Below(DT!Nodes, n)
  BY <1>1, <1>2, <1>5, TreesAssumption
<1> QED BY <1>3, <1>6 DEF Open

\* The depth grows by one at a time, and only with a node.
LEMMA Crossing ==
  ASSUME fdt \in Trees, NEW u \in 1 .. Len(fdt), NEW v \in u .. Len(fdt), NEW d \in Int,
         Open(u) < d, d <= Open(v)
  PROVE  \E n \in DT!Nodes : u <= n /\ n < v /\ DT!Depth(n) = d
<1>1. Len(fdt) \in Nat
  BY TreeEnds
<1> DEFINE T == {n \in u .. v : Open(n) >= d}
<1>2. T \in SUBSET Nat /\ T # {}
  BY <1>1
<1>3. PICK n \in T : \A m \in T : n <= m
  <2> HIDE DEF T
  <2> QED BY <1>2, LeastNumber
<1>4. \A k \in 1 .. Len(fdt) : Open(k) \in Int
  BY OpenStep
<1>5. n # u
  BY <1>3, <1>4
<1>6. n - 1 \in u .. v /\ n - 1 \in 1 .. Len(fdt) /\ n - 1 < n /\ (n - 1) + 1 = n
  BY <1>1, <1>5
<1>7. Open(n - 1) < d
  BY <1>3, <1>4, <1>6
<1>8. Open(n) \in Int /\ Open(n - 1) \in Int /\ Open(n) >= d
  BY <1>1, <1>4, <1>6
<1>9. n - 1 \in DT!Nodes /\ DT!Depth(n - 1) = Open(n - 1) + 1 /\ Open(n) = Open(n - 1) + 1
  <2>1. /\ n - 1 \in DT!Nodes => Open(n) = Open(n - 1) + 1 /\ DT!Depth(n - 1) = Open(n - 1) + 1
        /\ n - 1 \in Ends => Open(n) = Open(n - 1) - 1
        /\ n - 1 \notin DT!Nodes \cup Ends => Open(n) = Open(n - 1)
    BY <1>6, OpenStep
  <2> QED BY <1>7, <1>8, <2>1
<1>10. DT!Depth(n - 1) = d /\ u <= n - 1 /\ n - 1 < v
  BY <1>6, <1>7, <1>8, <1>9
<1> QED BY <1>9, <1>10

\* What Last is
LEMMA LastNode ==
  ASSUME fdt \in Trees, NEW c, NEW n \in DT!Nodes, n < c
  PROVE  LET l == Last(c, DT!Depth(n)) IN
         /\ l \in DT!Nodes /\ l < c /\ DT!Depth(l) = DT!Depth(n)
         /\ \A m \in DT!Nodes : m < c /\ DT!Depth(m) = DT!Depth(n) => m <= l
<1> DEFINE T == {m \in DT!Nodes : m < c /\ DT!Depth(m) = DT!Depth(n)}
<1>1. Len(fdt) \in Nat /\ T \in SUBSET (1 .. Len(fdt)) /\ n \in T
  BY TreeEnds DEF DT!Nodes
<1> HIDE DEF T
<1>2. DT!Max(T) \in T /\ \A m \in T : m <= DT!Max(T)
  BY <1>1, FirstAndLast
<1>3. Last(c, DT!Depth(n)) = DT!Max(T)
  BY DEF Last, T
<1> QED BY <1>2, <1>3 DEF T

\* A node lies in the last ones before it, and is one of its own ancestors.
LEMMA AncestorIsLast ==
  ASSUME fdt \in Trees, NEW n \in DT!Nodes, NEW d
  PROVE  DT!Ancestor(n, d) = Last(n + 1, d)
<1>1. \A m \in DT!Nodes : m <= n <=> m < n + 1
  BY TreeEnds DEF DT!Nodes
<1>2. {m \in DT!Nodes : m <= n /\ DT!Depth(m) = d} = {m \in DT!Nodes : m < n + 1 /\ DT!Depth(m) = d}
  BY <1>1
<1> QED BY <1>2 DEF DT!Ancestor, Last
-----------------------------------------------------------------------------
(* fdt_path_offset of ex21: strncmp2 compares names *)

\* Two sequences with the same elements are one.
LEMMA SameSequence ==
  ASSUME NEW S, NEW T, NEW s \in Seq(S), NEW t \in Seq(T), Len(s) = Len(t),
         \A n \in 1 .. Len(s) : s[n] = t[n]
  PROVE  s = t
<1>1. s \in Seq(S \cup T) /\ t \in Seq(S \cup T)
  BY SeqMonotonic, S \subseteq S \cup T, T \subseteq S \cup T
<1> QED BY <1>1, SeqEqual

\* The beginning of a string
LEMMA Beginning ==
  ASSUME NEW S, NEW s \in Seq(S), NEW n \in 0 .. Len(s)
  PROVE  /\ SubSeq(s, 1, n) \in Seq(S) /\ Len(SubSeq(s, 1, n)) = n
         /\ \A m \in 1 .. n : SubSeq(s, 1, n)[m] = s[m]
<1>1. Len(s) \in Nat /\ 1 \in Int /\ n \in Int
  BY LenProperties
<1>2. \A m \in 1 .. n : s[m] \in S
  BY <1>1, ElementOfSeq
<1>3. /\ SubSeq(s, 1, n) \in Seq(S)
      /\ Len(SubSeq(s, 1, n)) = IF 1 <= n THEN (n - 1) + 1 ELSE 0
      /\ \A m \in 1 .. ((n - 1) + 1) : SubSeq(s, 1, n)[m] = s[(1 + m) - 1]
  BY <1>1, <1>2, SubSeqProperties
<1>4. Len(SubSeq(s, 1, n)) = n
  BY <1>1, <1>3
<1>5. ASSUME NEW m \in 1 .. n PROVE SubSeq(s, 1, n)[m] = s[m]
  <2>1. m \in 1 .. ((n - 1) + 1) /\ (1 + m) - 1 = m
    BY <1>1
  <2> QED BY <1>3, <2>1
<1> QED BY <1>3, <1>4, <1>5

\* The beginning of a string up to the first of some characters, or all of it
LEMMA UpTo ==
  ASSUME NEW S, NEW s \in Seq(S), NEW Stop, DT!NUL \in Stop,
         NEW e, e = DT!Min({n \in 1 .. (Len(s) + 1) : DT!CharAt(s, n) \in Stop})
  PROVE  /\ e \in 1 .. (Len(s) + 1) /\ DT!CharAt(s, e) \in Stop
         /\ \A n \in 1 .. (e - 1) : n \in 1 .. Len(s) /\ s[n] \notin Stop
         /\ SubSeq(s, 1, e - 1) \in Seq(S) /\ Len(SubSeq(s, 1, e - 1)) = e - 1
         /\ \A n \in 1 .. (e - 1) : SubSeq(s, 1, e - 1)[n] = s[n]
<1>1. Len(s) \in Nat /\ DOMAIN s = 1 .. Len(s)
  BY LenProperties
<1> DEFINE T == {n \in 1 .. (Len(s) + 1) : DT!CharAt(s, n) \in Stop}
<1>2. T \in SUBSET (1 .. (Len(s) + 1)) /\ Len(s) + 1 \in Nat /\ Len(s) + 1 \in T
  BY <1>1 DEF DT!CharAt
<1>3. e = DT!Min(T)
  OBVIOUS
<1>4. e \in T /\ \A m \in T : e <= m
  <2>1. PICK N : N = Len(s) + 1
    OBVIOUS
  <2>2. N \in Nat /\ T \in SUBSET (1 .. N) /\ T # {}
    BY <1>2, <2>1
  <2> HIDE DEF T
  <2>3. DT!Min(T) \in T /\ \A m \in T : DT!Min(T) <= m
    BY <2>2, FirstAndLast
  <2> QED BY <1>3, <2>3
<1>5. e \in 1 .. (Len(s) + 1) /\ e - 1 \in 0 .. Len(s)
  BY <1>1, <1>4
<1>6. ASSUME NEW n \in 1 .. (e - 1) PROVE n \in 1 .. Len(s) /\ s[n] \notin Stop
  <2>1. n \in 1 .. Len(s) /\ n \in 1 .. (Len(s) + 1) /\ ~ (e <= n)
    BY <1>1, <1>5
  <2>2. n \notin T
    BY <1>4, <2>1
  <2> QED BY <1>1, <2>1, <2>2 DEF DT!CharAt
<1>7. /\ SubSeq(s, 1, e - 1) \in Seq(S) /\ Len(SubSeq(s, 1, e - 1)) = e - 1
      /\ \A n \in 1 .. (e - 1) : SubSeq(s, 1, e - 1)[n] = s[n]
  BY <1>5, Beginning
<1> QED BY <1>3, <1>4, <1>5, <1>6, <1>7

\* path_idx has an entry for each component: the rest of the path behind a slash.
LEMMA Rests ==
  ASSUME path \in Paths
  PROVE  /\ DT!path_depth \in Nat \ {0}
         /\ \A k \in 0 .. (DT!path_depth - 1) : IsString(DT!Rest(k))
<1>1. PICK S : path \in Seq(S)
  BY PathsAssumption DEF IsString, IsSeq
<1>2. path # << >> /\ path[1] = "/" /\ \A n \in DOMAIN path : path[n] # DT!NUL
  BY PathsAssumption DEF IsString
<1>3. Len(path) \in Nat \ {0} /\ DOMAIN path = 1 .. Len(path)
  BY <1>1, <1>2, LenProperties, EmptySeq
<1> DEFINE T == DT!Slashes
<1>4. T \in SUBSET (1 .. Len(path)) /\ 1 \in T
  BY <1>2, <1>3 DEF DT!Slashes
<1> HIDE DEF T
<1>5. IsFiniteSet(T) /\ Cardinality(T) \in Nat \ {0}
  <2>1. IsFiniteSet(1 .. Len(path))
    BY <1>3, FS_Interval
  <2>2. IsFiniteSet(T)
    BY <1>4, <2>1, FS_Subset
  <2>3. Cardinality(T) \in Nat
    BY <2>2, FS_CardinalityType
  <2>4. Cardinality(T) # 0
    BY <1>4, <2>2, FS_EmptySet
  <2> QED BY <2>2, <2>3, <2>4
<1>6. DT!path_depth = Cardinality(T)
  BY Counting DEF DT!path_depth, T
<1>7. ASSUME NEW k \in 0 .. (DT!path_depth - 1) PROVE IsString(DT!Rest(k))
  <2>1. \E n \in T : Below(T, n) = k
    BY <1>3, <1>4, <1>6, <1>7, EachCount
  <2>2. PICK n : n = CHOOSE s \in DT!Slashes : DT!Cardinality({m \in DT!Slashes : m < s}) = k
    OBVIOUS
  <2>3. n \in T
    <3>1. \E m \in DT!Slashes : DT!Cardinality({l \in DT!Slashes : l < m}) = k
      BY <2>1, Counting DEF Below, T
    <3> QED BY <2>2, <3>1 DEF T
  <2> DEFINE r == SubSeq(path, n + 1, Len(path))
  <2>4. DT!Rest(k) = r
    BY <2>2 DEF DT!Rest
  <2>5. n \in 1 .. Len(path) /\ n + 1 \in Int /\ Len(path) \in Int
    BY <1>3, <1>4, <2>3
  <2>6. \A m \in (n + 1) .. Len(path) : path[m] \in S /\ path[m] # DT!NUL
    BY <1>1, <1>2, <1>3, <2>5, ElementOfSeq
  <2>7. /\ r \in Seq(S)
        /\ Len(r) = IF n + 1 <= Len(path) THEN (Len(path) - (n + 1)) + 1 ELSE 0
        /\ \A m \in 1 .. ((Len(path) - (n + 1)) + 1) : r[m] = path[((n + 1) + m) - 1]
    BY <2>5, <2>6, SubSeqProperties
  <2>8. \A m \in DOMAIN r : r[m] # DT!NUL
    <3> SUFFICES ASSUME NEW m \in DOMAIN r PROVE r[m] # DT!NUL
      OBVIOUS
    <3>1. Len(r) = Len(path) - n /\ m \in 1 .. Len(r)
      BY <2>5, <2>7, LenProperties
    <3>2. m \in 1 .. ((Len(path) - (n + 1)) + 1) /\ ((n + 1) + m) - 1 \in (n + 1) .. Len(path)
      <4> HIDE DEF r
      <4>1. m \in Int /\ 1 <= m /\ m <= Len(path) - n
        BY <2>5, <3>1
      <4> QED BY <2>5, <4>1
    <3> QED BY <2>6, <2>7, <3>2
  <2>9. r \in Seq({r[m] : m \in DOMAIN r})
    <3> HIDE DEF r
    <3>1. DOMAIN r = 1 .. Len(r) /\ Len(r) \in Nat
      BY <2>7, LenProperties
    <3>2. r \in [1 .. Len(r) -> {r[m] : m \in DOMAIN r}]
      BY <2>7, <3>1, LenProperties
    <3> QED BY <3>1, <3>2
  <2> QED BY <2>4, <2>8, <2>9 DEF IsString, IsSeq
<1> QED BY <1>5, <1>6, <1>7

\* What a node's name is compared with, and the component that lies there
LEMMA Components ==
  ASSUME path \in Paths, NEW k \in 0 .. (DT!path_depth - 1)
  PROVE  LET r == DT!Rest(k)
             c == DT!Component(k)
         IN  \E e \in 1 .. (Len(r) + 1) :
               /\ DT!CharAt(r, e) \in {"/", DT!NUL}
               /\ IsSeq(c) /\ Len(c) = e - 1 /\ DOMAIN c = 1 .. (e - 1)
               /\ \A n \in 1 .. (e - 1) :
                    n \in 1 .. Len(r) /\ c[n] = r[n] /\ r[n] \notin {"/", DT!NUL}
<1> DEFINE r == DT!Rest(k)
           Stop == {"/", DT!NUL}
<1>1. PICK S : r \in Seq(S)
  BY Rests DEF IsString, IsSeq
<1>2. PICK e : e = DT!Min({n \in 1 .. (Len(r) + 1) : DT!CharAt(r, n) \in Stop})
  OBVIOUS
<1>3. DT!Component(k) = SubSeq(r, 1, e - 1)
  BY <1>2 DEF DT!Component
<1> HIDE DEF r
<1>4. /\ e \in 1 .. (Len(r) + 1) /\ DT!CharAt(r, e) \in Stop
      /\ \A n \in 1 .. (e - 1) : n \in 1 .. Len(r) /\ r[n] \notin Stop
      /\ SubSeq(r, 1, e - 1) \in Seq(S) /\ Len(SubSeq(r, 1, e - 1)) = e - 1
      /\ \A n \in 1 .. (e - 1) : SubSeq(r, 1, e - 1)[n] = r[n]
  <2>1. DT!NUL \in Stop
    OBVIOUS
  <2> HIDE DEF Stop
  <2> QED BY <1>1, <1>2, <2>1, UpTo
<1> DEFINE c == SubSeq(r, 1, e - 1)
<1>5. DOMAIN c = 1 .. (e - 1) /\ c \in [1 .. (e - 1) -> S]
  <2> HIDE DEF c
  <2> QED BY <1>4, LenProperties DEF c
<1>6. IsSeq(c)
  <2>1. Len(c) \in Nat
    BY <1>4, LenProperties
  <2> HIDE DEF c
  <2>2. e - 1 \in Nat
    BY <1>4, <2>1 DEF c
  <2>3. c \in [1 .. (e - 1) -> {c[n] : n \in DOMAIN c}]
    BY <1>5
  <2> QED BY <2>2, <2>3 DEF IsSeq
<1> QED BY <1>3, <1>4, <1>5, <1>6 DEF r

\* strncmp2 accepts the names that the component names, where no name is the
\* beginning of the component and a '@' behind it has one before it.
LEMMA NameMatches ==
  ASSUME path \in Paths, NEW k \in 0 .. (DT!path_depth - 1), NEW s, IsNodeName(s),
         DT!HasUnit(DT!Rest(k)) => DT!HasUnit(DT!Component(k)),
         Len(s) < Len(DT!Component(k)) => s # SubSeq(DT!Component(k), 1, Len(s))
  PROVE  DT!strncmp2(s, DT!Rest(k)) <=> DT!Names(DT!Component(k), s)
<1>1. PICK r : r = DT!Rest(k)
  OBVIOUS
<1>2. PICK c : c = DT!Component(k)
  OBVIOUS
<1>3. PICK S : s \in Seq(S)
  BY DEF IsNodeName, IsString, IsSeq
<1>4. Len(s) \in Nat /\ DOMAIN s = 1 .. Len(s) /\ \A n \in 1 .. Len(s) : s[n] \notin {"/", DT!NUL}
  <2>1. Len(s) \in Nat /\ DOMAIN s = 1 .. Len(s)
    BY <1>3, LenProperties
  <2> QED BY <2>1 DEF IsNodeName, IsString
<1>5. DOMAIN r = 1 .. Len(r) /\ Len(r) \in Nat
  <2>1. PICK R : r \in Seq(R)
    BY <1>1, Rests DEF IsString, IsSeq
  <2> QED BY <2>1, LenProperties
<1>6. PICK e \in 1 .. (Len(r) + 1) :
        /\ DT!CharAt(r, e) \in {"/", DT!NUL}
        /\ IsSeq(c) /\ Len(c) = e - 1 /\ DOMAIN c = 1 .. (e - 1)
        /\ \A n \in 1 .. (e - 1) :
             n \in 1 .. Len(r) /\ c[n] = r[n] /\ r[n] \notin {"/", DT!NUL}
  BY <1>1, <1>2, Components
<1>7. PICK C : c \in Seq(C)
  BY <1>6 DEF IsSeq
<1>8. e \in Nat /\ e >= 1 /\ e - 1 \in Nat
  BY <1>5
<1>9. \A n \in 1 .. (e - 1) : DT!CharAt(r, n) = c[n]
  BY <1>5, <1>6 DEF DT!CharAt
<1> DEFINE Differ == {n \in DOMAIN s : s[n] # DT!CharAt(r, n)}
<1>10. PICK q : q = DT!Min(Differ)
  OBVIOUS
<1>11. DT!strncmp2(s, r) <=>
         \/ Differ = {}
         \/ /\ \A n \in DOMAIN r : r[n] # "@"
            /\ s[q] = "@" /\ DT!CharAt(r, q) \in {"/", DT!NUL}
  BY <1>10 DEF DT!strncmp2
<1>12. Differ # {} => q \in Differ /\ \A m \in Differ : q <= m
  <2>1. Differ \in SUBSET (1 .. Len(s))
    BY <1>4
  <2> HIDE DEF Differ
  <2> QED BY <1>4, <1>10, <2>1, FirstAndLast
<1>13. PICK u : u = DT!Min({n \in 1 .. (Len(s) + 1) : DT!CharAt(s, n) \in {"@", DT!NUL}})
  OBVIOUS
<1> DEFINE b == SubSeq(s, 1, u - 1)
<1>14. DT!BaseName(s) = b
  BY <1>13 DEF DT!BaseName
<1>15. /\ u \in 1 .. (Len(s) + 1) /\ DT!CharAt(s, u) \in {"@", DT!NUL}
       /\ \A n \in 1 .. (u - 1) : n \in 1 .. Len(s) /\ s[n] \notin {"@", DT!NUL}
       /\ b \in Seq(S) /\ Len(b) = u - 1
       /\ \A n \in 1 .. (u - 1) : b[n] = s[n]
  <2> DEFINE Stop == {"@", DT!NUL}
  <2>1. DT!NUL \in Stop
    OBVIOUS
  <2>2. u = DT!Min({n \in 1 .. (Len(s) + 1) : DT!CharAt(s, n) \in Stop})
    BY <1>13
  <2> HIDE DEF Stop
  <2>3. /\ u \in 1 .. (Len(s) + 1) /\ DT!CharAt(s, u) \in Stop
        /\ \A n \in 1 .. (u - 1) : n \in 1 .. Len(s) /\ s[n] \notin Stop
        /\ SubSeq(s, 1, u - 1) \in Seq(S) /\ Len(SubSeq(s, 1, u - 1)) = u - 1
        /\ \A n \in 1 .. (u - 1) : SubSeq(s, 1, u - 1)[n] = s[n]
    BY <1>3, <2>1, <2>2, UpTo
  <2> QED BY <2>3 DEF Stop
<1>16. DT!Names(c, s) <=> c = s \/ (~ DT!HasUnit(c) /\ c = b)
  BY <1>14 DEF DT!Names
<1> HIDE DEF Differ, b
<1>17. u \in Nat /\ u >= 1
  BY <1>4, <1>15
<1>18. ASSUME Differ = {} PROVE c = s
  <2>1. \A n \in 1 .. Len(s) : s[n] = DT!CharAt(r, n)
    BY <1>4, <1>18 DEF Differ
  <2>2. Len(s) <= e - 1
    <3> SUFFICES ASSUME ~ (Len(s) <= e - 1) PROVE FALSE
      OBVIOUS
    <3>1. e \in 1 .. Len(s)
      BY <1>4, <1>8
    <3> QED BY <1>4, <1>6, <2>1, <3>1
  <2>3. \A n \in 1 .. Len(s) : s[n] = c[n]
    <3>1. \A n \in 1 .. Len(s) : n \in 1 .. (e - 1)
      BY <1>4, <1>8, <2>2
    <3> QED BY <1>9, <2>1, <3>1
  <2>4. s = SubSeq(c, 1, Len(s))
    <3>1. Len(s) \in 0 .. Len(c)
      BY <1>4, <1>6, <1>8, <2>2
    <3>2. /\ SubSeq(c, 1, Len(s)) \in Seq(C) /\ Len(SubSeq(c, 1, Len(s))) = Len(s)
          /\ \A n \in 1 .. Len(s) : SubSeq(c, 1, Len(s))[n] = c[n]
      BY <1>7, <3>1, Beginning
    <3>3. \A n \in 1 .. Len(s) : s[n] = SubSeq(c, 1, Len(s))[n]
      BY <2>3, <3>2
    <3> QED BY <1>3, <3>2, <3>3, SameSequence
  <2>5. ~ (Len(s) < Len(c))
    BY <1>2, <2>4
  <2>6. Len(s) = Len(c)
    BY <1>4, <1>6, <1>8, <2>2, <2>5
  <2> QED BY <1>3, <1>7, <2>3, <2>6, SameSequence
<1>19. ASSUME Differ # {}, \A n \in DOMAIN r : r[n] # "@",
              s[q] = "@", DT!CharAt(r, q) \in {"/", DT!NUL}
       PROVE  ~ DT!HasUnit(c) /\ c = b
  <2>1. q \in 1 .. Len(s) /\ \A m \in Differ : q <= m
    BY <1>4, <1>12, <1>19 DEF Differ
  <2>2. \A n \in 1 .. Len(s) : n < q => s[n] = DT!CharAt(r, n)
    <3> SUFFICES ASSUME NEW n \in 1 .. Len(s), n < q, s[n] # DT!CharAt(r, n) PROVE FALSE
      OBVIOUS
    <3>1. n \in Differ
      BY <1>4 DEF Differ
    <3> QED BY <1>4, <2>1, <3>1
  <2>3. q = e
    <3>1. ~ (q < e)
      <4> SUFFICES ASSUME q < e PROVE FALSE
        OBVIOUS
      <4>1. q \in 1 .. (e - 1)
        BY <1>4, <1>8, <2>1
      <4> QED BY <1>6, <1>9, <1>19, <4>1
    <3>2. ~ (e < q)
      <4> SUFFICES ASSUME e < q PROVE FALSE
        OBVIOUS
      <4>1. e \in 1 .. Len(s)
        BY <1>4, <1>8, <2>1
      <4>2. s[e] = DT!CharAt(r, e)
        BY <2>2, <4>1
      <4> QED BY <1>4, <1>6, <4>1, <4>2
    <3> QED BY <1>4, <1>8, <2>1, <3>1, <3>2
  <2>4. ~ DT!HasUnit(c)
    BY <1>5, <1>6, <1>19 DEF DT!HasUnit
  <2>5. \A n \in 1 .. (e - 1) : n \in 1 .. Len(s) /\ s[n] = c[n]
    <3> SUFFICES ASSUME NEW n \in 1 .. (e - 1) PROVE n \in 1 .. Len(s) /\ s[n] = c[n]
      OBVIOUS
    <3>1. n \in 1 .. Len(s) /\ n < q
      BY <1>4, <1>8, <2>1, <2>3
    <3> QED BY <1>9, <2>2, <3>1
  <2>6. u = e
    <3>1. ~ (u < e)
      <4> SUFFICES ASSUME u < e PROVE FALSE
        OBVIOUS
      <4>1. u \in 1 .. (e - 1)
        BY <1>8, <1>17
      <4>2. u \in 1 .. Len(s) /\ s[u] = c[u] /\ c[u] = r[u] /\ u \in DOMAIN r
        BY <1>5, <1>6, <2>5, <4>1
      <4>3. DT!CharAt(s, u) = s[u]
        BY <1>4, <4>2 DEF DT!CharAt
      <4> QED BY <1>4, <1>15, <1>19, <4>2, <4>3
    <3>2. ~ (e < u)
      <4> SUFFICES ASSUME e < u PROVE FALSE
        OBVIOUS
      <4>1. e \in 1 .. (u - 1)
        BY <1>8, <1>17
      <4> QED BY <1>15, <1>19, <2>3, <4>1
    <3> QED BY <1>8, <1>17, <3>1, <3>2
  <2>7. Len(c) = Len(b) /\ \A n \in 1 .. Len(c) : c[n] = b[n]
    BY <1>6, <1>15, <2>5, <2>6
  <2> QED BY <1>7, <1>15, <2>4, <2>7, SameSequence
<1>20. ASSUME c = s PROVE Differ = {}
  BY <1>4, <1>6, <1>9, <1>20 DEF Differ
<1>21. ASSUME ~ DT!HasUnit(c), c = b, Differ # {}
       PROVE  /\ \A n \in DOMAIN r : r[n] # "@"
              /\ s[q] = "@" /\ DT!CharAt(r, q) \in {"/", DT!NUL}
  <2>1. \A n \in DOMAIN r : r[n] # "@"
    BY <1>1, <1>2, <1>21 DEF DT!HasUnit
  <2>2. u = e
    BY <1>6, <1>8, <1>15, <1>17, <1>21
  <2>3. q \in 1 .. Len(s) /\ s[q] # DT!CharAt(r, q)
    BY <1>4, <1>12, <1>21 DEF Differ
  <2>4. ~ (q < e)
    <3> SUFFICES ASSUME q < e PROVE FALSE
      OBVIOUS
    <3>1. q \in 1 .. (e - 1)
      BY <1>4, <1>8, <2>3
    <3>2. s[q] = c[q]
      BY <1>15, <1>21, <2>2, <3>1
    <3> QED BY <1>9, <2>3, <3>1, <3>2
  <2>5. e \in 1 .. Len(s)
    BY <1>4, <1>8, <2>3, <2>4
  <2>6. s[e] = "@"
    <3>1. DT!CharAt(s, e) = s[e]
      BY <1>4, <2>5 DEF DT!CharAt
    <3> QED BY <1>4, <1>15, <2>2, <2>5, <3>1
  <2>7. e \in Differ
    BY <1>4, <1>6, <2>5, <2>6 DEF Differ, DT!NUL
  <2>8. q = e
    <3>1. q <= e
      BY <1>12, <1>21, <2>7
    <3> QED BY <1>4, <1>8, <2>3, <2>4, <3>1
  <2> QED BY <1>6, <2>1, <2>6, <2>8
<1>22. DT!strncmp2(s, r) <=> DT!Names(c, s)
  BY <1>11, <1>16, <1>18, <1>19, <1>20, <1>21
<1> QED BY <1>1, <1>2, <1>22

-----------------------------------------------------------------------------
(* fdt_path_offset of ex21: the walk *)

\* The node of a depth that a token lies in is there, before the token.
LEMMA Enclosing ==
  ASSUME fdt \in Trees, NEW c \in 1 .. Len(fdt), NEW d \in Int, 1 <= d, d <= Open(c)
  PROVE  /\ Last(c, d) \in DT!Nodes /\ Last(c, d) < c /\ DT!Depth(Last(c, d)) = d
         /\ \A m \in DT!Nodes : m < c /\ DT!Depth(m) = d => m <= Last(c, d)
<1>1. Len(fdt) \in Nat \ {0} /\ Open(1) = 0
  BY TreeEnds, OpenStep
<1>2. PICK n \in DT!Nodes : 1 <= n /\ n < c /\ DT!Depth(n) = d
  <2>1. 1 \in 1 .. Len(fdt) /\ c \in 1 .. Len(fdt) /\ Open(1) < d
    BY <1>1
  <2> QED BY <2>1, Crossing
<1> QED BY <1>2, LastNode

\* A node is not the last token, and it lies at the depth that it opens.
LEMMA NodePlace ==
  ASSUME fdt \in Trees, NEW n \in DT!Nodes \cup Ends
  PROVE  /\ n \in 1 .. Len(fdt) /\ n + 1 \in 1 .. Len(fdt) /\ n \in Nat
         /\ n \in DT!Nodes => Open(n + 1) = DT!Depth(n) /\ DT!Depth(n) \in Int
<1>1. /\ Len(fdt) \in Nat \ {0} /\ DOMAIN fdt = 1 .. Len(fdt)
      /\ fdt[Len(fdt)].kind = "FDT_END"
  BY TreeEnds
<1>2. n \in 1 .. Len(fdt) /\ n # Len(fdt)
  BY <1>1 DEF DT!Nodes, Ends
<1>3. n + 1 \in 1 .. Len(fdt) /\ n \in Nat
  <2>1. Len(fdt) \in Nat
    BY <1>1
  <2> QED BY <1>2, <2>1
<1> QED BY <1>2, <1>3, OpenStep

\* With the token at c, the last node of its depth changes, if it is one.
LEMMA LastAfter ==
  ASSUME fdt \in Trees, NEW c \in 1 .. Len(fdt), NEW d
  PROVE  Last(c + 1, d) =
           IF c \in DT!Nodes /\ DT!Depth(c) = d THEN c ELSE Last(c, d)
<1>1. \A m \in DT!Nodes : m \in Int
  BY NodePlace
<1>2. \A m \in DT!Nodes : m < c + 1 <=> m < c \/ m = c
  BY <1>1
<1>3. CASE c \in DT!Nodes /\ DT!Depth(c) = d
  <2>1. c < c + 1
    OBVIOUS
  <2>2. PICK l : l = Last(c + 1, DT!Depth(c))
    OBVIOUS
  <2>3. l \in DT!Nodes /\ l < c + 1 /\ \A m \in DT!Nodes :
          m < c + 1 /\ DT!Depth(m) = DT!Depth(c) => m <= l
    BY <1>3, <2>1, <2>2, LastNode
  <2>4. l = c
    BY <1>1, <1>3, <2>1, <2>3
  <2> QED BY <1>3, <2>2, <2>4
<1>4. CASE ~ (c \in DT!Nodes /\ DT!Depth(c) = d)
  <2>1. {m \in DT!Nodes : m < c + 1 /\ DT!Depth(m) = d} = {m \in DT!Nodes : m < c /\ DT!Depth(m) = d}
    BY <1>2, <1>4
  <2> QED BY <1>4, <2>1 DEF Last
<1> QED BY <1>3, <1>4

\* The path names a node as deep as it is long if each of its components names
\* the node of its depth.
LEMMA PathNodes ==
  ASSUME fdt \in Trees, path \in Paths, NEW n \in DT!Nodes
  PROVE  n \in DT!Matching <=>
           /\ DT!Depth(n) = DT!path_depth + 1
           /\ \A d \in 2 .. (DT!path_depth + 1) : Last(n + 1, d) \in Answers
<1>1. n \in DT!Matching <=>
        /\ DT!Depth(n) = DT!path_depth + 1
        /\ \A k \in 0 .. (DT!path_depth - 1) :
             DT!Names(DT!Component(k), fdt[Last(n + 1, k + 2)].name)
  BY AncestorIsLast DEF DT!Matching, DT!OnPath
<1> SUFFICES ASSUME DT!Depth(n) = DT!path_depth + 1
             PROVE  (\A k \in 0 .. (DT!path_depth - 1) :
                       DT!Names(DT!Component(k), fdt[Last(n + 1, k + 2)].name))
                      <=> \A d \in 2 .. (DT!path_depth + 1) : Last(n + 1, d) \in Answers
  BY <1>1
<1>2. DT!path_depth \in Nat /\ n + 1 \in 1 .. Len(fdt) /\ Open(n + 1) = DT!path_depth + 1
  BY Rests, NodePlace
<1>3. ASSUME NEW d \in 2 .. (DT!path_depth + 1)
      PROVE  Last(n + 1, d) \in Answers <=>
               DT!Names(DT!Component(d - 2), fdt[Last(n + 1, d)].name)
  <2>1. d \in Int /\ 1 <= d /\ d <= Open(n + 1)
    BY <1>2
  <2>2. Last(n + 1, d) \in DT!Nodes /\ DT!Depth(Last(n + 1, d)) = d
    BY <1>2, <2>1, Enclosing
  <2> QED BY <2>2 DEF Answers
<1>4. ASSUME NEW k \in 0 .. (DT!path_depth - 1)
      PROVE  k + 2 \in 2 .. (DT!path_depth + 1) /\ (k + 2) - 2 = k
  BY <1>2
<1>5. ASSUME NEW d \in 2 .. (DT!path_depth + 1)
      PROVE  d - 2 \in 0 .. (DT!path_depth - 1) /\ (d - 2) + 2 = d
  BY <1>2
<1>6. ASSUME \A k \in 0 .. (DT!path_depth - 1) :
               DT!Names(DT!Component(k), fdt[Last(n + 1, k + 2)].name),
             NEW d \in 2 .. (DT!path_depth + 1)
      PROVE  Last(n + 1, d) \in Answers
  <2>1. DT!Names(DT!Component(d - 2), fdt[Last(n + 1, (d - 2) + 2)].name)
    BY <1>5, <1>6
  <2> QED BY <1>3, <1>5, <2>1
<1>7. ASSUME \A d \in 2 .. (DT!path_depth + 1) : Last(n + 1, d) \in Answers,
             NEW k \in 0 .. (DT!path_depth - 1)
      PROVE  DT!Names(DT!Component(k), fdt[Last(n + 1, k + 2)].name)
  <2>1. DT!Names(DT!Component((k + 2) - 2), fdt[Last(n + 1, k + 2)].name)
    BY <1>3, <1>4, <1>7
  <2> QED BY <1>4, <2>1
<1> QED BY <1>6, <1>7

\* The walk compares a node's name with the component of its depth.
LEMMA Compared ==
  ASSUME fdt \in Trees, path \in Paths, DT!PlainlyNamed,
         NEW n \in DT!Nodes, NEW k \in 0 .. (DT!path_depth - 1), DT!Depth(n) = k + 2
  PROVE  DT!strncmp2(fdt[n].name, DT!Rest(k)) <=> n \in Answers
<1>1. DT!path_depth \in Nat
  BY Rests
<1>2. /\ DT!Depth(n) - 1 \in 1 .. DT!path_depth /\ DT!Depth(n) - 2 = k
      /\ DT!Depth(n) \in 2 .. (DT!path_depth + 1)
  BY <1>1
<1>3. IsNodeName(fdt[n].name)
  BY TreesAssumption DEF DT!Nodes
<1>4. Len(fdt[n].name) < Len(DT!Component(k)) =>
        fdt[n].name # SubSeq(DT!Component(k), 1, Len(fdt[n].name))
  BY <1>2 DEF DT!PlainlyNamed
<1>5. DT!HasUnit(DT!Rest(k)) => DT!HasUnit(DT!Component(k))
  BY DEF DT!PlainlyNamed
<1>6. DT!strncmp2(fdt[n].name, DT!Rest(k)) <=> DT!Names(DT!Component(k), fdt[n].name)
  BY <1>3, <1>4, <1>5, NameMatches
<1> QED BY <1>2, <1>6 DEF Answers

\* When the node that matched last ends, and yet a node is on the path, the path
\* forks: an ancestor of that node is the sister of one that has matched.
LEMMA TwoWays ==
  ASSUME fdt \in Trees, path \in Paths,
         NEW c \in Ends, NEW depth \in 0 .. (DT!path_depth - 1), Open(c) = depth + 1,
         \A d \in 2 .. (depth + 1) : Last(c, d) \in Answers,
         NEW n \in DT!Matching, c <= n
  PROVE  DT!Forks
<1> DEFINE A(j) == Last(n + 1, j)
           B(j) == Last(c, j)
<1>1. n \in DT!Nodes /\ c \notin DT!Nodes
  BY DEF DT!Matching, DT!Nodes, Ends
<1>2. /\ c \in 1 .. Len(fdt) /\ c + 1 \in 1 .. Len(fdt) /\ n + 1 \in 1 .. Len(fdt)
      /\ c \in Nat /\ n \in Nat /\ Open(c + 1) = depth /\ DT!path_depth \in Nat
      /\ Open(n + 1) = DT!path_depth + 1 /\ Len(fdt) \in Nat
  <2>1. DT!Depth(n) = DT!path_depth + 1 /\ DT!path_depth \in Nat
    BY <1>1, PathNodes, Rests
  <2>2. /\ c \in 1 .. Len(fdt) /\ c + 1 \in 1 .. Len(fdt) /\ n + 1 \in 1 .. Len(fdt)
        /\ c \in Nat /\ n \in Nat /\ Open(n + 1) = DT!path_depth + 1
    BY <1>1, <2>1, NodePlace
  <2>3. Open(c + 1) = Open(c) - 1
    BY <2>2, OpenStep
  <2> QED BY <2>1, <2>2, <2>3, TreeEnds
<1>3. \A j \in 2 .. (DT!path_depth + 1) : A(j) \in Answers
  BY <1>1, PathNodes
<1>4. ASSUME NEW j \in 1 .. (depth + 1)
      PROVE  /\ j \in Int /\ 1 <= j /\ j <= Open(c) /\ j <= Open(n + 1)
             /\ A(j) \in DT!Nodes /\ A(j) \in Nat /\ A(j) <= n /\ DT!Depth(A(j)) = j
             /\ \A m \in DT!Nodes : m <= n /\ DT!Depth(m) = j => m <= A(j)
             /\ B(j) \in DT!Nodes /\ B(j) \in Nat /\ B(j) < c /\ DT!Depth(B(j)) = j
             /\ \A m \in DT!Nodes : m < c /\ DT!Depth(m) = j => m <= B(j)
  <2>1. j \in Int /\ 1 <= j /\ j <= Open(c) /\ j <= Open(n + 1)
    BY <1>2
  <2>2. /\ A(j) \in DT!Nodes /\ A(j) < n + 1 /\ DT!Depth(A(j)) = j
        /\ \A m \in DT!Nodes : m < n + 1 /\ DT!Depth(m) = j => m <= A(j)
    BY <1>2, <2>1, Enclosing
  <2>3. /\ B(j) \in DT!Nodes /\ B(j) < c /\ DT!Depth(B(j)) = j
        /\ \A m \in DT!Nodes : m < c /\ DT!Depth(m) = j => m <= B(j)
    BY <1>2, <2>1, Enclosing
  <2>4. \A m \in DT!Nodes : m \in Nat /\ (m <= n <=> m < n + 1)
    BY <1>2, NodePlace
  <2> HIDE DEF A, B
  <2> QED BY <2>1, <2>2, <2>3, <2>4
<1>5. \A l, m \in DT!Nodes : l < m => DT!Depth(m) # 1
  <2> SUFFICES ASSUME NEW l \in DT!Nodes, NEW m \in DT!Nodes, l < m PROVE DT!Depth(m) # 1
    OBVIOUS
  <2>1. Open(m) >= 1
    BY Nested
  <2>2. Open(m) \in Int /\ DT!Depth(m) = Open(m) + 1
    BY NodePlace, OpenStep
  <2> QED BY <2>1, <2>2
<1>6. ASSUME NEW u \in 1 .. Len(fdt), NEW v \in u .. Len(fdt), NEW d \in Int,
             Open(u) < d, d <= Open(v)
      PROVE  \E m \in DT!Nodes : u <= m /\ m < v /\ DT!Depth(m) = d
  BY <1>6, Crossing
<1>7. \A m \in DT!Nodes : /\ m \in Nat /\ m + 1 \in 1 .. Len(fdt)
                          /\ Open(m + 1) = DT!Depth(m)
  BY NodePlace
<1>8. \A k, d : \A m \in DT!Nodes :
        m < k /\ DT!Depth(m) = d =>
          /\ Last(k, d) \in DT!Nodes /\ Last(k, d) < k /\ DT!Depth(Last(k, d)) = d
          /\ m <= Last(k, d)
  BY LastNode
<1>9. \A m \in DT!Nodes : \A d : DT!Ancestor(m, d) = Last(m + 1, d)
  BY AncestorIsLast
<1> HIDE DEF A, B
<1> DEFINE T == {j \in 1 .. (depth + 1) : c < A(j)}
<1>10. depth + 1 \in T
  <2>1. c + 1 \in 1 .. Len(fdt) /\ n + 1 \in (c + 1) .. Len(fdt) /\ depth + 1 \in Int
        /\ Open(c + 1) < depth + 1 /\ depth + 1 <= Open(n + 1) /\ depth + 1 \in 1 .. (depth + 1)
    BY <1>2
  <2>2. PICK m \in DT!Nodes : c + 1 <= m /\ m < n + 1 /\ DT!Depth(m) = depth + 1
    BY <1>6, <2>1
  <2>3. m \in Nat /\ m <= n
    BY <1>2, <1>7, <2>2
  <2>4. m <= A(depth + 1) /\ A(depth + 1) \in Nat
    BY <1>4, <2>1, <2>2, <2>3
  <2>5. c < A(depth + 1)
    BY <1>2, <2>2, <2>3, <2>4
  <2> QED BY <2>1, <2>5
<1>11. PICK j \in T : \A k \in T : j <= k
  <2>1. T \in SUBSET Nat
    OBVIOUS
  <2> HIDE DEF T
  <2> QED BY <1>10, <2>1, LeastNumber
<1>12. j \in 1 .. (depth + 1) /\ c < A(j)
  OBVIOUS
<1> HIDE DEF T
<1>13. B(j) < A(j) /\ j # 1
  <2>1. B(j) < A(j)
    BY <1>2, <1>4, <1>12
  <2> QED BY <1>4, <1>5, <1>12, <2>1
<1>14. /\ j - 1 \in 1 .. (depth + 1) /\ j \in 2 .. (depth + 1) /\ j \in 2 .. (DT!path_depth + 1)
       /\ j - 1 \in 1 .. (DT!path_depth - 1) /\ j - 1 < j /\ j \in Int
  BY <1>2, <1>12, <1>13
<1>15. A(j - 1) < c
  <2>1. j - 1 \notin T
    BY <1>11, <1>14
  <2>2. ~ (c < A(j - 1))
    BY <1>14, <2>1 DEF T
  <2>3. A(j - 1) # c
    BY <1>1, <1>4, <1>14
  <2> QED BY <1>2, <1>4, <1>14, <2>2, <2>3
<1>16. A(j - 1) = B(j - 1)
  <2>1. A(j - 1) <= B(j - 1)
    BY <1>4, <1>14, <1>15
  <2>2. B(j - 1) <= n
    BY <1>2, <1>4, <1>14
  <2>3. B(j - 1) <= A(j - 1)
    BY <1>4, <1>14, <2>2
  <2> QED BY <1>4, <1>14, <2>1, <2>3
<1>17. DT!Ancestor(A(j), j - 1) = A(j - 1)
  <2>1. A(j - 1) < A(j) + 1 /\ A(j - 1) \in Nat /\ A(j) \in Nat
    <3>1. A(j - 1) \in Nat /\ A(j) \in Nat
      BY <1>4, <1>12, <1>14
    <3> QED BY <1>2, <1>12, <1>15, <3>1
  <2>2. PICK l : l = Last(A(j) + 1, j - 1)
    OBVIOUS
  <2>3. l \in DT!Nodes /\ l < A(j) + 1 /\ DT!Depth(l) = j - 1 /\ A(j - 1) <= l
    BY <1>4, <1>8, <1>14, <2>1, <2>2
  <2>4. l \in Nat /\ l <= n
    <3>1. l \in Nat /\ A(j) <= n
      BY <1>4, <1>7, <1>12, <2>3
    <3> QED BY <1>2, <2>1, <2>3, <3>1
  <2>5. l <= A(j - 1)
    BY <1>4, <1>14, <2>3, <2>4
  <2>6. l = A(j - 1)
    BY <2>1, <2>3, <2>4, <2>5
  <2> QED BY <1>4, <1>9, <1>12, <2>2, <2>6
<1>18. DT!Ancestor(B(j), j - 1) = B(j - 1)
  <2>1. /\ B(j) \in Nat /\ B(j - 1) \in Nat /\ B(j) < c /\ B(j - 1) < c
        /\ B(j) \in DT!Nodes /\ B(j - 1) \in DT!Nodes
        /\ DT!Depth(B(j)) = j /\ DT!Depth(B(j - 1)) = j - 1
    BY <1>4, <1>12, <1>14
  <2>2. ~ (B(j) < B(j - 1))
    <3> SUFFICES ASSUME B(j) < B(j - 1) PROVE FALSE
      OBVIOUS
    <3>1. B(j - 1) + 1 \in 1 .. Len(fdt) /\ Open(B(j - 1) + 1) = j - 1
      BY <1>7, <2>1
    <3>2. c \in (B(j - 1) + 1) .. Len(fdt) /\ j <= Open(c)
      BY <1>2, <1>4, <1>12, <2>1
    <3>3. Open(B(j - 1) + 1) < j
      BY <1>14, <3>1
    <3>4. PICK m \in DT!Nodes : B(j - 1) + 1 <= m /\ m < c /\ DT!Depth(m) = j
      BY <1>6, <1>14, <3>1, <3>2, <3>3
    <3>5. m \in Nat /\ m <= B(j)
      BY <1>4, <1>7, <1>12, <3>4
    <3> QED BY <2>1, <3>4, <3>5
  <2>3. B(j - 1) < B(j) + 1
    BY <2>1, <2>2
  <2>4. PICK l : l = Last(B(j) + 1, j - 1)
    OBVIOUS
  <2>5. l \in DT!Nodes /\ l < B(j) + 1 /\ DT!Depth(l) = j - 1 /\ B(j - 1) <= l
    BY <1>8, <2>1, <2>3, <2>4
  <2>6. l \in Nat /\ l < c
    <3>1. l \in Nat
      BY <1>7, <2>5
    <3> QED BY <1>2, <2>1, <2>5, <3>1
  <2>7. l <= B(j - 1)
    BY <1>4, <1>14, <2>5, <2>6
  <2>8. l = B(j - 1)
    BY <2>1, <2>5, <2>6, <2>7
  <2> QED BY <1>9, <2>1, <2>4, <2>8
<1>19. /\ DT!Names(DT!Component(j - 2), fdt[A(j)].name)
       /\ DT!Names(DT!Component(j - 2), fdt[B(j)].name)
  <2>1. A(j) \in Answers
    BY <1>3, <1>14
  <2>2. B(j) \in Answers
    BY <1>14 DEF B
  <2>3. DT!Depth(A(j)) = j /\ DT!Depth(B(j)) = j
    BY <1>4, <1>12
  <2> QED BY <2>1, <2>2, <2>3 DEF Answers
<1>20. /\ A(j) \in DT!Nodes /\ B(j) \in DT!Nodes /\ DT!Depth(A(j)) = j /\ DT!Depth(B(j)) = j
       /\ DT!Ancestor(B(j), j - 1) = DT!Ancestor(A(j), j - 1)
  BY <1>4, <1>12, <1>16, <1>17, <1>18
<1>21. /\ DT!Depth(A(j)) - 1 = j - 1 /\ DT!Depth(B(j)) - 1 = j - 1
       /\ DT!Depth(A(j)) - 2 = j - 2
  BY <1>20
<1>22. \E l, m \in DT!Nodes :
         /\ l < m
         /\ DT!Depth(l) = DT!Depth(m)
         /\ DT!Depth(m) - 1 \in 1 .. (DT!path_depth - 1)
         /\ DT!Ancestor(l, DT!Depth(l) - 1) = DT!Ancestor(m, DT!Depth(m) - 1)
         /\ \A x \in {l, m} : DT!Names(DT!Component(DT!Depth(m) - 2), fdt[x].name)
  <2>1. /\ B(j) < A(j)
        /\ DT!Depth(B(j)) = DT!Depth(A(j))
        /\ DT!Depth(A(j)) - 1 \in 1 .. (DT!path_depth - 1)
        /\ DT!Ancestor(B(j), DT!Depth(B(j)) - 1) = DT!Ancestor(A(j), DT!Depth(A(j)) - 1)
        /\ \A x \in {B(j), A(j)} : DT!Names(DT!Component(DT!Depth(A(j)) - 2), fdt[x].name)
    BY <1>13, <1>14, <1>19, <1>20, <1>21
  <2> QED BY <1>20, <2>1
<1> QED BY <1>22 DEF DT!Forks

\* What holds at the token c: the nodes it lies in are named by the components
\* before matching_depth, the last one below them is not named by the next one,
\* and the path names no node before c.
WalkedTo(c, depth, matching) ==
  /\ depth = Open(c) - 2
  /\ matching \in 0 .. (DT!path_depth - 1)
  /\ \/ matching < Open(c)
     \/ matching = 0 /\ Open(c) = 0 /\ \A n \in DT!Nodes : c <= n
  /\ \A d \in 2 .. (matching + 1) : Last(c, d) \in Answers
  /\ matching + 1 < Open(c) => Last(c, matching + 2) \notin Answers
  /\ \A n \in DT!Matching : c <= n

WalkInv ==
  /\ path \in Paths
  /\ DT!PlainlyNamed =>
       IF dpc = "fdt_path_offset" THEN WalkedTo(cur_off, cur_depth, matching_depth)
       ELSE offset = DT!FirstMatch \/ (offset = -1 /\ DT!Forks)

\* Neither walk changes the tree or the path.
LEMMA SameTree ==
  ASSUME UNCHANGED <<fdt, path>>
  PROVE  /\ DT!Nodes' = DT!Nodes /\ DT!path_depth' = DT!path_depth
         /\ \A n : Open(n)' = Open(n)
         /\ \A n, d : Last(n, d)' = Last(n, d)
         /\ Answers' = Answers /\ DT!Matching' = DT!Matching
         /\ DT!FirstMatch' = DT!FirstMatch /\ (DT!PlainlyNamed' <=> DT!PlainlyNamed)
         /\ DT!Forks' <=> DT!Forks
<1>1. DT!Nodes' = DT!Nodes
  BY DEF DT!Nodes
<1>2. DT!path_depth' = DT!path_depth
  BY DEF DT!path_depth, DT!Slashes
<1>3. \A n : Open(n)' = Open(n)
  BY DEF DT!Nodes, Open, Ends, Below
<1>4. \A n, d : Last(n, d)' = Last(n, d)
  BY DEF Last, DT!Nodes, DT!Depth, DT!Max
<1>5. Answers' = Answers
  BY DEF Answers, DT!path_depth, DT!Slashes, DT!Nodes, DT!Depth, DT!Component, DT!Rest,
         DT!Names, DT!CharAt, DT!Min, DT!HasUnit, DT!BaseName
<1>6. DT!Matching' = DT!Matching /\ DT!FirstMatch' = DT!FirstMatch
  BY DEF DT!FirstMatch, DT!Matching, DT!OnPath, DT!path_depth, DT!Slashes, DT!Nodes,
         DT!Depth, DT!Component, DT!Rest, DT!Names, DT!CharAt, DT!Min, DT!HasUnit,
         DT!BaseName, DT!Ancestor, DT!Max
<1>7. DT!PlainlyNamed' <=> DT!PlainlyNamed
  BY DEF DT!PlainlyNamed, DT!path_depth, DT!Slashes, DT!Nodes, DT!Depth, DT!Component,
         DT!Rest, DT!Names, DT!CharAt, DT!Min, DT!HasUnit, DT!BaseName, DT!Ancestor, DT!Max
<1>8. DT!Forks' <=> DT!Forks
  BY DEF DT!Forks, DT!path_depth, DT!Slashes, DT!Nodes, DT!Depth, DT!Component, DT!Rest,
         DT!Names, DT!CharAt, DT!Min, DT!HasUnit, DT!BaseName, DT!Ancestor, DT!Max
<1> QED BY <1>1, <1>2, <1>3, <1>4, <1>5, <1>6, <1>7, <1>8

\* The walk begins at the first token.
LEMMA InitWalk == DT!Init => WalkInv
<1> SUFFICES ASSUME DT!Init PROVE WalkInv
  OBVIOUS
<1>1. /\ fdt \in Trees /\ path \in Paths /\ dpc = "fdt_path_offset" /\ cur_off = 1
      /\ cur_depth = -2 /\ matching_depth = 0 /\ offset = 0
  BY DEF DT!Init
<1>2. Open(1) = 0 /\ DT!path_depth \in Nat \ {0}
  BY <1>1, TreeEnds, OpenStep, Rests
<1>3. \A n \in DT!Nodes : 1 <= n
  BY <1>1, NodePlace
<1>4. DT!Matching \subseteq DT!Nodes
  BY DEF DT!Matching
<1>5. \A d \in 2 .. (0 + 1) : FALSE
  OBVIOUS
<1>6. WalkedTo(1, -2, 0)
  BY <1>2, <1>3, <1>4, <1>5 DEF WalkedTo
<1> QED BY <1>1, <1>6 DEF WalkInv

\* A token is passed that does not end the walk.
LEMMA Onward ==
  ASSUME fdt \in Trees, path \in Paths, UNCHANGED <<fdt, path>>,
         dpc' = "fdt_path_offset",
         DT!PlainlyNamed => WalkedTo(cur_off', cur_depth', matching_depth')
  PROVE  WalkInv'
<1>1. \A c, depth, matching :
        WalkedTo(c, depth, matching)' <=> WalkedTo(c, depth, matching)
  BY SameTree DEF WalkedTo
<1> QED BY <1>1, SameTree DEF WalkInv

\* The walk ends with the node, or with none.
LEMMA Ended ==
  ASSUME fdt \in Trees, path \in Paths, UNCHANGED <<fdt, path>>,
         dpc' # "fdt_path_offset",
         DT!PlainlyNamed => offset' = DT!FirstMatch \/ (offset' = -1 /\ DT!Forks)
  PROVE  WalkInv'
BY SameTree DEF WalkInv

\* A node begins.
LEMMA BeginNodeStep == ASSUME TreeInv, WalkInv, DT!BeginNode PROVE WalkInv'
<1>1. PICK c : c = cur_off
  OBVIOUS
<1>2. PICK k : k = matching_depth
  OBVIOUS
<1>3. PICK o : o = Open(c)
  OBVIOUS
<1>4. /\ fdt \in Trees /\ path \in Paths /\ dpc = "fdt_path_offset"
      /\ c \in DT!Nodes /\ c \in 1 .. Len(fdt) /\ c \in Nat /\ c > 0
      /\ DT!Token = fdt[c] /\ DT!path_depth \in Nat \ {0}
  <2>1. fdt \in Trees /\ path \in Paths /\ dpc = "fdt_path_offset" /\ c \in 1 .. Len(fdt)
    BY <1>1 DEF TreeInv, WalkInv, DT!BeginNode
  <2>2. Len(fdt) \in Nat /\ DOMAIN fdt = 1 .. Len(fdt)
    BY <2>1, TreeEnds
  <2>3. DT!Token = fdt[c] /\ c \in DT!Nodes
    BY <1>1, <2>1, <2>2 DEF DT!BeginNode, DT!Token, DT!Nodes
  <2>4. c \in Nat /\ c > 0
    BY <2>1, <2>2
  <2> QED BY <2>1, <2>3, <2>4, Rests
<1>5. o \in Int /\ Open(c + 1) = o + 1 /\ DT!Depth(c) = o + 1
  BY <1>3, <1>4, OpenStep
<1>6. UNCHANGED <<fdt, path>> /\ cur_depth' = cur_depth + 1
  BY DEF DT!BeginNode, DT!Advance, DT!Return
<1>7. \A d : Last(c + 1, d) = IF d = o + 1 THEN c ELSE Last(c, d)
  BY <1>4, <1>5, LastAfter
<1>8. \A n \in DT!Matching : n \in Nat
  BY <1>4, NodePlace DEF DT!Matching
<1>9. c \in DT!Matching <=>
        o = DT!path_depth /\ \A d \in 2 .. (DT!path_depth + 1) : Last(c + 1, d) \in Answers
  BY <1>4, <1>5, PathNodes
<1>10. DT!PlainlyNamed =>
         /\ cur_depth = o - 2 /\ k \in 0 .. (DT!path_depth - 1)
         /\ k < o \/ (k = 0 /\ o = 0)
         /\ \A d \in 2 .. (k + 1) : Last(c, d) \in Answers
         /\ k + 1 < o => Last(c, k + 2) \notin Answers
         /\ \A n \in DT!Matching : c <= n
  BY <1>1, <1>2, <1>3, <1>4 DEF WalkInv, WalkedTo
<1> DEFINE Match == cur_depth' = k /\ DT!strncmp2(fdt[c].name, DT!Rest(cur_depth'))
<1>11. DT!PlainlyNamed /\ o = k + 1 => (Match <=> c \in Answers)
  <2> SUFFICES ASSUME DT!PlainlyNamed, o = k + 1 PROVE Match <=> c \in Answers
    OBVIOUS
  <2>1. cur_depth' = k /\ k \in 0 .. (DT!path_depth - 1) /\ DT!Depth(c) = k + 2
    BY <1>5, <1>6, <1>10
  <2>2. DT!strncmp2(fdt[c].name, DT!Rest(k)) <=> c \in Answers
    BY <1>4, <2>1, Compared
  <2> QED BY <2>1, <2>2
<1>12. DT!PlainlyNamed /\ o # k + 1 => ~ Match
  BY <1>5, <1>6, <1>10
<1>13. \/ Match /\ matching_depth' = k + 1 /\ matching_depth' = DT!path_depth' /\ DT!Return(c)
       \/ Match /\ matching_depth' = k + 1 /\ matching_depth' # DT!path_depth' /\ DT!Advance
       \/ ~ Match /\ DT!Advance /\ matching_depth' = k
  <2>1. DT!path_depth' = DT!path_depth
    BY <1>6, SameTree
  <2> QED BY <1>1, <1>2, <1>4, <2>1 DEF DT!BeginNode
<1>14. DT!path_depth' = DT!path_depth
  BY <1>6, SameTree
<1> HIDE DEF Match
<1>15. CASE Match /\ matching_depth' = k + 1 /\ matching_depth' = DT!path_depth' /\ DT!Return(c)
  <2>1. offset' = c /\ dpc' = "fdt_getprop"
    BY <1>4, <1>15 DEF DT!Return
  <2>2. ASSUME DT!PlainlyNamed PROVE c = DT!FirstMatch
    <3>1. o = k + 1 /\ c \in Answers /\ k + 1 = DT!path_depth
      BY <1>11, <1>12, <1>14, <1>15, <2>2
    <3>2. ASSUME NEW d \in 2 .. (DT!path_depth + 1) PROVE Last(c + 1, d) \in Answers
      <4>1. CASE d = o + 1
        BY <1>7, <3>1, <4>1
      <4>2. CASE d # o + 1
        <5>1. d \in 2 .. (k + 1)
          BY <1>4, <1>5, <3>1, <4>2
        <5> QED BY <1>7, <1>10, <2>2, <4>2, <5>1
      <4> QED BY <4>1, <4>2
    <3>3. c \in DT!Matching
      BY <1>9, <3>1, <3>2
    <3>4. \A n \in DT!Matching : c <= n
      BY <1>10, <2>2
    <3>5. PICK m : m = DT!Min(DT!Matching)
      OBVIOUS
    <3>6. m \in DT!Matching /\ \A n \in DT!Matching : m <= n
      BY <3>3, <3>4, <3>5 DEF DT!Min
    <3>7. m = c
      BY <1>4, <1>8, <3>3, <3>4, <3>6
    <3> QED BY <3>3, <3>5, <3>7 DEF DT!FirstMatch
  <2> QED BY <1>4, <1>6, <2>1, <2>2, Ended
<1>16. ASSUME c \notin DT!Matching
       PROVE  (\A n \in DT!Matching : c <= n) => \A n \in DT!Matching : c + 1 <= n
  BY <1>4, <1>8, <1>16
<1>17. CASE Match /\ matching_depth' = k + 1 /\ matching_depth' # DT!path_depth' /\ DT!Advance
  <2>1. cur_off' = c + 1 /\ dpc' = "fdt_path_offset"
    BY <1>1, <1>4, <1>17 DEF DT!Advance
  <2>2. ASSUME DT!PlainlyNamed PROVE WalkedTo(c + 1, cur_depth', k + 1)
    <3>1. o = k + 1 /\ c \in Answers /\ k + 1 # DT!path_depth
      BY <1>11, <1>12, <1>14, <1>17, <2>2
    <3>2. k \in Nat /\ k + 1 \in 0 .. (DT!path_depth - 1) /\ k + 1 < Open(c + 1)
          /\ ~ ((k + 1) + 1 < Open(c + 1)) /\ cur_depth' = Open(c + 1) - 2
      <4>1. cur_depth = o - 2 /\ k \in 0 .. (DT!path_depth - 1)
        BY <1>10, <2>2
      <4>2. k \in Nat /\ k + 1 \in 0 .. (DT!path_depth - 1)
        BY <1>4, <3>1, <4>1
      <4> QED BY <1>5, <1>6, <3>1, <4>1, <4>2
    <3>3. ASSUME NEW d \in 2 .. ((k + 1) + 1) PROVE Last(c + 1, d) \in Answers
      <4>1. CASE d = o + 1
        BY <1>7, <3>1, <4>1
      <4>2. CASE d # o + 1
        <5>1. d \in 2 .. (k + 1)
          BY <3>1, <3>2, <4>2
        <5> QED BY <1>7, <1>10, <2>2, <4>2, <5>1
      <4> QED BY <4>1, <4>2
    <3>4. c \notin DT!Matching
      BY <1>9, <3>1
    <3> QED BY <1>10, <1>16, <2>2, <3>2, <3>3, <3>4 DEF WalkedTo
  <2> QED BY <1>4, <1>6, <1>17, <2>1, <2>2, Onward
<1>18. CASE ~ Match /\ DT!Advance /\ matching_depth' = k
  <2>1. cur_off' = c + 1 /\ dpc' = "fdt_path_offset"
    BY <1>1, <1>4, <1>18 DEF DT!Advance
  <2>2. ASSUME DT!PlainlyNamed PROVE WalkedTo(c + 1, cur_depth', k)
    <3>1. k \in Nat /\ k \in 0 .. (DT!path_depth - 1) /\ k < Open(c + 1)
          /\ cur_depth' = Open(c + 1) - 2
      BY <1>4, <1>5, <1>6, <1>10, <2>2
    <3>2. ASSUME NEW d \in 2 .. (k + 1) PROVE Last(c + 1, d) \in Answers
      <4>1. d # o + 1
        BY <1>5, <1>10, <2>2, <3>1
      <4> QED BY <1>7, <1>10, <2>2, <4>1
    <3>3. ASSUME k + 1 < Open(c + 1)
          PROVE  Last(c + 1, k + 2) \notin Answers /\ k + 2 \in 2 .. (DT!path_depth + 1)
                 /\ k + 1 <= o
      <4>1. k + 1 <= o /\ k + 2 \in 2 .. (DT!path_depth + 1)
        BY <1>4, <1>5, <3>1, <3>3
      <4>2. CASE o = k + 1
        <5>1. Last(c + 1, k + 2) = c
          BY <1>7, <3>1, <4>2
        <5> QED BY <1>11, <1>18, <2>2, <4>1, <4>2, <5>1
      <4>3. CASE o # k + 1
        <5>1. k + 1 < o /\ k + 2 # o + 1
          BY <1>5, <3>1, <4>1, <4>3
        <5> QED BY <1>7, <1>10, <2>2, <4>1, <5>1
      <4> QED BY <4>2, <4>3
    <3>4. c \notin DT!Matching
      <4> SUFFICES ASSUME c \in DT!Matching PROVE FALSE
        OBVIOUS
      <4>1. o = DT!path_depth /\ \A d \in 2 .. (DT!path_depth + 1) : Last(c + 1, d) \in Answers
        BY <1>9
      <4>2. k + 1 < Open(c + 1)
        BY <1>4, <1>5, <3>1, <4>1
      <4> QED BY <3>3, <4>1, <4>2
    <3> QED BY <1>10, <1>16, <2>2, <3>1, <3>2, <3>3, <3>4 DEF WalkedTo
  <2> QED BY <1>4, <1>6, <1>18, <2>1, <2>2, Onward
<1> QED BY <1>13, <1>15, <1>17, <1>18

\* A node ends.
LEMMA EndNodeStep == ASSUME TreeInv, WalkInv, DT!EndNode PROVE WalkInv'
<1>1. PICK c : c = cur_off
  OBVIOUS
<1>2. PICK k : k = matching_depth
  OBVIOUS
<1>3. PICK o : o = Open(c)
  OBVIOUS
<1>4. /\ fdt \in Trees /\ path \in Paths /\ dpc = "fdt_path_offset"
      /\ c \in Ends /\ c \notin DT!Nodes /\ c \in 1 .. Len(fdt) /\ c \in Nat
  <2>1. fdt \in Trees /\ path \in Paths /\ dpc = "fdt_path_offset" /\ c \in 1 .. Len(fdt)
    BY <1>1 DEF TreeInv, WalkInv, DT!EndNode
  <2>2. Len(fdt) \in Nat /\ DOMAIN fdt = 1 .. Len(fdt)
    BY <2>1, TreeEnds
  <2>3. c \in Ends /\ c \notin DT!Nodes
    BY <1>1, <2>1, <2>2 DEF DT!EndNode, DT!Token, DT!Nodes, Ends
  <2> QED BY <2>1, <2>2, <2>3
<1>5. o \in Int /\ Open(c + 1) = o - 1 /\ o >= 1
  BY <1>3, <1>4, OpenStep, Nested
<1>6. /\ UNCHANGED <<fdt, path>> /\ cur_depth' = cur_depth - 1 /\ matching_depth' = k
      /\ IF cur_depth' + 1 < k THEN DT!Return(-1) ELSE DT!Advance
  BY <1>2 DEF DT!EndNode, DT!LeavesMatched, DT!Advance, DT!Return
<1>7. \A d : Last(c + 1, d) = Last(c, d)
  BY <1>4, LastAfter
<1>8. DT!PlainlyNamed =>
        /\ cur_depth = o - 2 /\ k \in 0 .. (DT!path_depth - 1) /\ k < o
        /\ \A d \in 2 .. (k + 1) : Last(c, d) \in Answers
        /\ k + 1 < o => Last(c, k + 2) \notin Answers
        /\ \A n \in DT!Matching : c <= n
  <2> SUFFICES ASSUME DT!PlainlyNamed, WalkedTo(c, cur_depth, k)
               PROVE  /\ cur_depth = o - 2 /\ k \in 0 .. (DT!path_depth - 1) /\ k < o
                      /\ \A d \in 2 .. (k + 1) : Last(c, d) \in Answers
                      /\ k + 1 < o => Last(c, k + 2) \notin Answers
                      /\ \A n \in DT!Matching : c <= n
    BY <1>1, <1>2, <1>4 DEF WalkInv
  <2>1. k < o
    BY <1>3, <1>5 DEF WalkedTo
  <2> QED BY <1>3, <2>1 DEF WalkedTo
<1>9. DT!path_depth \in Nat
  BY <1>4, Rests
<1>10. CASE cur_depth' + 1 < k
  <2>1. offset' = -1 /\ dpc' # "fdt_path_offset"
    BY <1>6, <1>10 DEF DT!Return
  <2>2. ASSUME DT!PlainlyNamed PROVE DT!FirstMatch = -1 \/ DT!Forks
    <3>1. k \in 0 .. (DT!path_depth - 1) /\ o = k + 1
      BY <1>5, <1>6, <1>8, <1>9, <1>10, <2>2
    <3>2. ASSUME NEW n \in DT!Matching PROVE DT!Forks
      BY <1>3, <1>4, <1>8, <2>2, <3>1, TwoWays
    <3> QED BY <3>2 DEF DT!FirstMatch
  <2> QED BY <1>4, <1>6, <2>1, <2>2, Ended
<1>11. CASE ~ (cur_depth' + 1 < k)
  <2>1. cur_off' = c + 1 /\ dpc' = "fdt_path_offset"
    BY <1>1, <1>4, <1>6, <1>11 DEF DT!Advance
  <2>2. ASSUME DT!PlainlyNamed PROVE WalkedTo(c + 1, cur_depth', k)
    <3>1. /\ cur_depth' = Open(c + 1) - 2 /\ k < Open(c + 1)
          /\ k + 1 < Open(c + 1) => k + 1 < o
      BY <1>5, <1>6, <1>8, <1>9, <1>11, <2>2
    <3>2. \A n \in DT!Matching : c + 1 <= n
      <4>1. \A n \in DT!Matching : n \in Nat /\ n # c
        BY <1>4, NodePlace DEF DT!Matching
      <4> QED BY <1>4, <1>8, <2>2, <4>1
    <3> QED BY <1>7, <1>8, <2>2, <3>1, <3>2 DEF WalkedTo
  <2> QED BY <1>4, <1>6, <2>1, <2>2, Onward
<1> QED BY <1>10, <1>11

\* A property or an FDT_NOP is passed.
LEMMA SkipTokenStep == ASSUME TreeInv, WalkInv, DT!SkipToken PROVE WalkInv'
<1>1. PICK c : c = cur_off
  OBVIOUS
<1>2. /\ fdt \in Trees /\ path \in Paths /\ dpc = "fdt_path_offset"
      /\ c \notin DT!Nodes \cup Ends /\ c \in 1 .. Len(fdt) /\ c \in Nat
  <2>1. fdt \in Trees /\ path \in Paths /\ dpc = "fdt_path_offset" /\ c \in 1 .. Len(fdt)
    BY <1>1 DEF TreeInv, WalkInv, DT!SkipToken
  <2>2. Len(fdt) \in Nat
    BY <2>1, TreeEnds
  <2>3. c \notin DT!Nodes \cup Ends
    BY <1>1 DEF DT!SkipToken, DT!Token, DT!Nodes, Ends
  <2> QED BY <2>1, <2>2, <2>3
<1>3. /\ UNCHANGED <<fdt, path, cur_depth, matching_depth>>
      /\ cur_off' = c + 1 /\ dpc' = "fdt_path_offset"
  BY <1>1, <1>2 DEF DT!SkipToken, DT!Advance
<1>4. Open(c + 1) = Open(c)
  BY <1>2, OpenStep
<1>5. \A d : Last(c + 1, d) = Last(c, d)
  BY <1>2, LastAfter
<1>6. \A n \in DT!Nodes : n \in Nat /\ (c <= n => c + 1 <= n)
  <2>1. \A n \in DT!Nodes : n \in Nat /\ n # c
    BY <1>2, NodePlace
  <2> QED BY <1>2, <2>1
<1>7. DT!Matching \subseteq DT!Nodes
  BY DEF DT!Matching
<1>8. ASSUME DT!PlainlyNamed PROVE WalkedTo(c + 1, cur_depth', matching_depth')
  <2>1. WalkedTo(c, cur_depth, matching_depth)
    BY <1>1, <1>2, <1>8 DEF WalkInv
  <2> QED BY <1>3, <1>4, <1>5, <1>6, <1>7, <2>1 DEF WalkedTo
<1> QED BY <1>2, <1>3, <1>8, Onward

\* The tree ends.
LEMMA EndOfTreeStep == ASSUME TreeInv, WalkInv, DT!EndOfTree PROVE WalkInv'
<1>1. /\ fdt \in Trees /\ path \in Paths /\ dpc = "fdt_path_offset"
      /\ cur_off \in 1 .. Len(fdt) /\ UNCHANGED <<fdt, path>>
      /\ offset' = -1 /\ dpc' # "fdt_path_offset" /\ fdt[cur_off].kind = "FDT_END"
  BY TreesAssumption DEF TreeInv, WalkInv, DT!EndOfTree, DT!Return, DT!Token, Tokens
<1>2. cur_off = Len(fdt) /\ Len(fdt) \in Nat
  BY <1>1, TreeEnds, TreesAssumption
<1>3. ASSUME DT!PlainlyNamed PROVE DT!FirstMatch = -1
  <2>1. ASSUME NEW n \in DT!Matching PROVE FALSE
    <3>1. n \in DT!Nodes /\ n \in Nat /\ n + 1 \in 1 .. Len(fdt)
      BY <1>1, NodePlace DEF DT!Matching
    <3>2. cur_off <= n
      BY <1>1, <1>3 DEF WalkInv, WalkedTo
    <3> QED BY <1>2, <3>1, <3>2
  <2> QED BY <2>1 DEF DT!FirstMatch
<1> QED BY <1>1, <1>3, Ended

\* A turn of either walk
LEMMA WalkStep == ASSUME TreeInv, WalkInv, [DT!Next]_treeVars PROVE WalkInv'
<1>1. CASE DT!fdt_getprop
  <2>1. UNCHANGED <<fdt, path, offset>> /\ dpc # "fdt_path_offset" /\ dpc' # "fdt_path_offset"
    BY <1>1 DEF DT!fdt_getprop
  <2> QED BY <2>1, Ended DEF TreeInv, WalkInv
<1>2. CASE UNCHANGED treeVars
  <2>1. UNCHANGED <<fdt, path, dpc, cur_off, cur_depth, matching_depth, offset>>
    BY <1>2 DEF treeVars
  <2>2. CASE dpc = "fdt_path_offset"
    BY <2>1, <2>2, Onward DEF TreeInv, WalkInv
  <2>3. CASE dpc # "fdt_path_offset"
    BY <2>1, <2>3, Ended DEF TreeInv, WalkInv
  <2> QED BY <2>2, <2>3
<1> QED BY <1>1, <1>2, BeginNodeStep, EndNodeStep, SkipTokenStep, EndOfTreeStep DEF DT!Next

\* fdt_path_offset returns the first node on the path, or -1.
LEMMA WalkSafe == ASSUME TreeInv, WalkInv PROVE DT!FindsFirstMatch
BY DEF TreeInv, WalkInv, DT!FindsFirstMatch

-----------------------------------------------------------------------------
(* The archives of ex22, ex41 and ex62: sizes and addresses *)

\* Addresses and sizes rounded up to words
LEMMA Rounded ==
  ASSUME NEW n \in Nat
  PROVE  AR!align4(n) \in Nat /\ (AR!align4(n) % 4) = 0 /\ AR!align4(n) >= n
BY DEF AR!align4

\* It is the same to round an address or what is added to one.
LEMMA RoundedSum ==
  ASSUME NEW a \in Nat, (a % 4) = 0, NEW n \in Nat
  PROVE  AR!align4(a + n) = a + AR!align4(n) /\ ((a + AR!align4(n)) % 4) = 0
BY DEF AR!align4

\* hextoi undoes what cpio writes for a digit.
LEMMA DigitRead ==
  ASSUME NEW d \in 0 .. 15
  PROVE  AR!DigitOf(AR!CharOf(d)) = d
BY DEF AR!DigitOf, AR!CharOf, AR!ASCII_0, AR!ASCII_A

\* So it finds the size that is in a header.
LEMMA FieldRead ==
  ASSUME NEW n \in FieldSizes
  PROVE  AR!hextoi(AR!Field(n)) = n
<1> DEFINE Written(g) ==
             g = [k \in 0 .. 8 |-> IF k = 8 THEN n ELSE g[k + 1] \div 16]
           upto == CHOOSE g : Written(g)
<1>1. Written(upto)
  <2>1. PICK a, b, c, d, e, h, j :
               /\ a = n \div 16 /\ b = a \div 16 /\ c = b \div 16 /\ d = c \div 16
               /\ e = d \div 16 /\ h = e \div 16 /\ j = h \div 16
    OBVIOUS
  <2> DEFINE w == [k \in 0 .. 8 |-> IF k = 8 THEN n ELSE IF k = 7 THEN a
                                    ELSE IF k = 6 THEN b ELSE IF k = 5 THEN c
                                    ELSE IF k = 4 THEN d ELSE IF k = 3 THEN e
                                    ELSE IF k = 2 THEN h ELSE IF k = 1 THEN j
                                    ELSE j \div 16]
  <2>2. /\ w[8] = n /\ w[7] = a /\ w[6] = b /\ w[5] = c /\ w[4] = d /\ w[3] = e
        /\ w[2] = h /\ w[1] = j /\ w[0] = j \div 16
    OBVIOUS
  <2>3. w = [k \in 0 .. 8 |-> w[k]]
    OBVIOUS
  <2> HIDE DEF w
  <2>4. ASSUME NEW k \in 0 .. 8 PROVE w[k] = IF k = 8 THEN n ELSE w[k + 1] \div 16
    <3>1. k \in {0, 1, 2, 3, 4, 5, 6, 7, 8}
      OBVIOUS
    <3>2. /\ w[7] = w[8] \div 16 /\ w[6] = w[7] \div 16 /\ w[5] = w[6] \div 16
          /\ w[4] = w[5] \div 16 /\ w[3] = w[4] \div 16 /\ w[2] = w[3] \div 16
          /\ w[1] = w[2] \div 16 /\ w[0] = w[1] \div 16
      BY <2>1, <2>2
    <3>3. CASE k = 0
      <4>1. k + 1 = 1 /\ k # 8
        BY <3>3
      <4> QED BY <3>2, <3>3, <4>1, Zenon
    <3>4. CASE k = 1
      <4>1. k + 1 = 2 /\ k # 8
        BY <3>4
      <4> QED BY <3>2, <3>4, <4>1, Zenon
    <3>5. CASE k = 2
      <4>1. k + 1 = 3 /\ k # 8
        BY <3>5
      <4> QED BY <3>2, <3>5, <4>1, Zenon
    <3>6. CASE k = 3
      <4>1. k + 1 = 4 /\ k # 8
        BY <3>6
      <4> QED BY <3>2, <3>6, <4>1, Zenon
    <3>7. CASE k = 4
      <4>1. k + 1 = 5 /\ k # 8
        BY <3>7
      <4> QED BY <3>2, <3>7, <4>1, Zenon
    <3>8. CASE k = 5
      <4>1. k + 1 = 6 /\ k # 8
        BY <3>8
      <4> QED BY <3>2, <3>8, <4>1, Zenon
    <3>9. CASE k = 6
      <4>1. k + 1 = 7 /\ k # 8
        BY <3>9
      <4> QED BY <3>2, <3>9, <4>1, Zenon
    <3>10. CASE k = 7
      <4>1. k + 1 = 8 /\ k # 8
        BY <3>10
      <4> QED BY <3>2, <3>10, <4>1, Zenon
    <3> QED BY <2>2, <3>1, <3>3, <3>4, <3>5, <3>6, <3>7, <3>8, <3>9, <3>10
  <2>5. Written(w)
    BY <2>3, <2>4
  <2> HIDE DEF Written
  <2> QED BY <2>5
<1> HIDE DEF upto
<1>2. upto[0] = 0 /\ upto[8] = n /\ \A k \in 0 .. 8 : upto[k] \in Nat
  <2>1. \A k \in 0 .. 8 : upto[k] = IF k = 8 THEN n ELSE upto[k + 1] \div 16
    BY <1>1
  <2> HIDE DEF Written
  <2>2. ASSUME NEW k \in {0, 1, 2, 3, 4, 5, 6, 7}, NEW b \in Nat, NEW a, a = upto[k + 1],
               a \in Nat, a < 16 * b
        PROVE  upto[k] \in Nat /\ upto[k] < b
    <3>1. upto[k] = a \div 16
      BY <2>1, <2>2
    <3>2. a \div 16 \in Nat /\ a \div 16 < b
      BY <2>2
    <3> QED BY <3>1, <3>2
  <2>3. upto[8] \in Nat /\ upto[8] = n
    BY <2>1 DEF FieldSizes
  <2>4. n < 16 * 67108864
    BY SMT DEF FieldSizes, MaxSize
  <2>5. upto[7] \in Nat /\ upto[7] < 16 * 4194304
    BY <2>2, <2>3, <2>4, SMT
  <2>6. upto[6] \in Nat /\ upto[6] < 16 * 262144
    BY <2>2, <2>5, SMT
  <2>7. upto[5] \in Nat /\ upto[5] < 16 * 16384
    BY <2>2, <2>6, SMT
  <2>8. upto[4] \in Nat /\ upto[4] < 16 * 1024
    BY <2>2, <2>7, SMT
  <2>9. upto[3] \in Nat /\ upto[3] < 16 * 64
    BY <2>2, <2>8, SMT
  <2>10. upto[2] \in Nat /\ upto[2] < 16 * 4
    BY <2>2, <2>9, SMT
  <2>11. upto[1] \in Nat /\ upto[1] < 16 * 1
    BY <2>2, <2>10
  <2>12. upto[0] \in Nat /\ upto[0] = 0
    <3>1. upto[0] \in Nat /\ upto[0] < 1
      BY <2>2, <2>11
    <3> QED BY <3>1
  <2>13. ASSUME NEW k \in 0 .. 8 PROVE upto[k] \in Nat
    <3>1. k \in {0, 1, 2, 3, 4, 5, 6, 7, 8}
      OBVIOUS
    <3>2. CASE k \in {0, 1, 2, 3}
      BY <2>9, <2>10, <2>11, <2>12, <3>2, SMT
    <3>3. CASE k \in {4, 5, 6, 7, 8}
      BY <2>3, <2>5, <2>6, <2>7, <2>8, <3>3, SMT
    <3> QED BY <3>1, <3>2, <3>3
  <2> QED BY <2>3, <2>12, <2>13
<1>3. n \in Nat
  BY DEF FieldSizes
<1>4. ASSUME NEW k \in 1 .. 8
      PROVE  upto[k] = upto[k - 1] * 16 + (upto[k] % 16) /\ (upto[k] % 16) \in 0 .. 15
  <2>1. k - 1 \in 0 .. 8 /\ k \in 0 .. 8 /\ k - 1 # 8 /\ (k - 1) + 1 = k
    OBVIOUS
  <2>2. upto[k - 1] = upto[k] \div 16
    BY <1>1, <2>1
  <2> HIDE DEF Written
  <2>3. PICK a : a = upto[k]
    OBVIOUS
  <2>4. a \in Nat /\ upto[k - 1] = a \div 16
    BY <1>2, <2>1, <2>2, <2>3
  <2>5. a = (a \div 16) * 16 + (a % 16) /\ (a % 16) \in 0 .. 15
    BY <2>4
  <2> QED BY <2>3, <2>4, <2>5
<1> DEFINE s == AR!Field(n)
<1>5. ASSUME NEW k \in 1 .. 8 PROVE AR!DigitOf(s[k]) = (upto[k] % 16)
  <2>1. s = [m \in 1 .. 8 |-> AR!CharOf(upto[m] % 16)]
    BY DEF AR!Field, AR!DIGITS, upto
  <2> HIDE DEF s
  <2> QED BY <1>4, <2>1, DigitRead
<1> HIDE DEF s, Written
<1> DEFINE Read(g) ==
             g = [k \in 0 .. 8 |-> IF k = 0 THEN 0 ELSE g[k - 1] * 16 + AR!DigitOf(s[k])]
           r == CHOOSE g : Read(g)
<1>6. Read(r)
  <2> DEFINE w == [k \in 0 .. 8 |-> upto[k]]
  <2>1. ASSUME NEW k \in 0 .. 8
        PROVE  w[k] = IF k = 0 THEN 0 ELSE w[k - 1] * 16 + AR!DigitOf(s[k])
    <3>1. CASE k = 0
      BY <1>2, <3>1
    <3>2. CASE k # 0
      <4>1. k \in 1 .. 8 /\ k - 1 \in 0 .. 8
        BY <3>2
      <4>2. w[k] = upto[k] /\ w[k - 1] = upto[k - 1]
        BY <4>1
      <4> HIDE DEF w
      <4> QED BY <1>4, <1>5, <3>2, <4>1, <4>2
    <3> QED BY <3>1, <3>2
  <2>2. w = [k \in 0 .. 8 |-> w[k]]
    OBVIOUS
  <2> HIDE DEF w
  <2>3. Read(w)
    BY <2>1, <2>2
  <2> HIDE DEF Read
  <2> QED BY <2>3
<1> HIDE DEF r
<1>7. \A k \in 0 .. 8 : r[k] = IF k = 0 THEN 0 ELSE r[k - 1] * 16 + AR!DigitOf(s[k])
  BY <1>6
<1> HIDE DEF Read
<1>8. ASSUME NEW k \in 1 .. 8, r[k - 1] = upto[k - 1] PROVE r[k] = upto[k]
  <2>1. k \in 0 .. 8 /\ k # 0
    OBVIOUS
  <2> QED BY <1>4, <1>5, <1>7, <1>8, <2>1
<1>9. r[0] = upto[0]
  BY <1>2, <1>7
<1>10. r[1] = upto[1]
  BY <1>8, <1>9
<1>11. r[2] = upto[2]
  BY <1>8, <1>10
<1>12. r[3] = upto[3]
  BY <1>8, <1>11
<1>13. r[4] = upto[4]
  BY <1>8, <1>12
<1>14. r[5] = upto[5]
  BY <1>8, <1>13
<1>15. r[6] = upto[6]
  BY <1>8, <1>14
<1>16. r[7] = upto[7]
  BY <1>8, <1>15
<1>17. r[8] = upto[8]
  BY <1>8, <1>16
<1>18. AR!hextoi(s) = r[8]
  BY DEF AR!hextoi, AR!DIGITS, r, Read
<1> QED BY <1>2, <1>17, <1>18 DEF s

\* What an archive is
LEMMA ArchiveShape ==
  ASSUME archive \in Archives
  PROVE  /\ Len(archive) \in Nat \ {0} /\ DOMAIN archive = 1 .. Len(archive)
         /\ \A n \in 1 .. Len(archive) :
              /\ archive[n].namesize \in FieldSizes /\ archive[n].filesize \in FieldSizes
              /\ archive[n].name = TRAILER <=> n = Len(archive)
              /\ archive[n].namesize # 0
<1>1. /\ NonEmptySeq(archive)
      /\ \A n \in DOMAIN archive :
           /\ archive[n].namesize \in FieldSizes /\ archive[n].filesize \in FieldSizes
           /\ archive[n].name = TRAILER <=> n = Len(archive)
           /\ archive[n].namesize # 0
  BY ArchivesAssumption
<1> QED BY <1>1, SequenceShape

\* The bytes of an entry are whole words, and there are some.
LEMMA EntrySize ==
  ASSUME archive \in Archives, NEW n \in 1 .. Len(archive)
  PROVE  /\ AR!SizeOf(archive[n]) \in Nat \ {0} /\ (AR!SizeOf(archive[n]) % 4) = 0
         /\ HEADER + archive[n].namesize \in Nat /\ archive[n].filesize \in Nat
         /\ AR!SizeOf(archive[n])
              = AR!align4(HEADER + archive[n].namesize) + AR!align4(archive[n].filesize)
<1>1. /\ archive[n].namesize \in Nat /\ archive[n].filesize \in Nat /\ HEADER \in Nat \ {0}
  BY ArchiveShape, ArchivesAssumption DEF FieldSizes
<1> DEFINE a == HEADER + archive[n].namesize
           b == archive[n].filesize
           p == AR!align4(a)
           q == AR!align4(b)
<1>2. a \in Nat /\ b \in Nat /\ a >= 1
  BY <1>1
<1>3. AR!SizeOf(archive[n]) = p + q
  BY DEF AR!SizeOf
<1> HIDE DEF a, b
<1>4. p \in Nat /\ (p % 4) = 0 /\ p >= a /\ q \in Nat /\ (q % 4) = 0
  BY <1>2, Rounded
<1> HIDE DEF p, q
<1>5. p + q \in Nat \ {0} /\ ((p + q) % 4) = 0
  BY <1>2, <1>4
<1> QED BY <1>2, <1>3, <1>5 DEF a, b, p, q

\* The first entry is where the archive is, and each next one behind the last.
LEMMA Addresses ==
  ASSUME archive \in Archives, abase \in Bases
  PROVE  /\ AR!AddressOf(1) = abase
         /\ \A n \in 2 .. Len(archive) :
              AR!AddressOf(n) = AR!AddressOf(n - 1) + AR!SizeOf(archive[n - 1])
<1> DEFINE At1(g, m) == IF m = 1 THEN abase ELSE g[m - 1] + AR!SizeOf(archive[m - 1])
           Lists(g, n) == g = [m \in 1 .. n |-> At1(g, m)]
           S == {n \in Nat \ {0} : \E g : Lists(g, n)}
<1>1. 1 \in S
  <2> DEFINE g == [m \in 1 .. 1 |-> abase]
  <2>1. Lists(g, 1)
    OBVIOUS
  <2> HIDE DEF Lists, g
  <2> QED BY <2>1
<1>2. ASSUME NEW n \in Nat \ {0}, n \in S PROVE n + 1 \in S
  <2>1. PICK g : Lists(g, n)
    BY <1>2
  <2> DEFINE h == [m \in 1 .. (n + 1) |-> At1(g, m)]
  <2>2. ASSUME NEW m \in 1 .. n PROVE h[m] = g[m]
    BY <2>1
  <2>3. ASSUME NEW m \in 1 .. (n + 1) PROVE h[m] = At1(h, m)
    <3>1. h[m] = At1(g, m)
      OBVIOUS
    <3>2. CASE m # 1
      <4>1. m - 1 \in 1 .. n
        BY <3>2
      <4>2. h[m - 1] = g[m - 1]
        BY <2>2, <4>1
      <4> HIDE DEF h
      <4> QED BY <3>1, <3>2, <4>2
    <3>3. CASE m = 1
      BY <3>1, <3>3
    <3> QED BY <3>2, <3>3
  <2>4. h = [m \in 1 .. (n + 1) |-> h[m]]
    OBVIOUS
  <2> HIDE DEF h
  <2>5. Lists(h, n + 1)
    BY <2>3, <2>4
  <2> HIDE DEF Lists
  <2> QED BY <2>5
<1>3. Len(archive) \in Nat \ {0} /\ DOMAIN archive = 1 .. Len(archive)
  BY ArchiveShape
<1>4. \E g : Lists(g, Len(archive))
  <2>1. Len(archive) \in S
    <3> HIDE DEF S
    <3> QED BY <1>1, <1>2, <1>3, FromOneOn
  <2> QED BY <2>1
<1> DEFINE Whole(g) == g = [m \in DOMAIN archive |->
                              IF m = 1 THEN abase ELSE g[m - 1] + AR!SizeOf(archive[m - 1])]
           address == CHOOSE g : Whole(g)
<1>5. Whole(address)
  <2>1. \E g : Whole(g)
    BY <1>3, <1>4
  <2> HIDE DEF Whole
  <2> QED BY <2>1
<1>6. \A n : AR!AddressOf(n) = address[n]
  BY DEF AR!AddressOf
<1> HIDE DEF address
<1>7. \A n \in 1 .. Len(archive) :
        address[n] = IF n = 1 THEN abase ELSE address[n - 1] + AR!SizeOf(archive[n - 1])
  BY <1>3, <1>5
<1> HIDE DEF Whole
<1> QED BY <1>3, <1>6, <1>7

\* All lie at words, in the order of the entries.
LEMMA InOrder ==
  ASSUME archive \in Archives, abase \in Bases
  PROVE  \A n \in 1 .. Len(archive) :
           /\ AR!AddressOf(n) \in Nat /\ (AR!AddressOf(n) % 4) = 0
           /\ \A m \in 1 .. (n - 1) : AR!AddressOf(m) < AR!AddressOf(n)
<1> DEFINE Fits(n) == /\ AR!AddressOf(n) \in Nat /\ (AR!AddressOf(n) % 4) = 0
                      /\ \A m \in 1 .. (n - 1) : AR!AddressOf(m) < AR!AddressOf(n)
           S == {n \in Nat \ {0} : n <= Len(archive) => \A k \in 1 .. n : Fits(k)}
<1>1. Len(archive) \in Nat \ {0}
  BY ArchiveShape
<1>2. 1 \in S
  <2>1. abase \in Nat /\ (abase % 4) = 0
    BY ArchivesAssumption
  <2>2. Fits(1)
    BY <2>1, Addresses
  <2> HIDE DEF Fits
  <2> QED BY <2>2
<1>3. ASSUME NEW n \in Nat \ {0}, n \in S PROVE n + 1 \in S
  <2> SUFFICES ASSUME n + 1 <= Len(archive) PROVE \A k \in 1 .. (n + 1) : Fits(k)
    OBVIOUS
  <2>1. \A k \in 1 .. n : Fits(k)
    BY <1>1, <1>3
  <2>2. n \in 1 .. Len(archive) /\ n + 1 \in 2 .. Len(archive) /\ (n + 1) - 1 = n
    BY <1>1
  <2> DEFINE a == AR!AddressOf(n)
             b == AR!AddressOf(n + 1)
             e == AR!SizeOf(archive[n])
  <2>3. b = a + e
    BY <2>2, Addresses
  <2>4. e \in Nat \ {0} /\ (e % 4) = 0
    BY <2>2, EntrySize
  <2>5. a \in Nat /\ (a % 4) = 0
    BY <2>1, <2>2
  <2>6. b \in Nat /\ (b % 4) = 0 /\ a < b
    <3> HIDE DEF a, b, e
    <3> QED BY <2>3, <2>4, <2>5
  <2>7. ASSUME NEW m \in 1 .. n PROVE AR!AddressOf(m) < b
    <3>1. CASE m = n
      BY <2>6, <3>1
    <3>2. CASE m # n
      <4>1. m \in 1 .. (n - 1) /\ m \in 1 .. n
        BY <3>2
      <4>2. AR!AddressOf(m) < a /\ AR!AddressOf(m) \in Nat
        BY <2>1, <2>2, <4>1
      <4> HIDE DEF a, b
      <4> QED BY <2>5, <2>6, <4>2
    <3> QED BY <3>1, <3>2
  <2>8. Fits(n + 1)
    BY <2>2, <2>6, <2>7
  <2> HIDE DEF Fits
  <2>9. \A k \in 1 .. (n + 1) : k = n + 1 \/ k \in 1 .. n
    OBVIOUS
  <2> QED BY <2>1, <2>8, <2>9
<1>4. Len(archive) \in S
  <2> HIDE DEF S
  <2> QED BY <1>1, <1>2, <1>3, FromOneOn
<1> HIDE DEF Fits
<1>5. \A k \in 1 .. Len(archive) : Fits(k)
  BY <1>1, <1>4
<1> QED BY <1>5 DEF Fits

\* The entry at an address is the one that the walk looks at.
LEMMA EntryAt ==
  ASSUME archive \in Archives, abase \in Bases, NEW n \in 1 .. Len(archive),
         cur = AR!AddressOf(n)
  PROVE  cur \in AR!Headers /\ AR!Position = n /\ AR!Here = archive[n]
<1>1. DOMAIN archive = 1 .. Len(archive) /\ Len(archive) \in Nat
  BY ArchiveShape
<1>2. ASSUME NEW m \in 1 .. Len(archive), AR!AddressOf(m) = cur PROVE m = n
  <2>1. AR!AddressOf(m) \in Nat /\ AR!AddressOf(n) \in Nat
    BY InOrder
  <2>2. m < n => AR!AddressOf(m) < AR!AddressOf(n)
    BY <1>1, InOrder
  <2>3. n < m => AR!AddressOf(n) < AR!AddressOf(m)
    BY <1>1, InOrder
  <2> QED BY <1>1, <1>2, <2>1, <2>2, <2>3
<1>3. AR!Position = n
  BY <1>1, <1>2 DEF AR!Position
<1> QED BY <1>1, <1>3 DEF AR!Headers, AR!Here

-----------------------------------------------------------------------------
(* The walks *)

\* What initrd_list prints of an entry
LineOf(n) == <<archive[n].filesize, archive[n].name>>

\* How far a walk is at entry k, and what has come of it: initrd_list has
\* printed the entries before, and those a search has passed have other names;
\* it ends at the trailer, or at the file, of which it has the address then.
Walked(k) ==
  IF reader = "initrd_list"
    THEN /\ listed = [n \in 1 .. (k - 1) |-> LineOf(n)]
         /\ apc = "done" => k = Len(archive)
    ELSE /\ \A n \in 1 .. (k - 1) : archive[n].name # filename
         /\ apc = "walk" => file = 0 /\ printed = 0
         /\ apc = "done" =>
              \/ k = Len(archive) /\ file = 0 /\ printed = 0
              \/ /\ archive[k].name = filename
                 /\ file = AR!AddressOf(k) + AR!align4(HEADER + archive[k].namesize)
                 /\ reader = "initrd_cat" =>
                      /\ printed >= archive[k].filesize
                      /\ printed = archive[k].filesize <=> (archive[k].filesize % 4) # 0

ArchiveInv ==
  /\ archive \in Archives /\ abase \in Bases /\ filename \in FileNames
  /\ reader \in {"initrd_list", "initrd_cat", "exec_ex41", "exec_ex62"}
  /\ apc \in {"walk", "done"}
  /\ \E k \in 1 .. Len(archive) : cur = AR!AddressOf(k) /\ Walked(k)

\* A walk begins at the first entry.
LEMMA InitArchive == AR!Init => ArchiveInv
<1> SUFFICES ASSUME AR!Init PROVE ArchiveInv
  OBVIOUS
<1> USE DEF AR!Init
<1>1. 1 \in 1 .. Len(archive) /\ cur = AR!AddressOf(1)
  <2>1. archive \in Archives /\ abase \in Bases /\ cur = abase
    OBVIOUS
  <2>2. Len(archive) \in Nat \ {0} /\ AR!AddressOf(1) = abase
    BY <2>1, ArchiveShape, Addresses
  <2> QED BY <2>1, <2>2
<1>2. Walked(1)
  <2>1. 1 .. (1 - 1) = {}
    OBVIOUS
  <2>2. << >> = [n \in 1 .. (1 - 1) |-> LineOf(n)]
    <3>1. DOMAIN << >> = 1 .. 0 /\ << >> \in Seq({})
      OBVIOUS
    <3> QED BY <2>1, <3>1
  <2> QED BY <2>1, <2>2 DEF Walked
<1> QED BY <1>1, <1>2 DEF ArchiveInv

\* The sizes that the code reads, and both ways of rounding: where the data is,
\* and where the next entry is.
LEMMA HeaderRead ==
  ASSUME archive \in Archives, abase \in Bases, NEW k \in 1 .. Len(archive),
         cur = AR!AddressOf(k)
  PROVE  /\ AR!namesize = archive[k].namesize /\ AR!filesize = archive[k].filesize
         /\ AR!SizeRounded = cur + AR!align4(HEADER + archive[k].namesize)
         /\ AR!AddressRounded = cur + AR!align4(HEADER + archive[k].namesize)
         /\ k < Len(archive) => AR!NextHeader = AR!AddressOf(k + 1)
<1>1. AR!Here = archive[k]
  BY EntryAt
<1>2. archive[k].namesize \in FieldSizes /\ archive[k].filesize \in FieldSizes
  BY ArchiveShape
<1>3. AR!namesize = archive[k].namesize /\ AR!filesize = archive[k].filesize
  BY <1>1, <1>2, FieldRead DEF AR!namesize, AR!filesize
<1>4. cur \in Nat /\ (cur % 4) = 0 /\ HEADER \in Nat
  BY InOrder, ArchivesAssumption
<1> DEFINE b == archive[k].namesize
           c == archive[k].filesize
           d == AR!align4(HEADER + b)
<1>5. HEADER + b \in Nat /\ c \in Nat /\ AR!SizeOf(archive[k]) = d + AR!align4(c)
  BY EntrySize
<1>6. b \in Nat
  BY <1>2 DEF FieldSizes
<1> HIDE DEF b, c, d
<1>7. AR!align4(cur + (HEADER + b)) = cur + d /\ ((cur + d) % 4) = 0
  BY <1>4, <1>5, RoundedSum DEF d
<1>8. d \in Nat /\ AR!align4(c) \in Nat
  BY <1>5, Rounded DEF d
<1>9. AR!SizeRounded = cur + d
  BY <1>3 DEF AR!SizeRounded, b, d
<1>10. AR!AddressRounded = cur + d
  <2>1. cur + HEADER + b = cur + (HEADER + b)
    BY <1>4, <1>6
  <2> QED BY <1>3, <1>7, <2>1 DEF AR!AddressRounded, b
<1>11. AR!NextHeader = cur + d + AR!align4(c)
  <2>1. AR!align4((cur + d) + c) = (cur + d) + AR!align4(c)
    <3>1. cur + d \in Nat
      BY <1>4, <1>8
    <3>2. c \in Nat /\ ((cur + d) % 4) = 0
      BY <1>5, <1>7
    <3> QED BY <3>1, <3>2, RoundedSum
  <2> QED BY <1>3, <1>9, <1>10, <2>1 DEF AR!NextHeader, c
<1>12. ASSUME k < Len(archive) PROVE AR!NextHeader = AR!AddressOf(k + 1)
  <2>1. k + 1 \in 2 .. Len(archive) /\ (k + 1) - 1 = k
    <3>1. PICK l : l = Len(archive)
      OBVIOUS
    <3>2. l \in Nat
      BY <3>1, ArchiveShape
    <3>3. k \in 1 .. l /\ k < l
      BY <1>12, <3>1
    <3>4. k + 1 \in 2 .. l /\ (k + 1) - 1 = k
      BY <3>2, <3>3
    <3> QED BY <3>1, <3>4
  <2>2. AR!AddressOf(k + 1) = cur + AR!SizeOf(archive[k])
    BY <2>1, Addresses
  <2>3. cur + (d + AR!align4(c)) = cur + d + AR!align4(c)
    BY <1>4, <1>8
  <2> QED BY <1>5, <1>11, <2>2, <2>3
<1> QED BY <1>3, <1>9, <1>10, <1>12 DEF b, d

\* Nothing moves an archive.
LEMMA SameArchive ==
  ASSUME UNCHANGED <<archive, abase>>, NEW k
  PROVE  AR!AddressOf(k)' = AR!AddressOf(k) /\ LineOf(k)' = LineOf(k)
BY DEF AR!AddressOf, LineOf

\* A turn of any of the loops
LEMMA ArchiveStep == ASSUME ArchiveInv, [AR!Next]_archiveVars PROVE ArchiveInv'
<1> USE DEF ArchiveInv
<1>1. PICK k \in 1 .. Len(archive) : cur = AR!AddressOf(k) /\ Walked(k)
  OBVIOUS
<1>2. /\ Len(archive) \in Nat \ {0}
      /\ AR!Here = archive[k] /\ (archive[k].name = TRAILER <=> k = Len(archive))
  BY <1>1, ArchiveShape, EntryAt
<1>3. CASE UNCHANGED archiveVars
  <2>1. UNCHANGED <<archive, abase, filename, reader, apc, cur, listed, file, printed>>
    BY <1>3 DEF archiveVars
  <2>2. \A n : AR!AddressOf(n)' = AR!AddressOf(n) /\ LineOf(n)' = LineOf(n)
    BY <2>1, SameArchive
  <2> QED BY <2>1, <2>2 DEF Walked
<1>4. CASE AR!AtTrailer
  <2>1. /\ UNCHANGED <<archive, abase, filename, reader, cur, listed, file, printed>>
        /\ apc = "walk" /\ apc' = "done" /\ k = Len(archive)
    BY <1>2, <1>4 DEF AR!AtTrailer
  <2>2. \A n : AR!AddressOf(n)' = AR!AddressOf(n) /\ LineOf(n)' = LineOf(n)
    BY <2>1, SameArchive
  <2>3. Walked(k)'
    BY <1>1, <2>1, <2>2 DEF Walked
  <2> QED BY <1>1, <2>1, <2>2, <2>3
<1>5. CASE AR!initrd_list
  <2>1. /\ UNCHANGED <<archive, abase, filename, reader, apc, file, printed>>
        /\ apc = "walk" /\ reader = "initrd_list" /\ k # Len(archive)
        /\ cur' = AR!NextHeader /\ listed' = Append(listed, <<AR!filesize, AR!Here.name>>)
    BY <1>2, <1>5 DEF AR!initrd_list
  <2>2. \A n : AR!AddressOf(n)' = AR!AddressOf(n) /\ LineOf(n)' = LineOf(n)
    BY <2>1, SameArchive
  <2>3. k + 1 \in 1 .. Len(archive) /\ (k + 1) - 1 = k /\ k \in Nat \ {0}
    BY <1>2, <2>1
  <2>4. cur' = AR!AddressOf(k + 1)
    BY <1>1, <2>1, <2>3, HeaderRead
  <2>5. listed' = [n \in 1 .. k |-> LineOf(n)]
    <3> DEFINE S == {LineOf(n) : n \in 1 .. k}
    <3>1. listed = [n \in 1 .. (k - 1) |-> LineOf(n)]
      BY <1>1, <2>1 DEF Walked
    <3>2. <<AR!filesize, AR!Here.name>> = LineOf(k)
      BY <1>1, <1>2, HeaderRead DEF LineOf
    <3> HIDE DEF S
    <3>3. listed \in Seq(S) /\ Len(listed) = k - 1 /\ LineOf(k) \in S
      BY <2>3, <3>1, IsASeq, LenProperties DEF S
    <3>4. /\ listed' \in Seq(S) /\ Len(listed') = k
          /\ \A n \in 1 .. (k - 1) : listed'[n] = listed[n]
          /\ listed'[k] = LineOf(k)
      <4>1. listed' = Append(listed, LineOf(k))
        BY <2>1, <3>2
      <4>2. (k - 1) + 1 = k
        BY <2>3
      <4> QED BY <3>3, <4>1, <4>2, AppendProperties
    <3>5. listed' = [n \in 1 .. k |-> listed'[n]]
      BY <3>4, LenProperties
    <3>6. \A n \in 1 .. k : listed'[n] = LineOf(n)
      BY <2>3, <3>1, <3>4
    <3> QED BY <3>5, <3>6
  <2>6. Walked(k + 1)'
    BY <2>1, <2>2, <2>3, <2>5 DEF Walked
  <2> QED BY <2>1, <2>2, <2>3, <2>4, <2>6
<1>6. CASE AR!Search
  <2>1. /\ UNCHANGED <<archive, abase, filename, reader, listed>>
        /\ apc = "walk" /\ reader # "initrd_list" /\ k # Len(archive)
    BY <1>2, <1>6 DEF AR!Search
  <2>2. \A n : AR!AddressOf(n)' = AR!AddressOf(n) /\ LineOf(n)' = LineOf(n)
    BY <2>1, SameArchive
  <2>3. CASE archive[k].name = filename
    <3>1. AR!Found
      BY <1>2, <1>6, <2>3 DEF AR!Search
    <3>2. cur' = cur /\ apc' = "done"
          /\ file' = cur + AR!align4(HEADER + archive[k].namesize)
      BY <1>1, <3>1, HeaderRead DEF AR!Found
    <3>3. ASSUME reader = "initrd_cat"
          PROVE  /\ printed' >= archive[k].filesize
                 /\ printed' = archive[k].filesize <=> (archive[k].filesize % 4) # 0
      <4>1. PICK n : n = archive[k].filesize
        OBVIOUS
      <4>2. PICK e : e = archive[k + 1].namesize
        OBVIOUS
      <4>3. n \in Nat /\ e \in Nat \ {0} /\ HEADER \in Nat \ {0}
        <5>1. k + 1 \in 1 .. Len(archive)
          BY <1>2, <2>1
        <5> QED BY <4>1, <4>2, <5>1, ArchiveShape, ArchivesAssumption DEF FieldSizes
      <4>4. AR!Position = k
        BY <1>1, EntryAt
      <4>5. printed' = IF (n % 4) # 0 THEN n ELSE n + HEADER + e - 1
        <5>1. AR!StringLength = IF (n % 4) # 0 THEN n ELSE n + HEADER + e - 1
          BY <1>2, <4>1, <4>2, <4>4 DEF AR!StringLength
        <5> QED BY <3>1, <3>3, <5>1 DEF AR!Found
      <4>6. CASE (n % 4) # 0
        <5>1. printed' = n
          BY <4>5, <4>6
        <5> QED BY <4>1, <4>3, <4>6, <5>1
      <4>7. CASE ~ ((n % 4) # 0)
        <5>1. printed' = n + HEADER + e - 1
          BY <4>5, <4>7
        <5>2. printed' >= n /\ printed' # n
          BY <4>3, <5>1
        <5> QED BY <4>1, <4>7, <5>2
      <4> QED BY <4>6, <4>7
    <3>4. Walked(k)'
      BY <1>1, <2>1, <2>2, <2>3, <3>2, <3>3 DEF Walked
    <3> QED BY <1>1, <2>1, <2>2, <3>2, <3>4
  <2>4. CASE archive[k].name # filename
    <3>1. cur' = AR!NextHeader /\ UNCHANGED <<file, printed, apc>>
      BY <1>2, <1>6, <2>4 DEF AR!Search
    <3>2. k + 1 \in 1 .. Len(archive) /\ (k + 1) - 1 = k /\ k \in Nat \ {0}
      BY <1>2, <2>1
    <3>3. cur' = AR!AddressOf(k + 1)
      BY <1>1, <1>2, <2>1, <3>1, HeaderRead
    <3>4. Walked(k + 1)'
      BY <1>1, <2>1, <2>2, <2>4, <3>1, <3>2 DEF Walked
    <3> QED BY <2>1, <2>2, <3>1, <3>2, <3>3, <3>4
  <2> QED BY <2>3, <2>4
<1> QED BY <1>3, <1>4, <1>5, <1>6 DEF AR!Next

\* No walk loses its way, and each finds what there is.
LEMMA ArchiveSafe == ASSUME ArchiveInv PROVE AR!WalksRight
<1> USE DEF ArchiveInv
<1>1. PICK k \in 1 .. Len(archive) : cur = AR!AddressOf(k) /\ Walked(k)
  OBVIOUS
<1>2. /\ cur \in AR!Headers /\ Len(archive) \in Nat \ {0}
      /\ DOMAIN archive = 1 .. Len(archive)
      /\ archive[Len(archive)].name # filename
  <2>1. Len(archive) \in Nat \ {0} /\ DOMAIN archive = 1 .. Len(archive)
        /\ \A n \in 1 .. Len(archive) : archive[n].name = TRAILER <=> n = Len(archive)
    BY ArchiveShape
  <2>2. Len(archive) \in 1 .. Len(archive)
    <3>1. PICK l : l = Len(archive)
      OBVIOUS
    <3>2. l \in Nat \ {0}
      BY <2>1, <3>1
    <3>3. l \in 1 .. l
      BY <3>2
    <3> QED BY <3>1, <3>3
  <2>3. archive[Len(archive)].name # filename
    BY <2>1, <2>2, ArchivesAssumption
  <2>4. cur \in AR!Headers
    BY <1>1, EntryAt
  <2> QED BY <2>1, <2>3, <2>4
<1>3. CASE apc = "done" /\ reader = "initrd_list"
  BY <1>1, <1>2, <1>3 DEF AR!WalksRight, Walked, LineOf
<1>4. CASE apc = "done" /\ reader # "initrd_list"
  <2> DEFINE Named == AR!EntriesNamed(filename)
  <2>1. Named = {n \in 1 .. Len(archive) : archive[n].name = filename}
    BY <1>2 DEF AR!EntriesNamed
  <2> HIDE DEF Named
  <2>2. CASE archive[k].name # filename
    <3>1. k = Len(archive) /\ file = 0 /\ printed = 0
      BY <1>1, <1>4, <2>2 DEF Walked
    <3>2. Named = {}
      <4>1. \A n \in 1 .. (k - 1) : archive[n].name # filename
        BY <1>1, <1>4 DEF Walked
      <4>2. \A n \in 1 .. Len(archive) : n = k \/ n \in 1 .. (k - 1)
        <5>1. k = Len(archive) /\ Len(archive) \in Nat
          BY <1>2, <3>1
        <5> QED BY <5>1
      <4> QED BY <2>1, <2>2, <4>1, <4>2
    <3> QED BY <1>2, <1>4, <3>1, <3>2 DEF AR!WalksRight, Named
  <2>3. CASE archive[k].name = filename
    <3>1. k \in Named /\ \A n \in Named : k <= n
      <4>1. \A n \in 1 .. (k - 1) : archive[n].name # filename
        BY <1>1, <1>4 DEF Walked
      <4>2. \A n \in 1 .. Len(archive) : k <= n \/ n \in 1 .. (k - 1)
        BY <1>2
      <4> QED BY <2>1, <2>3, <4>1, <4>2
    <3>2. Named \subseteq Int
      BY <1>2, <2>1
    <3>3. AR!Min(Named) = k
      <4>1. PICK m : m = AR!Min(Named)
        OBVIOUS
      <4>2. m \in Named /\ \A n \in Named : m <= n
        BY <3>1, <4>1 DEF AR!Min
      <4> QED BY <3>1, <3>2, <4>1, <4>2
    <3>4. /\ file = AR!AddressOf(k) + AR!align4(HEADER + archive[k].namesize)
          /\ reader = "initrd_cat" =>
               /\ printed >= archive[k].filesize
               /\ printed = archive[k].filesize <=> (archive[k].filesize % 4) # 0
      BY <1>1, <1>2, <1>4, <2>3 DEF Walked
    <3> QED BY <1>2, <1>4, <3>1, <3>3, <3>4 DEF AR!WalksRight, Named
  <2> QED BY <2>2, <2>3
<1>5. CASE apc # "done"
  BY <1>2, <1>5 DEF AR!WalksRight
<1> QED BY <1>3, <1>4, <1>5

-----------------------------------------------------------------------------
(* One program at a time *)

\* Each program keeps its own invariant; the boot's variables stay as they are
\* in the others.
OneInv ==
  /\ program = "DeviceTree" => TreeInv /\ WalkInv
  /\ program = "Archive" => ArchiveInv
  /\ program = "HigherHalf" => BootInv
  /\ program = "FrameBuffer" => FrameInv
  /\ program # "HigherHalf" => satp = FALSE /\ pc = Idle

\* Whichever program runs, every step of it keeps its invariant.
THEOREM ProgramsInductive == SpecOfOne => []OneInv
<1>1. InitOfOne => OneInv
  BY InitTree, InitWalk, InitArchive, InitBoot, InitFrame DEF InitOfOne, OneInv, BootIdle
<1>2. OneInv /\ [NextOfOne]_allVars => OneInv'
  <2> SUFFICES ASSUME OneInv, [NextOfOne]_allVars PROVE OneInv'
    OBVIOUS
  <2>1. CASE OnlyTree /\ DT!Next
    <3>1. program = "DeviceTree" /\ program' = program /\ UNCHANGED vars
      BY <2>1 DEF OnlyTree
    <3>2. TreeInv' /\ WalkInv'
      BY <2>1, <3>1, TreeStep, WalkStep DEF OneInv
    <3> QED BY <3>1, <3>2 DEF OneInv, vars
  <2>2. CASE OnlyArchive /\ AR!Next
    <3>1. program = "Archive" /\ program' = program /\ UNCHANGED vars
      BY <2>2 DEF OnlyArchive
    <3>2. ArchiveInv'
      BY <2>2, <3>1, ArchiveStep DEF OneInv
    <3> QED BY <3>1, <3>2 DEF OneInv, vars
  <2>3. CASE OnlyBoot /\ Next
    <3>1. program = "HigherHalf" /\ program' = program
      BY <2>3 DEF OnlyBoot
    <3>2. BootInv'
      BY <2>3, <3>1, BootStep DEF OneInv
    <3> QED BY <3>1, <3>2 DEF OneInv
  <2>4. CASE OnlyFrame /\ FB!Next
    <3>1. program = "FrameBuffer" /\ program' = program /\ UNCHANGED vars
      BY <2>4 DEF OnlyFrame
    <3>2. FrameInv'
      BY <2>4, <3>1, FrameStep DEF OneInv
    <3> QED BY <3>1, <3>2 DEF OneInv, vars
  <2>5. CASE (OnlyUart /\ PU!Next) \/ (OnlyFwCfg /\ FC!Next)
    <3>1. program \in {"PolledUart", "FwCfg"} /\ program' = program /\ UNCHANGED vars
      BY <2>5 DEF OnlyUart, OnlyFwCfg
    <3> QED BY <3>1 DEF OneInv, vars
  <2>6. CASE UNCHANGED allVars
    <3>1. /\ program' = program /\ UNCHANGED treeVars /\ UNCHANGED archiveVars
          /\ UNCHANGED vars /\ UNCHANGED frameVars
      BY <2>6 DEF allVars
    <3>2. satp' = satp /\ pc' = pc
      BY <3>1 DEF vars
    <3> QED BY <3>1, <3>2, TreeStep, WalkStep, ArchiveStep, BootStep, FrameStep DEF OneInv
  <2> QED BY <2>1, <2>2, <2>3, <2>4, <2>5, <2>6 DEF NextOfOne
<1> QED BY <1>1, <1>2, PTL DEF SpecOfOne

\* fdt_path_offset returns the first node that the path names, wherever the
\* other nodes are nested, and -1 if there is none.
THEOREM AlwaysFindsFirstMatch == SpecOfOne => []FindsFirstMatch
<1>1. OneInv => FindsFirstMatch
  BY WalkSafe DEF OneInv, FindsFirstMatch
<1> QED BY <1>1, ProgramsInductive, PTL

\* fdt_getprop finds the property of the node itself.
THEOREM AlwaysGetsProperty == SpecOfOne => []GetsProperty
<1>1. OneInv => GetsProperty
  BY TreeSafe DEF OneInv, GetsProperty
<1> QED BY <1>1, ProgramsInductive, PTL

\* No walk over an archive loses its way, and each finds what there is.
THEOREM AlwaysWalksRight == SpecOfOne => []WalksRight
<1>1. OneInv => WalksRight
  BY ArchiveSafe DEF OneInv, WalksRight
<1> QED BY <1>1, ProgramsInductive, PTL

\* While the kernel sleeps, all of a frame is in memory.
THEOREM AlwaysFrameShown == SpecOfOne => []FrameShown
<1>1. OneInv => FrameShown
  BY FrameSafe DEF OneInv, FrameShown
<1> QED BY <1>1, ProgramsInductive, PTL

\* From the write to satp on, the image and the stack are mapped where the
\* processor uses them, in every step of setup_vm, _start and drop_identity_map.
THEOREM AlwaysBootRuns == SpecOfOne => []BootRuns
<1>1. OneInv => BootRuns
  BY BootSafe DEF OneInv, BootRuns
<1> QED BY <1>1, ProgramsInductive, PTL

\* When start_kernel runs, nothing is left of the lower map, in the tables or
\* in the cache; the UART and memory from the kernel's superpage on are where
\* the kernel looks for them.
THEOREM AlwaysFinalMap == SpecOfOne => []FinalMap
<1>1. OneInv => FinalMap
  <2>1. program # "HigherHalf" => (OneInv => pc # "start_kernel")
    BY DEF OneInv, Idle
  <2> QED BY <2>1, BootEnds DEF OneInv, FinalMap
<1> QED BY <1>1, ProgramsInductive, PTL

-----------------------------------------------------------------------------
(* The file system of ex71 (Vfs): a program of its own, with state of its own *)

CONSTANTS
  MAX_FD,        \* descriptors
  DIR_ENTRIES,   \* files in a directory
  FILE_SIZE,     \* units of data in a file
  FilePaths,     \* paths that are opened
  Data           \* what a unit of data may be

VARIABLES request, answer, vpc, slot, node, rest, vnodes, table, heap

VF ==
  INSTANCE Vfs WITH
    ENTRIES <- DIR_ENTRIES, SIZE <- FILE_SIZE, Paths <- FilePaths,
    pc <- vpc, i <- slot, fdt <- table

PathNames == VF!Components
Vnodes ==
  [type : {"FS_DIR", "FS_FILE"}, name : PathNames \cup {""}, entry : Seq(Nat),
   data : Seq(Data)]

\* The root holds all files, each under a name of its own.
RootSound ==
  /\ vnodes \in Seq(Vnodes) /\ vnodes # << >>
  /\ vnodes[1].type = "FS_DIR"
  /\ Len(vnodes[1].entry) = Len(vnodes) - 1
  /\ \A k \in 1 .. (Len(vnodes) - 1) : vnodes[1].entry[k] = k + 1
  /\ \A n \in 2 .. Len(vnodes) :
       vnodes[n].type = "FS_FILE" /\ vnodes[n].entry = << >>
         /\ vnodes[n].name \in PathNames
  /\ \A m, n \in 2 .. Len(vnodes) : vnodes[m].name = vnodes[n].name => m = n

\* A file object belongs to one descriptor; its position lies in the file.
Objects == [vnode : DOMAIN vnodes, f_pos : Nat]
TableSound ==
  /\ IsFiniteSet(DOMAIN heap) /\ DOMAIN heap \subseteq Nat \ {0}
  /\ heap \in [DOMAIN heap -> Objects]
  /\ \A o \in DOMAIN heap : heap[o].f_pos <= Len(vnodes[heap[o].vnode].data)
  /\ table \in [VF!Promise!Fds -> {0} \cup DOMAIN heap]
  /\ \A c, d \in VF!Promise!Fds : table[c] = table[d] /\ table[c] # 0 => c = d

\* The paths of all files
Existing == {VF!PathOf(n) : n \in DOMAIN vnodes}

\* An open that fails whatever the descriptor
Hopeless ==
  request.creat /\ request.path \notin Existing /\ VF!dirname \notin Existing

\* vfs_lookup has followed p to node and has the rest before it.
Reached(p) ==
  node \in DOMAIN vnodes /\ rest \in Seq(PathNames) /\ VF!PathOf(node) \o rest = p

Lookups == {"lookup pathname", "lookup dirname"}
CallSound ==
  /\ vpc \in {"main", "open", "close", "read", "write", "undefined"} \cup Lookups
  /\ vpc # "main" => request \in VF!Promise!Requests
  /\ vpc \in {"open", "close", "read", "write"} => request.op = vpc
  /\ vpc \in {"open"} \cup Lookups =>
       /\ request.op = "open" /\ slot \in 0 .. MAX_FD
       /\ Hopeless \/ \A d \in 0 .. (slot - 1) : table[d] # 0
  /\ vpc \in Lookups => slot < MAX_FD /\ table[slot] = 0
  /\ vpc = "lookup pathname" => Reached(request.path)
  /\ vpc = "lookup dirname" =>
       request.creat /\ request.path \notin Existing /\ Reached(VF!dirname)

FilesInv == RootSound /\ TableSound /\ CallSound

\* What the promise speaks of
Contents == [p \in Existing |-> vnodes[VF!VnodeAt(p)].data]
OpenFiles ==
  [d \in 0 .. (MAX_FD - 1) |->
     IF table[d] = 0 THEN NONE
     ELSE [file |-> VF!PathOf(heap[table[d]].vnode), pos |-> heap[table[d]].f_pos]]

-----------------------------------------------------------------------------
\* No two files have the same path.
LEMMA FilePath ==
  ASSUME RootSound
  PROVE  /\ DOMAIN vnodes = 1 .. Len(vnodes) /\ Len(vnodes) \in Nat \ {0}
         /\ \A n \in DOMAIN vnodes : vnodes[n] \in Vnodes
         /\ VF!PathOf(1) = << >>
         /\ \A n \in 2 .. Len(vnodes) : VF!PathOf(n) = <<vnodes[n].name>>
         /\ \A m, n \in DOMAIN vnodes : VF!PathOf(m) = VF!PathOf(n) => m = n
         /\ \A n \in DOMAIN vnodes : VF!PathOf(n) \in Seq(PathNames)
<1>1. DOMAIN vnodes = 1 .. Len(vnodes) /\ Len(vnodes) \in Nat \ {0}
      /\ \A n \in DOMAIN vnodes : vnodes[n] \in Vnodes
  BY EmptySeq DEF RootSound
<1>2. VF!PathOf(1) = << >> /\ \A n \in 2 .. Len(vnodes) : VF!PathOf(n) = <<vnodes[n].name>>
  BY <1>1 DEF VF!PathOf
<1>3. \A n \in DOMAIN vnodes : VF!PathOf(n) \in Seq(PathNames)
  <2>1. VF!PathOf(1) \in Seq(PathNames)
    BY <1>2, EmptySeq
  <2>2. ASSUME NEW n \in 2 .. Len(vnodes) PROVE VF!PathOf(n) \in Seq(PathNames)
    <3>1. vnodes[n].name \in PathNames /\ VF!PathOf(n) = <<vnodes[n].name>>
      BY <1>2 DEF RootSound
    <3> QED BY <3>1
  <2> QED BY <1>1, <2>1, <2>2
<1>4. ASSUME NEW m \in DOMAIN vnodes, NEW n \in DOMAIN vnodes, VF!PathOf(m) = VF!PathOf(n)
      PROVE  m = n
  <2>1. Len(VF!PathOf(1)) = 0 /\ \A k \in 2 .. Len(vnodes) :
          Len(VF!PathOf(k)) = 1 /\ VF!PathOf(k)[1] = vnodes[k].name
    BY <1>2
  <2>2. (m = 1 /\ n = 1) \/ (m \in 2 .. Len(vnodes) /\ n \in 2 .. Len(vnodes))
    BY <1>1, <1>4, <2>1
  <2> QED BY <1>4, <2>1, <2>2 DEF RootSound
<1> QED BY <1>1, <1>2, <1>3, <1>4

\* Each file's contents are found at its path.
LEMMA ContentsAt ==
  ASSUME RootSound, NEW n \in DOMAIN vnodes
  PROVE  VF!PathOf(n) \in Existing /\ VF!VnodeAt(VF!PathOf(n)) = n
         /\ Contents[VF!PathOf(n)] = vnodes[n].data
<1>1. VF!PathOf(n) \in Existing
  BY DEF Existing
<1>2. PICK m : m = VF!VnodeAt(VF!PathOf(n))
  OBVIOUS
<1>3. m \in DOMAIN vnodes /\ VF!PathOf(m) = VF!PathOf(n)
  BY <1>2 DEF VF!VnodeAt
<1>4. m = n
  BY <1>3, FilePath
<1> QED BY <1>1, <1>2, <1>4 DEF Contents

\* The same after a step
PathsTell ==
  RootSound => \A n \in DOMAIN vnodes :
    VF!PathOf(n) \in Existing /\ Contents[VF!PathOf(n)] = vnodes[n].data
LEMMA PathsTellThen == PathsTell'
<1>1. PathsTell
  BY ContentsAt DEF PathsTell
<1> QED BY <1>1, PTL

\* Where no file has been touched, the contents are the same.
LEMMA SameContents ==
  ASSUME RootSound, vnodes' = vnodes
  PROVE  /\ RootSound' /\ Existing' = Existing /\ Contents' = Contents
         /\ \A n : VF!PathOf(n)' = VF!PathOf(n)
<1>1. RootSound'
  BY DEF RootSound
<1>2. \A n : VF!PathOf(n)' = VF!PathOf(n)
  BY DEF VF!PathOf
<1>3. Existing' = Existing
  BY <1>2 DEF Existing
<1>4. ASSUME NEW p \in Existing PROVE Contents'[p] = Contents[p]
  <2>1. PICK n \in DOMAIN vnodes : p = VF!PathOf(n)
    BY DEF Existing
  <2>2. Contents[p] = vnodes[n].data
    BY <2>1, ContentsAt
  <2>3. Contents'[p] = vnodes'[n].data
    BY <1>1, <1>2, <2>1, PathsTellThen DEF PathsTell
  <2> QED BY <2>2, <2>3
<1>5. Contents' = Contents
  BY <1>3, <1>4 DEF Contents
<1> QED BY <1>1, <1>2, <1>3, <1>5

\* A descriptor is in use when its entry is not 0.
LEMMA FreeFds ==
  ASSUME VF!VfsAssumption, RootSound, TableSound, NEW d \in VF!Promise!Fds
  PROVE  /\ OpenFiles[d] = NONE <=> table[d] = 0
         /\ table[d] # 0 =>
              /\ table[d] \in DOMAIN heap
              /\ heap[table[d]].vnode \in DOMAIN vnodes /\ heap[table[d]].f_pos \in Nat
              /\ OpenFiles[d] = [file |-> VF!PathOf(heap[table[d]].vnode),
                                 pos |-> heap[table[d]].f_pos]
<1>1. OpenFiles[d] = IF table[d] = 0 THEN NONE
                     ELSE [file |-> VF!PathOf(heap[table[d]].vnode),
                           pos |-> heap[table[d]].f_pos]
  BY DEF OpenFiles, VF!Promise!Fds
<1>2. ASSUME table[d] # 0
      PROVE  /\ table[d] \in DOMAIN heap
             /\ heap[table[d]].vnode \in DOMAIN vnodes /\ heap[table[d]].f_pos \in Nat
  BY <1>2 DEF TableSound, Objects
<1>3. ASSUME table[d] # 0 PROVE OpenFiles[d] # NONE
  <2>1. VF!PathOf(heap[table[d]].vnode) \in Seq(PathNames)
    BY <1>2, <1>3, FilePath
  <2> QED BY <1>1, <1>2, <1>3, <2>1 DEF VF!VfsAssumption, PathNames
<1> QED BY <1>1, <1>2, <1>3

-----------------------------------------------------------------------------
(* DescriptorTable, said of the state of Vfs *)

Unused == {d \in VF!Promise!Fds : OpenFiles[d] = NONE}
HeapSize == Cardinality(DOMAIN heap)

Answered(a) == vpc' = "main" /\ answer' = a /\ request' = request
Bound(p) ==
  /\ OpenFiles' = [OpenFiles EXCEPT ![VF!Promise!Min(Unused)] = [file |-> p, pos |-> 0]]
  /\ HeapSize' = HeapSize + 1
  /\ Answered(VF!Promise!Min(Unused))

\* Counted in Vfs as here
LEMMA CountedAlike ==
  \A S : VF!Cardinality(S) = Cardinality(S) /\ VF!Promise!Cardinality(S) = Cardinality(S)
BY DEF VF!Cardinality, VF!Promise!Cardinality, Cardinality

LEMMA PromisedOpen ==
  LET p == request.path
      exists == p \in DOMAIN Contents
      parent == VF!Promise!Front(p) \in DOMAIN Contents
  IN  VF!Promise!Open <=>
        /\ request.op = "open"
        /\ \/ /\ Unused = {} \/ (~exists /\ request.creat /\ ~parent)
              /\ Answered(-1)
              /\ Contents' = Contents /\ OpenFiles' = OpenFiles /\ HeapSize' = HeapSize
           \/ Unused # {} /\ exists /\ Bound(p) /\ Contents' = Contents
           \/ /\ Unused # {} /\ ~exists /\ request.creat /\ parent
              /\ IF VF!Promise!CanCreate(p)
                   THEN /\ Contents' = [q \in DOMAIN Contents \cup {p} |->
                                          IF q = p THEN << >> ELSE Contents[q]]
                        /\ Bound(p)
                   ELSE Bound(VF!Promise!Front(p)) /\ Contents' = Contents
BY DEF VF!Promise!Open, VF!Promise!Bind, Bound, VF!Promise!Answer, VF!Promise!Free, Answered,
       Unused, OpenFiles, HeapSize, Contents, Existing, VF!Cardinality, Cardinality

LEMMA PromisedClose ==
  VF!Promise!Close <=>
    /\ request.op = "close"
    /\ OpenFiles' = [OpenFiles EXCEPT ![request.fd] = NONE]
    /\ HeapSize' = HeapSize - (IF request.fd \in Unused THEN 0 ELSE 1)
    /\ Answered(IF request.fd \in Unused THEN -1 ELSE 0)
    /\ Contents' = Contents
BY DEF VF!Promise!Close, VF!Promise!Answer, VF!Promise!Free, Answered,
       Unused, OpenFiles, HeapSize, Contents, Existing, VF!Cardinality, Cardinality

LEMMA PromisedAccess ==
  LET d == request.fd
      p == OpenFiles[d].file
      at == OpenFiles[d].pos + 1
      Moved == OpenFiles' = [OpenFiles EXCEPT ![d].pos = at]
  IN  VF!Promise!Access <=>
        /\ request.op \in {"read", "write"}
        /\ \/ /\ d \in Unused \/ p = << >>
              /\ Answered(-1)
              /\ Contents' = Contents /\ OpenFiles' = OpenFiles
           \/ /\ d \notin Unused /\ p # << >>
              /\ IF request.op = "read"
                   THEN /\ Contents' = Contents
                        /\ IF at <= Len(Contents[p])
                             THEN Moved /\ Answered(Contents[p][at])
                             ELSE OpenFiles' = OpenFiles /\ Answered(0)
                   ELSE IF at <= FILE_SIZE
                     THEN /\ Contents' = [Contents EXCEPT ![p] =
                               SubSeq(@, 1, at - 1) \o <<request.data>>
                                 \o SubSeq(@, at + 1, Len(@))]
                          /\ Moved /\ Answered(1)
                     ELSE Contents' = Contents /\ OpenFiles' = OpenFiles /\ Answered(0)
        /\ HeapSize' = HeapSize
BY DEF VF!Promise!Access, VF!Promise!Answer, VF!Promise!Free, Answered, Unused,
       VF!Promise!ROOT,
       OpenFiles, HeapSize, Contents, Existing, VF!Cardinality, Cardinality

\* A step that the promise allows
Promised == [VF!Promise!Next]_(VF!Promise!vars)

LEMMA PromisedStutter ==
  ASSUME UNCHANGED <<request, answer, Contents, OpenFiles, HeapSize>>,
         vpc = "main" <=> vpc' = "main"
  PROVE  Promised
BY DEF Promised, VF!Promise!vars, OpenFiles, HeapSize, Contents, Existing, VF!Cardinality,
       Cardinality

LEMMA PromisedCall ==
  ASSUME UNCHANGED <<answer, Contents, OpenFiles, HeapSize>>,
         vpc = "main", vpc' # "main", request' \in VF!Promise!Requests
  PROVE  Promised
<1>1. VF!Promise!Call
  BY DEF VF!Promise!Call, OpenFiles, HeapSize, Contents, Existing, VF!Cardinality,
         Cardinality
<1> QED BY <1>1 DEF Promised, VF!Promise!Next

LEMMA PromisedAnswer ==
  ASSUME vpc # "main", VF!Promise!Open \/ VF!Promise!Close \/ VF!Promise!Access
  PROVE  Promised
BY DEF Promised, VF!Promise!Next, VF!Promise!Answers

-----------------------------------------------------------------------------
(* Every step keeps the invariant and is one of the promise. *)

LEMMA Untouched ==
  ASSUME RootSound, TableSound, UNCHANGED <<vnodes, heap, table>>
  PROVE  /\ RootSound' /\ TableSound'
         /\ Existing' = Existing /\ \A n : VF!PathOf(n)' = VF!PathOf(n)
         /\ Contents' = Contents /\ OpenFiles' = OpenFiles /\ HeapSize' = HeapSize
<1>1. RootSound' /\ Existing' = Existing /\ Contents' = Contents
      /\ \A n : VF!PathOf(n)' = VF!PathOf(n)
  BY SameContents
<1>2. TableSound'
  BY DEF TableSound, Objects, VF!Promise!Fds
<1>3. OpenFiles' = OpenFiles
  BY <1>1 DEF OpenFiles
<1>4. HeapSize' = HeapSize
  BY DEF HeapSize, Cardinality
<1> QED BY <1>1, <1>2, <1>3, <1>4

LEMMA PathsAreSeqs ==
  ASSUME VF!VfsAssumption, request \in VF!Promise!Requests, request.op = "open"
  PROVE  request.path \in Seq(PathNames) /\ request.path \in FilePaths
         /\ request.creat \in BOOLEAN
BY DEF VF!VfsAssumption, VF!Promise!Requests, PathNames

LEMMA FilesInitially ==
  ASSUME VF!VfsAssumption, VF!Init PROVE FilesInv /\ VF!Promise!Init
<1> DEFINE root == [type |-> "FS_DIR", name |-> "", entry |-> << >>, data |-> << >>]
<1>1. /\ request = NONE /\ answer = 0 /\ vpc = "main" /\ slot = 0
      /\ vnodes = <<root>> /\ table = [d \in 0 .. (MAX_FD - 1) |-> 0] /\ heap = << >>
  BY DEF VF!Init
<1>2. root \in Vnodes /\ root.type = "FS_DIR" /\ root.entry = << >> /\ root.data = << >>
  BY EmptySeq DEF Vnodes
<1> HIDE DEF root
<1>3. Len(vnodes) = 1 /\ vnodes[1] = root /\ vnodes \in Seq(Vnodes) /\ DOMAIN vnodes = {1}
      /\ vnodes # << >>
  BY <1>1, <1>2
<1>4. RootSound
  <2>1. Len(root.entry) = 0
    BY <1>2, EmptySeq
  <2>2. 2 .. Len(vnodes) = {} /\ 1 .. (Len(vnodes) - 1) = {} /\ Len(vnodes) - 1 = 0
    BY <1>3
  <2> QED BY <1>2, <1>3, <2>1, <2>2 DEF RootSound
<1>5. DOMAIN heap = {}
  BY <1>1
<1>6. IsFiniteSet(DOMAIN heap) /\ HeapSize = 0
  BY <1>5, FS_EmptySet DEF HeapSize
<1>7. TableSound
  <2>1. heap \in [DOMAIN heap -> Objects]
    BY <1>1, <1>5
  <2>2. table \in [VF!Promise!Fds -> {0} \cup DOMAIN heap]
        /\ \A d \in VF!Promise!Fds : table[d] = 0
    BY <1>1 DEF VF!Promise!Fds
  <2> QED BY <1>5, <1>6, <2>1, <2>2 DEF TableSound
<1>8. CallSound
  BY <1>1 DEF CallSound, Lookups
<1>9. Contents = [p \in {<< >>} |-> << >>]
  <2>1. VF!PathOf(1) = << >>
    BY <1>4, FilePath
  <2>2. Existing = {<< >>}
    BY <1>3, <2>1 DEF Existing
  <2>3. Contents[<< >>] = << >>
    BY <1>2, <1>3, <1>4, <2>1, ContentsAt
  <2> QED BY <2>2, <2>3 DEF Contents
<1>10. OpenFiles = [d \in VF!Promise!Fds |-> NONE]
  BY <1>1 DEF OpenFiles, VF!Promise!Fds
<1>11. VF!Promise!Init <=>
         /\ request = NONE /\ (vpc = "main") = TRUE /\ answer = 0
         /\ Contents = [p \in {<< >>} |-> << >>]
         /\ OpenFiles = [d \in VF!Promise!Fds |-> NONE] /\ HeapSize = 0
  BY DEF VF!Promise!Init, VF!Promise!ROOT, Contents, Existing, OpenFiles, HeapSize,
         VF!Cardinality, Cardinality
<1> QED BY <1>1, <1>4, <1>6, <1>7, <1>8, <1>9, <1>10, <1>11 DEF FilesInv

LEMMA FilesCall ==
  ASSUME VF!VfsAssumption, FilesInv, VF!Call PROVE FilesInv' /\ Promised
<1> USE DEF VF!Call
<1>1. /\ RootSound' /\ TableSound' /\ Contents' = Contents /\ OpenFiles' = OpenFiles
      /\ HeapSize' = HeapSize
  BY Untouched DEF FilesInv
<1>2. request'.op \in {"open", "close", "read", "write"}
  BY DEF VF!Promise!Requests
<1>3. CallSound'
  <2>1. slot' \in 0 .. MAX_FD /\ 0 .. (slot' - 1) = {}
    BY DEF VF!VfsAssumption
  <2> QED BY <1>2, <2>1 DEF CallSound, Lookups, VF!Promise!Requests, VF!Promise!Fds
<1>4. Promised
  BY <1>1, <1>2, PromisedCall
<1> QED BY <1>1, <1>3, <1>4 DEF FilesInv

LEMMA FilesOpen ==
  ASSUME VF!VfsAssumption, FilesInv, VF!my_open PROVE FilesInv' /\ Promised
<1>1. /\ RootSound' /\ TableSound' /\ Contents' = Contents /\ OpenFiles' = OpenFiles
      /\ HeapSize' = HeapSize /\ Existing' = Existing
      /\ \A n : VF!PathOf(n)' = VF!PathOf(n)
      /\ UNCHANGED <<vnodes, table, heap>>
  BY Untouched DEF FilesInv, VF!my_open
<1>2. /\ vpc = "open"
      /\ request \in VF!Promise!Requests /\ request.op = "open" /\ slot \in 0 .. MAX_FD
      /\ Hopeless \/ \A d \in 0 .. (slot - 1) : table[d] # 0
  BY DEF FilesInv, CallSound, VF!my_open
<1>3. request.path \in Seq(PathNames)
  BY <1>2, PathsAreSeqs
<1>7. MAX_FD \in Nat \ {0} /\ slot \in Nat
  BY <1>2 DEF VF!VfsAssumption
<1>4. CASE slot = MAX_FD /\ VF!Return(-1)
  <2> USE DEF VF!Return
  <2>1. CallSound'
    BY <1>4 DEF CallSound, Lookups
  <2>2. ASSUME ~Hopeless PROVE Unused = {}
    <3>1. \A d \in VF!Promise!Fds : table[d] # 0
      BY <1>2, <1>4, <2>2 DEF VF!Promise!Fds
    <3> QED BY <3>1, FreeFds DEF Unused, FilesInv
  <2>3. ASSUME Hopeless
        PROVE  request.path \notin DOMAIN Contents /\ request.creat
               /\ VF!Promise!Front(request.path) \notin DOMAIN Contents
    BY <2>3 DEF Hopeless, VF!dirname, VF!Front, VF!Promise!Front, Contents
  <2>4. Answered(-1)
    BY <1>4 DEF Answered
  <2>5. VF!Promise!Open
    BY <1>1, <1>2, <2>2, <2>3, <2>4, PromisedOpen
  <2> QED BY <1>1, <1>2, <2>1, <2>5, PromisedAnswer DEF FilesInv
<1>5. CASE slot < MAX_FD /\ table[slot] # 0 /\ slot' = slot + 1
           /\ UNCHANGED <<request, answer, vpc, node, rest>>
  <2>1. slot' \in 0 .. MAX_FD
        /\ \A d \in 0 .. (slot' - 1) : d \in 0 .. (slot - 1) \/ d = slot
    BY <1>5, <1>7
  <2>2. Hopeless' = Hopeless
    BY <1>1, <1>5 DEF Hopeless, VF!dirname
  <2>3. CallSound'
    BY <1>1, <1>2, <1>5, <2>1, <2>2 DEF CallSound, Lookups
  <2> QED BY <1>1, <1>2, <1>5, <2>3, PromisedStutter DEF FilesInv
<1>6. CASE slot < MAX_FD /\ table[slot] = 0 /\ VF!vfs_lookup(request.path, "lookup pathname")
           /\ UNCHANGED <<request, answer, slot>>
  <2> USE DEF VF!vfs_lookup
  <2>1. Hopeless' = Hopeless
    BY <1>1, <1>6 DEF Hopeless, VF!dirname
  <2>2. Reached(request.path)'
    <3>1. VF!PathOf(1) = << >> /\ 1 \in DOMAIN vnodes
      <4>1. VF!PathOf(1) = << >> /\ DOMAIN vnodes = 1 .. Len(vnodes)
            /\ Len(vnodes) \in Nat \ {0}
        BY FilePath DEF FilesInv
      <4> QED BY <4>1
    <3>2. << >> \o request.path = request.path
      BY <1>3, ConcatEmptySeq
    <3>3. vnodes' = vnodes /\ node' = 1 /\ rest' = request.path /\ request' = request
      BY <1>1, <1>6
    <3>4. VF!PathOf(1)' = << >>
      BY <1>1, <3>1
    <3> QED BY <1>3, <3>1, <3>2, <3>3, <3>4 DEF Reached
  <2>3. CallSound'
    BY <1>1, <1>2, <1>6, <2>1, <2>2 DEF CallSound, Lookups
  <2> QED BY <1>1, <1>2, <1>6, <2>3, PromisedStutter DEF FilesInv
<1> QED BY <1>4, <1>5, <1>6 DEF VF!my_open

\* Only the root has entries, one for each file.
LEMMA EntriesNamed ==
  ASSUME RootSound, NEW n \in DOMAIN vnodes, NEW c
  PROVE  /\ n # 1 => VF!Named(n, c) = {}
         /\ \A m \in 2 .. Len(vnodes) : vnodes[m].name = c => VF!Named(1, c) # {}
         /\ VF!Named(n, c) # {} =>
              /\ VF!tmpfs_lookup(n, c) \in 2 .. Len(vnodes)
              /\ vnodes[VF!tmpfs_lookup(n, c)].name = c
<1>1. DOMAIN vnodes = 1 .. Len(vnodes) /\ Len(vnodes) \in Nat \ {0}
      /\ vnodes[n] \in Vnodes /\ vnodes[1] \in Vnodes
  <2>1. DOMAIN vnodes = 1 .. Len(vnodes) /\ Len(vnodes) \in Nat \ {0}
        /\ \A m \in DOMAIN vnodes : vnodes[m] \in Vnodes
    BY FilePath
  <2>2. 1 \in DOMAIN vnodes
    BY <2>1
  <2> QED BY <2>1, <2>2
<1>2. DOMAIN vnodes[1].entry = 1 .. (Len(vnodes) - 1)
      /\ \A k \in 1 .. (Len(vnodes) - 1) : vnodes[1].entry[k] = k + 1
  <2>1. vnodes[1].entry \in Seq(Nat)
    BY <1>1 DEF Vnodes
  <2> QED BY <2>1 DEF RootSound
<1>3. ASSUME n # 1 PROVE VF!Named(n, c) = {}
  <2>1. n \in 2 .. Len(vnodes)
    BY <1>1, <1>3
  <2>2. vnodes[n].entry = << >> /\ DOMAIN << >> = {}
    BY <2>1 DEF RootSound
  <2> QED BY <2>2 DEF VF!Named
<1>4. ASSUME NEW m \in 2 .. Len(vnodes), vnodes[m].name = c PROVE VF!Named(1, c) # {}
  <2>1. m - 1 \in 1 .. (Len(vnodes) - 1) /\ (m - 1) + 1 = m
    BY <1>1
  <2>2. m - 1 \in VF!Named(1, c)
    BY <1>2, <1>4, <2>1 DEF VF!Named
  <2> QED BY <2>2
<1>5. ASSUME VF!Named(n, c) # {}
      PROVE  /\ VF!tmpfs_lookup(n, c) \in 2 .. Len(vnodes)
             /\ vnodes[VF!tmpfs_lookup(n, c)].name = c
  <2>1. n = 1
    BY <1>3, <1>5
  <2>2. VF!Named(1, c) \in SUBSET Nat /\ VF!Named(1, c) # {}
    BY <1>2, <1>5, <2>1 DEF VF!Named
  <2>3. \E k \in VF!Named(1, c) : \A m \in VF!Named(1, c) : k <= m
    BY <2>2, LeastNumber
  <2>4. PICK k : k = VF!Min(VF!Named(1, c))
    OBVIOUS
  <2>5. k \in VF!Named(1, c)
    BY <2>3, <2>4 DEF VF!Min
  <2>6. k \in 1 .. (Len(vnodes) - 1) /\ vnodes[vnodes[1].entry[k]].name = c
    BY <1>2, <2>5 DEF VF!Named
  <2>7. VF!tmpfs_lookup(n, c) = k + 1 /\ vnodes[k + 1].name = c
    BY <1>2, <2>1, <2>4, <2>6 DEF VF!tmpfs_lookup
  <2> QED BY <1>1, <2>6, <2>7
<1> QED BY <1>3, <1>4, <1>5

\* Where a lookup ends: at the file with the path, or with no such file.
LEMMA LookupEnds ==
  ASSUME RootSound, NEW p, Reached(p)
  PROVE  /\ VF!LookupSucceeds => p = VF!PathOf(node) /\ p \in Existing
         /\ VF!LookupFails => p \notin Existing
<1>1. /\ DOMAIN vnodes = 1 .. Len(vnodes) /\ Len(vnodes) \in Nat \ {0}
      /\ VF!PathOf(1) = << >>
      /\ \A n \in 2 .. Len(vnodes) : VF!PathOf(n) = <<vnodes[n].name>>
      /\ VF!PathOf(node) \in Seq(PathNames)
  BY FilePath DEF Reached
<1>2. node \in DOMAIN vnodes /\ rest \in Seq(PathNames) /\ p = VF!PathOf(node) \o rest
  BY DEF Reached
<1>3. ASSUME VF!LookupSucceeds PROVE p = VF!PathOf(node) /\ p \in Existing
  <2>1. p = VF!PathOf(node)
    BY <1>1, <1>2, <1>3, ConcatEmptySeq DEF VF!LookupSucceeds
  <2> QED BY <1>2, <2>1 DEF Existing
<1>4. ASSUME VF!LookupFails, NEW n \in DOMAIN vnodes, p = VF!PathOf(n) PROVE FALSE
  <2>1. rest # << >> /\ VF!Named(node, Head(rest)) = {}
    BY <1>4 DEF VF!LookupFails
  <2>2. Len(rest) \in Nat \ {0} /\ Head(rest) = rest[1]
    BY <1>2, <2>1
  <2>3. Len(p) = Len(VF!PathOf(node)) + Len(rest)
    BY <1>1, <1>2
  <2>4. n = 1 => Len(p) = 0
    BY <1>1, <1>4
  <2>5. n # 1 => n \in 2 .. Len(vnodes) /\ Len(p) = 1 /\ p[1] = vnodes[n].name
    BY <1>1, <1>4
  <2>6. node # 1 => Len(VF!PathOf(node)) = 1
    BY <1>1, <1>2
  <2>7. Len(VF!PathOf(1)) = 0
    BY <1>1
  <2>8. node = 1 /\ n # 1
    BY <2>2, <2>3, <2>4, <2>5, <2>6, <2>7
  <2>9. p = rest
    BY <1>1, <1>2, <2>8, ConcatEmptySeq
  <2>10. vnodes[n].name = Head(rest) /\ n \in 2 .. Len(vnodes)
    BY <2>2, <2>5, <2>8, <2>9
  <2> QED BY <1>2, <2>1, <2>8, <2>10, EntriesNamed
<1> QED BY <1>3, <1>4 DEF Existing

LEMMA FilesLookup ==
  ASSUME VF!VfsAssumption, FilesInv, VF!LookupGoesOn PROVE FilesInv' /\ Promised
<1>1. /\ RootSound' /\ TableSound' /\ Contents' = Contents /\ OpenFiles' = OpenFiles
      /\ HeapSize' = HeapSize /\ Existing' = Existing
      /\ \A n : VF!PathOf(n)' = VF!PathOf(n)
      /\ UNCHANGED <<vnodes, table, heap>>
  BY Untouched DEF FilesInv, VF!LookupGoesOn
<1>2. /\ vpc \in Lookups /\ UNCHANGED <<request, answer, vpc, slot>>
      /\ rest # << >> /\ VF!Named(node, Head(rest)) # {}
      /\ node' = VF!tmpfs_lookup(node, Head(rest)) /\ rest' = Tail(rest)
  BY DEF VF!LookupGoesOn, Lookups
<1>3. ASSUME NEW p, Reached(p)
      PROVE  node' \in DOMAIN vnodes /\ rest' \in Seq(PathNames)
             /\ VF!PathOf(node') \o rest' = p
  <2>1. node \in DOMAIN vnodes /\ rest \in Seq(PathNames) /\ p = VF!PathOf(node) \o rest
    BY <1>3 DEF Reached
  <2>2. node = 1 /\ node' \in 2 .. Len(vnodes) /\ vnodes[node'].name = Head(rest)
    BY <1>2, <2>1, EntriesNamed DEF FilesInv
  <2>3. VF!PathOf(1) = << >> /\ VF!PathOf(node') = <<Head(rest)>>
        /\ DOMAIN vnodes = 1 .. Len(vnodes)
    BY <2>2, FilePath DEF FilesInv
  <2>4. p = rest
    BY <2>1, <2>2, <2>3, ConcatEmptySeq
  <2>5. <<Head(rest)>> \o Tail(rest) = rest /\ Tail(rest) \in Seq(PathNames)
    <3>1. Len(rest) \in Nat \ {0} /\ 1 \in 1 .. Len(rest) /\ Len(rest) \in 1 .. Len(rest)
          /\ Head(rest) = rest[1] /\ 1 + 1 = 2
      BY <1>2, <2>1
    <3>2. rest = <<rest[1]>> \o SubSeq(rest, 2, Len(rest))
      BY <2>1, <3>1, SubSeqFull, SubSeqRecursiveFirst
    <3>3. Tail(rest) = SubSeq(rest, 2, Len(rest))
      BY <1>2, <2>1, TailIsSubSeq
    <3>4. Tail(rest) \in Seq(PathNames)
      BY <1>2, <2>1, HeadTailProperties
    <3> QED BY <3>1, <3>2, <3>3, <3>4
  <2>6. node' \in DOMAIN vnodes
    BY <2>2, <2>3
  <2> QED BY <1>2, <2>3, <2>4, <2>5, <2>6
<1>4. \A p : Reached(p) => Reached(p)'
  BY <1>1, <1>3 DEF Reached
<1>5. CallSound'
  <2>1. Hopeless' = Hopeless /\ VF!dirname' = VF!dirname
    BY <1>1, <1>2 DEF Hopeless, VF!dirname
  <2>2. vpc = "lookup pathname" => Reached(request.path)'
    BY <1>2, <1>4 DEF FilesInv, CallSound
  <2>3. vpc = "lookup dirname" => Reached(VF!dirname)'
    BY <1>2, <1>4, <2>1 DEF FilesInv, CallSound
  <2> QED BY <1>1, <1>2, <2>1, <2>2, <2>3 DEF FilesInv, CallSound
<1> QED BY <1>1, <1>2, <1>5, PromisedStutter DEF FilesInv, Lookups

\* malloc gives memory that is not in use.
LEMMA Malloc == ASSUME TableSound PROVE VF!malloc \in Nat \ {0} /\ VF!malloc \notin DOMAIN heap
<1> DEFINE N == Cardinality(DOMAIN heap) + 1
           T == (1 .. N) \ DOMAIN heap
<1>1. IsFiniteSet(DOMAIN heap) /\ N \in Nat \ {0} /\ Cardinality(DOMAIN heap) \in Nat
      /\ Cardinality(DOMAIN heap) < N
  BY FS_CardinalityType DEF TableSound
<1> HIDE DEF N
<1>2. IsFiniteSet(1 .. N) /\ Cardinality(1 .. N) = N
  BY <1>1, FS_Interval
<1>3. T # {}
  <2> SUFFICES ASSUME T = {} PROVE FALSE
    OBVIOUS
  <2>1. 1 .. N \in SUBSET DOMAIN heap
    OBVIOUS
  <2>2. Cardinality(1 .. N) <= Cardinality(DOMAIN heap)
    BY <1>1, <2>1, FS_Subset
  <2> QED BY <1>1, <1>2, <2>2
<1>4. T \in SUBSET Nat
  OBVIOUS
<1>5. \E k \in T : \A m \in T : k <= m
  <2> HIDE DEF T
  <2> QED BY <1>3, <1>4, LeastNumber
<1>6. PICK k : k = VF!Min(T)
  OBVIOUS
<1>7. k \in T
  BY <1>5, <1>6 DEF VF!Min
<1>8. VF!malloc = k
  BY <1>6, CountedAlike DEF VF!malloc, N
<1> QED BY <1>1, <1>7, <1>8

\* The lowest free descriptor is the one that my_open's loop has stopped at.
LEMMA LowestFree ==
  ASSUME VF!VfsAssumption, RootSound, TableSound,
         NEW s \in VF!Promise!Fds, table[s] = 0, \A d \in 0 .. (s - 1) : table[d] # 0
  PROVE  Unused # {} /\ VF!Promise!Min(Unused) = s
<1>1. MAX_FD \in Nat /\ s \in Nat /\ \A d \in VF!Promise!Fds : d \in Nat
  BY DEF VF!VfsAssumption, VF!Promise!Fds
<1>2. s \in Unused
  BY FreeFds DEF Unused
<1>3. ASSUME NEW d \in Unused PROVE s <= d
  <2>1. d \in VF!Promise!Fds /\ table[d] = 0
    BY <1>3, FreeFds DEF Unused
  <2>2. d \notin 0 .. (s - 1) /\ d \in Nat
    BY <1>1, <2>1
  <2> QED BY <1>1, <2>2
<1>4. PICK m : m = VF!Promise!Min(Unused)
  OBVIOUS
<1>5. m \in Unused /\ \A d \in Unused : m <= d
  BY <1>2, <1>3, <1>4 DEF VF!Promise!Min
<1>6. m \in Nat
  BY <1>1, <1>5 DEF Unused
<1> QED BY <1>1, <1>2, <1>3, <1>4, <1>5, <1>6

\* A new object for a file, whether it is there or has just been made
LEMMA FilesBind ==
  ASSUME VF!VfsAssumption, RootSound, TableSound, RootSound', NEW n \in DOMAIN vnodes',
         \A m \in DOMAIN vnodes : /\ m \in DOMAIN vnodes' /\ VF!PathOf(m)' = VF!PathOf(m)
                                  /\ vnodes'[m].data = vnodes[m].data,
         slot \in VF!Promise!Fds, table[slot] = 0, \A d \in 0 .. (slot - 1) : table[d] # 0,
         VF!OpenVnode(n), NEW p, p = VF!PathOf(n)'
  PROVE  TableSound' /\ Unused # {} /\ Bound(p) /\ vpc' = "main"
         /\ request' = request
<1> DEFINE new == VF!malloc
           object == [vnode |-> n, f_pos |-> 0]
<1>1. new \in Nat \ {0} /\ new \notin DOMAIN heap
  BY Malloc
<1>2. /\ heap' = [o \in DOMAIN heap \cup {new} |-> IF o = new THEN object ELSE heap[o]]
      /\ table' = [table EXCEPT ![slot] = new]
      /\ vpc' = "main" /\ answer' = slot /\ request' = request
  BY DEF VF!OpenVnode, VF!Return
<1> HIDE DEF new
<1>3. DOMAIN heap' = DOMAIN heap \cup {new} /\ heap'[new] = object
      /\ \A o \in DOMAIN heap : heap'[o] = heap[o]
  BY <1>1, <1>2
<1>4. table \in [VF!Promise!Fds -> {0} \cup DOMAIN heap]
  BY DEF TableSound
<1>5. table'[slot] = new /\ \A d \in VF!Promise!Fds : d # slot => table'[d] = table[d]
  BY <1>2, <1>4
<1>6. object \in Objects' /\ object.vnode = n /\ object.f_pos = 0
  BY DEF Objects
<1>7. \A m \in DOMAIN vnodes' : Len(vnodes'[m].data) \in Nat
  <2>1. vnodes' \in Seq(Vnodes)
    BY DEF RootSound, Vnodes
  <2>2. \A m \in DOMAIN vnodes' : vnodes'[m] \in Vnodes
    BY <2>1
  <2>3. \A m \in DOMAIN vnodes' : vnodes'[m].data \in Seq(Data)
    BY <2>2 DEF Vnodes
  <2> QED BY <2>3, LenProperties
<1> HIDE DEF object
<1>8. TableSound'
  <2>1. IsFiniteSet(DOMAIN heap') /\ DOMAIN heap' \subseteq Nat \ {0}
    BY <1>1, <1>3, FS_AddElement DEF TableSound
  <2>2. ASSUME NEW o \in DOMAIN heap'
        PROVE  heap'[o] \in Objects' /\ heap'[o].f_pos <= Len(vnodes'[heap'[o].vnode].data)
    <3>1. CASE o = new
      <4>1. heap'[o].f_pos = 0 /\ heap'[o].vnode = n
        BY <1>3, <1>6, <3>1
      <4>2. 0 <= Len(vnodes'[n].data)
        BY <1>7
      <4> QED BY <1>3, <1>6, <3>1, <4>1, <4>2
    <3>2. CASE o \in DOMAIN heap
      <4>1. heap[o] \in Objects /\ heap[o].f_pos <= Len(vnodes[heap[o].vnode].data)
        BY <3>2 DEF TableSound
      <4>2. heap[o].vnode \in DOMAIN vnodes
        BY <4>1 DEF Objects
      <4>3. heap[o] \in Objects'
        BY <4>1, <4>2 DEF Objects
      <4> QED BY <1>3, <3>2, <4>1, <4>2, <4>3
    <3> QED BY <1>3, <3>1, <3>2
  <2>3. heap' \in [DOMAIN heap' -> Objects']
    BY <1>2, <1>3, <2>2
  <2>4. table' \in [VF!Promise!Fds -> {0} \cup DOMAIN heap']
    BY <1>2, <1>3, <1>4
  <2>5. ASSUME NEW c \in VF!Promise!Fds, NEW d \in VF!Promise!Fds, table'[c] = table'[d],
               table'[c] # 0
        PROVE  c = d
    <3>1. \A e \in VF!Promise!Fds : table[e] # new
      BY <1>1, <1>4
    <3>2. CASE c = slot \/ d = slot
      BY <1>5, <2>5, <3>1, <3>2
    <3>3. CASE c # slot /\ d # slot
      BY <1>5, <2>5, <3>3 DEF TableSound
    <3> QED BY <3>2, <3>3
  <2>6. VF!Promise!Fds' = VF!Promise!Fds
    BY DEF VF!Promise!Fds
  <2> QED BY <2>1, <2>2, <2>3, <2>4, <2>5, <2>6 DEF TableSound
<1>9. OpenFiles' = [OpenFiles EXCEPT ![slot] = [file |-> VF!PathOf(n)', pos |-> 0]]
  <2>1. OpenFiles = [d \in VF!Promise!Fds |-> OpenFiles[d]]
        /\ OpenFiles' = [d \in VF!Promise!Fds |-> OpenFiles'[d]]
    BY DEF OpenFiles, VF!Promise!Fds
  <2>2. OpenFiles'[slot] = [file |-> VF!PathOf(n)', pos |-> 0]
    BY <1>1, <1>3, <1>5, <1>6 DEF OpenFiles, VF!Promise!Fds
  <2>3. ASSUME NEW d \in VF!Promise!Fds, d # slot PROVE OpenFiles'[d] = OpenFiles[d]
    <3>1. table'[d] = table[d]
      BY <1>5, <2>3
    <3>2. CASE table[d] = 0
      BY <3>1, <3>2 DEF OpenFiles, VF!Promise!Fds
    <3>3. CASE table[d] # 0
      <4>1. heap'[table[d]] = heap[table[d]] /\ heap[table[d]].vnode \in DOMAIN vnodes
        BY <1>3, <3>3, FreeFds
      <4> QED BY <3>1, <3>3, <4>1 DEF OpenFiles, VF!Promise!Fds
    <3> QED BY <3>2, <3>3
  <2> HIDE DEF OpenFiles
  <2> QED BY <2>1, <2>2, <2>3
<1>10. HeapSize' = HeapSize + 1
  <2>1. Cardinality(DOMAIN heap \cup {new}) = Cardinality(DOMAIN heap) + 1
    BY <1>1, FS_AddElement DEF TableSound
  <2> QED BY <1>3, <2>1 DEF HeapSize
<1>11. Unused # {} /\ VF!Promise!Min(Unused) = slot
  BY LowestFree
<1> QED BY <1>2, <1>8, <1>9, <1>10, <1>11 DEF Bound, Answered

\* The two ways of telling that no file can be made agree.
LEMMA RoomLeft ==
  ASSUME RootSound, node \in DOMAIN vnodes,
         VF!Promise!Front(request.path) = VF!PathOf(node)
  PROVE  VF!CanCreate <=> VF!Promise!CanCreate(request.path)
<1>1. /\ DOMAIN vnodes = 1 .. Len(vnodes) /\ Len(vnodes) \in Nat \ {0}
      /\ VF!PathOf(1) = << >> /\ 1 \in DOMAIN vnodes
      /\ \A m, n \in DOMAIN vnodes : VF!PathOf(m) = VF!PathOf(n) => m = n
  <2>1. /\ DOMAIN vnodes = 1 .. Len(vnodes) /\ Len(vnodes) \in Nat \ {0}
        /\ VF!PathOf(1) = << >>
        /\ \A m, n \in DOMAIN vnodes : VF!PathOf(m) = VF!PathOf(n) => m = n
    BY FilePath
  <2>2. 1 \in DOMAIN vnodes
    BY <2>1
  <2> QED BY <2>1, <2>2
<1> DEFINE S == 2 .. Len(vnodes)
           T == Existing \ {<< >>}
           asPath == [n \in S |-> VF!PathOf(n)]
<1>2. \A n \in DOMAIN vnodes : n \in S <=> n # 1
  BY <1>1
<1>3. S \subseteq DOMAIN vnodes
  BY <1>1
<1>4. asPath \in Surjection(S, T) /\ asPath \in Injection(S, T)
  <2>1. \A n \in S : asPath[n] \in T
    BY <1>1, <1>2, <1>3 DEF Existing
  <2>2. \A q \in T : \E n \in S : asPath[n] = q
    BY <1>1, <1>2 DEF Existing
  <2>3. \A m, n \in S : asPath[m] = asPath[n] => m = n
    BY <1>1, <1>3
  <2>4. asPath \in [S -> T]
    BY <2>1
  <2> HIDE DEF S, T, asPath
  <2> QED BY <2>2, <2>3, <2>4 DEF Surjection, Injection, IsInjective
<1>5. IsFiniteSet(S) /\ Cardinality(S) = Len(vnodes) - 1
  BY <1>1, FS_Interval
<1> HIDE DEF S, T, asPath
<1>6. Cardinality(T) = Len(vnodes) - 1
  BY <1>4, <1>5, FS_Surjection
<1>7. VF!Promise!CanCreate(request.path) <=>
        VF!PathOf(node) = << >> /\ Cardinality(DOMAIN Contents \ {<< >>}) < DIR_ENTRIES
  BY DEF VF!Promise!CanCreate, VF!Promise!ROOT, Contents, Existing, VF!Promise!Cardinality,
         Cardinality
<1>8. DOMAIN Contents \ {<< >>} = T
  BY DEF Contents, T
<1>9. VF!PathOf(node) = << >> <=> node = 1
  BY <1>1
<1>10. vnodes[node].type = "FS_DIR" <=> node = 1
  BY <1>1, <1>2, <1>3 DEF RootSound, S
<1>11. Len(vnodes[1].entry) = Len(vnodes) - 1
  BY DEF RootSound
<1> QED BY <1>6, <1>7, <1>8, <1>9, <1>10, <1>11 DEF VF!CanCreate

\* What a failed or successful search says of the descriptor
LEMMA SlotFree ==
  ASSUME VF!VfsAssumption, FilesInv, vpc \in Lookups, ~Hopeless
  PROVE  slot \in VF!Promise!Fds /\ table[slot] = 0 /\ \A d \in 0 .. (slot - 1) : table[d] # 0
<1>1. slot \in 0 .. MAX_FD /\ slot < MAX_FD /\ table[slot] = 0
      /\ \A d \in 0 .. (slot - 1) : table[d] # 0
  BY DEF FilesInv, CallSound
<1>2. slot \in VF!Promise!Fds
  <2>1. MAX_FD \in Nat
    BY DEF VF!VfsAssumption
  <2> QED BY <1>1, <2>1 DEF VF!Promise!Fds
<1> QED BY <1>1, <1>2

LEMMA FilesAfterLookup ==
  ASSUME VF!VfsAssumption, FilesInv, VF!AfterLookup PROVE FilesInv' /\ Promised
<1>1. /\ RootSound' /\ Contents' = Contents /\ Existing' = Existing
      /\ \A n : VF!PathOf(n)' = VF!PathOf(n)
      /\ vnodes' = vnodes /\ RootSound /\ TableSound
  BY SameContents DEF FilesInv, VF!AfterLookup
<1>2. /\ vpc = "lookup pathname" /\ request \in VF!Promise!Requests /\ request.op = "open"
      /\ Reached(request.path) /\ node \in DOMAIN vnodes
  BY DEF FilesInv, CallSound, VF!AfterLookup, Lookups, Reached
<1>3. CASE VF!LookupSucceeds /\ VF!OpenVnode(node)
  <2>1. request.path = VF!PathOf(node) /\ request.path \in Existing
    BY <1>1, <1>2, <1>3, LookupEnds
  <2>2. slot \in VF!Promise!Fds /\ table[slot] = 0 /\ \A d \in 0 .. (slot - 1) : table[d] # 0
    BY <1>2, <2>1, SlotFree DEF Hopeless, Lookups
  <2>3. TableSound' /\ Unused # {} /\ Bound(VF!PathOf(node)) /\ vpc' = "main"
        /\ request' = request
    BY <1>1, <1>2, <1>3, <2>2, FilesBind
  <2>4. CallSound'
    BY <2>3 DEF CallSound, Lookups
  <2>5. VF!Promise!Open
    <3>1. request.path \in DOMAIN Contents
      BY <2>1 DEF Contents
    <3>2. Bound(request.path)
      BY <2>1, <2>3 DEF Bound
    <3> QED BY <1>1, <1>2, <2>3, <3>1, <3>2, PromisedOpen
  <2> QED BY <1>1, <1>2, <2>3, <2>4, <2>5, PromisedAnswer DEF FilesInv
<1>4. CASE /\ VF!LookupFails
           /\ IF request.creat THEN VF!vfs_lookup(VF!dirname, "lookup dirname")
                               ELSE vpc' = "undefined" /\ UNCHANGED <<node, rest>>
           /\ UNCHANGED <<request, answer, slot, table, heap>>
  <2>1. TableSound' /\ OpenFiles' = OpenFiles /\ HeapSize' = HeapSize
    BY <1>1, <1>4, Untouched
  <2>2. request.path \notin Existing /\ Hopeless' = Hopeless
    BY <1>1, <1>2, <1>4, LookupEnds DEF Hopeless, VF!dirname
  <2>3. CASE request.creat
    <3>1. node' = 1 /\ rest' = VF!dirname /\ vpc' = "lookup dirname" /\ VF!dirname' = VF!dirname
      BY <1>4, <2>3 DEF VF!vfs_lookup, VF!dirname
    <3>2. request.path \in Seq(PathNames) /\ request.path # << >>
      <4>1. << >> \in Existing
        <5>1. VF!PathOf(1) = << >> /\ DOMAIN vnodes = 1 .. Len(vnodes)
              /\ Len(vnodes) \in Nat \ {0}
          BY <1>1, FilePath
        <5>2. 1 \in DOMAIN vnodes
          BY <5>1
        <5> QED BY <5>1, <5>2 DEF Existing
      <4> QED BY <1>2, <2>2, <4>1, PathsAreSeqs
    <3>3. VF!dirname \in Seq(PathNames)
      <4>1. Len(request.path) \in Nat \ {0}
            /\ \A k \in 1 .. (Len(request.path) - 1) : request.path[k] \in PathNames
        BY <3>2
      <4>2. SubSeq(request.path, 1, Len(request.path) - 1) \in Seq(PathNames)
        BY <4>1, SubSeqProperties
      <4> QED BY <4>2 DEF VF!dirname, VF!Front
    <3>4. Reached(VF!dirname)'
      <4>1. VF!PathOf(1) = << >> /\ DOMAIN vnodes = 1 .. Len(vnodes)
            /\ Len(vnodes) \in Nat \ {0}
        BY <1>1, FilePath
      <4>2. 1 \in DOMAIN vnodes
        BY <4>1
      <4>3. << >> \o VF!dirname = VF!dirname
        BY <3>3, ConcatEmptySeq
      <4> QED BY <1>1, <3>1, <3>3, <4>1, <4>2, <4>3 DEF Reached
    <3>5. CallSound'
      BY <1>1, <1>2, <1>4, <2>2, <2>3, <3>1, <3>4 DEF FilesInv, CallSound, Lookups
    <3> QED BY <1>1, <1>2, <1>4, <2>1, <3>1, <3>5, PromisedStutter DEF FilesInv
  <2>4. CASE ~request.creat
    <3>1. vpc' = "undefined"
      BY <1>4, <2>4
    <3>2. CallSound'
      BY <1>2, <1>4, <3>1 DEF CallSound, Lookups, VF!Promise!Requests, VF!Promise!Fds
    <3> QED BY <1>1, <1>2, <1>4, <2>1, <3>1, <3>2, PromisedStutter DEF FilesInv
  <2> QED BY <2>3, <2>4
<1> QED BY <1>3, <1>4 DEF VF!AfterLookup

\* tmpfs_create: the new file is in the root, empty, and nothing else changes.
LEMMA FileCreated ==
  ASSUME RootSound, NEW n, n = Len(vnodes) + 1, VF!CanCreate, node \in DOMAIN vnodes,
         request.path \in Seq(PathNames), request.path \notin Existing,
         VF!Promise!Front(request.path) = VF!PathOf(node), VF!tmpfs_create
  PROVE  /\ RootSound' /\ n \in DOMAIN vnodes' /\ VF!PathOf(n)' = request.path
         /\ \A m \in DOMAIN vnodes : /\ m \in DOMAIN vnodes'
                                     /\ VF!PathOf(m)' = VF!PathOf(m)
                                     /\ vnodes'[m].data = vnodes[m].data
         /\ Contents' = [q \in DOMAIN Contents \cup {request.path} |->
                           IF q = request.path THEN << >> ELSE Contents[q]]
<1> DEFINE L == Len(vnodes)
           new == [type |-> "FS_FILE", name |-> VF!Last(request.path), entry |-> << >>,
                   data |-> << >>]
<1>1. /\ DOMAIN vnodes = 1 .. L /\ L \in Nat \ {0} /\ VF!PathOf(1) = << >>
      /\ \A m \in DOMAIN vnodes : vnodes[m] \in Vnodes
      /\ \A m \in 2 .. L : VF!PathOf(m) = <<vnodes[m].name>>
      /\ n = L + 1
  BY FilePath
<1> HIDE DEF L
<1>2. 1 \in DOMAIN vnodes /\ n \in Nat /\ n \in 2 .. n /\ n \notin 1 .. L /\ n - 1 = L
      /\ 1 .. n = (1 .. L) \cup {n} /\ 2 .. n = (2 .. L) \cup {n}
      /\ (\A m \in 1 .. L : m \in 2 .. L <=> m # 1)
  BY <1>1
<1>3. node = 1 /\ vnodes[1] \in Vnodes
  <2>1. vnodes[node].type = "FS_DIR"
    BY DEF VF!CanCreate
  <2>2. \A m \in 2 .. L : vnodes[m].type = "FS_FILE"
    BY DEF RootSound, L
  <2>3. node \notin 2 .. L
    BY <2>1, <2>2
  <2> QED BY <1>1, <1>2, <2>3
<1>4. request.path = <<VF!Last(request.path)>> /\ VF!Last(request.path) \in PathNames
  <2>1. request.path # << >>
    BY <1>1, <1>2 DEF Existing
  <2>2. Len(request.path) \in Nat \ {0}
    BY <2>1
  <2>3. PICK front : front = SubSeq(request.path, 1, Len(request.path) - 1)
    OBVIOUS
  <2>4. front = << >>
    BY <1>1, <1>3, <2>3 DEF VF!Promise!Front
  <2>5. Len(request.path) = 1
    <3>1. Len(front) = Len(request.path) - 1
      BY <2>2, <2>3
    <3>2. Len(front) = 0
      BY <2>4
    <3> QED BY <2>2, <3>1, <3>2
  <2> QED BY <2>5 DEF VF!Last
<1>5. new \in Vnodes /\ new.type = "FS_FILE" /\ new.entry = << >> /\ new.data = << >>
      /\ new.name = VF!Last(request.path)
  BY <1>4, EmptySeq DEF Vnodes
<1> HIDE DEF new
<1> DEFINE root == [vnodes[1] EXCEPT !.entry = Append(@, n)]
           w == [vnodes EXCEPT ![1] = root]
<1>6. vnodes' = Append(w, new)
  BY <1>3 DEF VF!tmpfs_create, new
<1>7. /\ root \in Vnodes /\ root.type = "FS_DIR" /\ root.data = vnodes[1].data
      /\ Len(root.entry) = L
      /\ \A k \in 1 .. L : root.entry[k] = k + 1
  <2> DEFINE e == vnodes[1].entry
  <2>1. e \in Seq(Nat) /\ Len(e) = L - 1 /\ vnodes[1].type = "FS_DIR"
        /\ \A k \in 1 .. (L - 1) : e[k] = k + 1
    BY <1>3 DEF Vnodes, RootSound, L
  <2>2. root.entry = Append(e, n) /\ root.type = vnodes[1].type
        /\ root.data = vnodes[1].data
    BY <1>3 DEF Vnodes
  <2> HIDE DEF e
  <2>3. Append(e, n) \in Seq(Nat) /\ Len(Append(e, n)) = L
        /\ \A k \in 1 .. L : Append(e, n)[k] = IF k = L THEN n ELSE e[k]
    BY <1>1, <1>2, <2>1
  <2>4. root \in Vnodes
    BY <1>3, <2>2, <2>3 DEF Vnodes, e
  <2> HIDE DEF root
  <2>5. \A k \in 1 .. L : root.entry[k] = k + 1
    <3>1. \A k \in 1 .. L : k = L \/ k \in 1 .. (L - 1)
      BY <1>1
    <3> QED BY <1>1, <2>1, <2>2, <2>3, <3>1
  <2> QED BY <2>1, <2>2, <2>3, <2>4, <2>5
<1> HIDE DEF root
<1>8. /\ vnodes' \in Seq(Vnodes) /\ Len(vnodes') = n /\ DOMAIN vnodes' = 1 .. n
      /\ vnodes'[1] = root /\ vnodes'[n] = new /\ vnodes' # << >>
      /\ \A m \in 2 .. L : vnodes'[m] = vnodes[m]
  <2>1. vnodes \in Seq(Vnodes)
    BY DEF RootSound
  <2>2. w \in Seq(Vnodes) /\ Len(w) = L /\ w[1] = root /\ \A m \in 2 .. L : w[m] = vnodes[m]
    BY <1>1, <1>2, <1>7, <2>1, ExceptSeq DEF L
  <2> HIDE DEF w
  <2>3. vnodes' \in Seq(Vnodes) /\ Len(vnodes') = n /\ vnodes'[n] = new
        /\ \A m \in 1 .. L : vnodes'[m] = w[m]
    <3>1. /\ Append(w, new) \in Seq(Vnodes) /\ Len(Append(w, new)) = Len(w) + 1
          /\ \A m \in 1 .. Len(w) : Append(w, new)[m] = w[m]
          /\ Append(w, new)[Len(w) + 1] = new
      BY <1>5, <2>2, AppendProperties
    <3> QED BY <1>1, <1>6, <2>2, <3>1
  <2>4. DOMAIN vnodes' = 1 .. n /\ vnodes' # << >>
    BY <1>2, <2>3, EmptySeq
  <2> QED BY <1>1, <1>2, <2>2, <2>3, <2>4
<1> HIDE DEF w
<1>9. \A m \in 2 .. L : vnodes[m].name # VF!Last(request.path)
  <2> SUFFICES ASSUME NEW m \in 2 .. L, vnodes[m].name = VF!Last(request.path) PROVE FALSE
    OBVIOUS
  <2>1. VF!PathOf(m) = request.path /\ m \in DOMAIN vnodes
    BY <1>1, <1>2, <1>4
  <2> QED BY <2>1 DEF Existing
<1>10. RootSound'
  <2>4. /\ \A m \in 2 .. L : vnodes[m].type = "FS_FILE" /\ vnodes[m].entry = << >>
                              /\ vnodes[m].name \in PathNames
        /\ \A l, m \in 2 .. L : vnodes[l].name = vnodes[m].name => l = m
    BY DEF RootSound, L
  <2>1. \A m \in 2 .. n : vnodes'[m].type = "FS_FILE" /\ vnodes'[m].entry = << >>
                            /\ vnodes'[m].name \in PathNames
    <3> SUFFICES ASSUME NEW m \in 2 .. n
                 PROVE  vnodes'[m].type = "FS_FILE" /\ vnodes'[m].entry = << >>
                        /\ vnodes'[m].name \in PathNames
      OBVIOUS
    <3>1. CASE m = n
      BY <1>4, <1>5, <1>8, <3>1
    <3>2. CASE m \in 2 .. L
      BY <1>8, <2>4, <3>2
    <3> QED BY <1>2, <3>1, <3>2
  <2>2. \A l, m \in 2 .. n : vnodes'[l].name = vnodes'[m].name => l = m
    <3> SUFFICES ASSUME NEW l \in 2 .. n, NEW m \in 2 .. n, vnodes'[l].name = vnodes'[m].name
                 PROVE  l = m
      OBVIOUS
    <3>1. (l \in 2 .. L \/ l = n) /\ (m \in 2 .. L \/ m = n)
      BY <1>2
    <3>2. CASE l \in 2 .. L /\ m \in 2 .. L
      BY <1>8, <2>4, <3>2
    <3>3. CASE l = n \/ m = n
      BY <1>5, <1>8, <1>9, <3>1, <3>3
    <3> QED BY <3>1, <3>2, <3>3
  <2>3. Len(vnodes'[1].entry) = Len(vnodes') - 1 /\ vnodes'[1].type = "FS_DIR"
        /\ \A k \in 1 .. (Len(vnodes') - 1) : vnodes'[1].entry[k] = k + 1
    BY <1>2, <1>7, <1>8
  <2> QED BY <1>8, <2>1, <2>2, <2>3 DEF RootSound, Vnodes
<1>11. ASSUME NEW m \in DOMAIN vnodes
       PROVE  m \in DOMAIN vnodes' /\ VF!PathOf(m)' = VF!PathOf(m)
              /\ vnodes'[m].data = vnodes[m].data
  <2>1. m \in DOMAIN vnodes'
    BY <1>1, <1>2, <1>8
  <2>2. CASE m = 1
    BY <1>7, <1>8, <2>1, <2>2 DEF VF!PathOf
  <2>3. CASE m \in 2 .. L
    BY <1>8, <2>1, <2>3 DEF VF!PathOf
  <2> QED BY <1>1, <1>2, <2>2, <2>3
<1>12. n \in DOMAIN vnodes' /\ VF!PathOf(n)' = request.path
  <2>1. n # 1 /\ n \in DOMAIN vnodes'
    BY <1>1, <1>2, <1>8
  <2> QED BY <1>4, <1>5, <1>8, <2>1 DEF VF!PathOf
<1>13. Contents' = [q \in DOMAIN Contents \cup {request.path} |->
                      IF q = request.path THEN << >> ELSE Contents[q]]
  <2>1. \A m \in DOMAIN vnodes' : VF!PathOf(m)' \in Existing'
                                  /\ Contents'[VF!PathOf(m)'] = vnodes'[m].data
    BY <1>10, PathsTellThen DEF PathsTell
  <2>2. Existing' = Existing \cup {request.path}
    <3>1. DOMAIN vnodes' = DOMAIN vnodes \cup {n}
      BY <1>1, <1>2, <1>8
    <3> QED BY <1>11, <1>12, <3>1 DEF Existing
  <2>3. Contents'[request.path] = << >>
    BY <1>5, <1>8, <1>12, <2>1
  <2>4. ASSUME NEW q \in Existing PROVE Contents'[q] = Contents[q]
    <3>1. PICK m \in DOMAIN vnodes : q = VF!PathOf(m)
      BY DEF Existing
    <3>2. Contents[q] = vnodes[m].data
      BY <3>1, ContentsAt
    <3> QED BY <1>11, <2>1, <3>1, <3>2
  <2>5. DOMAIN Contents = Existing /\ DOMAIN Contents' = Existing'
        /\ Contents' = [q \in Existing' |-> Contents'[q]]
    BY DEF Contents
  <2> HIDE DEF Contents
  <2> QED BY <2>2, <2>3, <2>4, <2>5
<1> QED BY <1>10, <1>11, <1>12, <1>13

LEMMA FilesAfterDirLookup ==
  ASSUME VF!VfsAssumption, FilesInv, VF!AfterDirLookup PROVE FilesInv' /\ Promised
<1>1. /\ vpc = "lookup dirname" /\ request \in VF!Promise!Requests /\ request.op = "open"
      /\ request.creat /\ request.path \notin Existing /\ Reached(VF!dirname)
      /\ node \in DOMAIN vnodes /\ RootSound /\ TableSound
      /\ slot \in 0 .. MAX_FD /\ slot < MAX_FD /\ MAX_FD \in Nat
  BY DEF FilesInv, CallSound, VF!AfterDirLookup, Lookups, Reached, VF!VfsAssumption
<1>2. request.path \in Seq(PathNames)
  BY <1>1, PathsAreSeqs
<1>3. VF!Promise!Front(request.path) = VF!dirname
  BY DEF VF!Promise!Front, VF!dirname, VF!Front
<1>4. CASE VF!LookupSucceeds
  <2>1. VF!dirname = VF!PathOf(node) /\ VF!dirname \in Existing
    BY <1>1, <1>4, LookupEnds
  <2>2. slot \in VF!Promise!Fds /\ table[slot] = 0 /\ \A d \in 0 .. (slot - 1) : table[d] # 0
    BY <1>1, <2>1, SlotFree DEF Hopeless, Lookups
  <2>3. VF!CanCreate <=> VF!Promise!CanCreate(request.path)
    BY <1>1, <1>3, <2>1, RoomLeft
  <2>4. VF!Promise!Front(request.path) \in DOMAIN Contents
        /\ request.path \notin DOMAIN Contents /\ DOMAIN Contents = Existing
    BY <1>1, <1>3, <2>1 DEF Contents
  <2>5. CASE VF!CanCreate /\ VF!tmpfs_create
    <3>7. PICK n : n = Len(vnodes) + 1
      OBVIOUS
    <3>1. /\ RootSound' /\ n \in DOMAIN vnodes' /\ VF!PathOf(n)' = request.path
          /\ \A m \in DOMAIN vnodes : /\ m \in DOMAIN vnodes'
                                      /\ VF!PathOf(m)' = VF!PathOf(m)
                                      /\ vnodes'[m].data = vnodes[m].data
          /\ Contents' = [q \in DOMAIN Contents \cup {request.path} |->
                            IF q = request.path THEN << >> ELSE Contents[q]]
      BY <1>1, <1>2, <1>3, <2>1, <2>5, <3>7, FileCreated
    <3>2. VF!OpenVnode(n)
      BY <2>5, <3>7 DEF VF!tmpfs_create, VF!OpenVnode
    <3>3. TableSound' /\ Unused # {} /\ Bound(request.path) /\ vpc' = "main"
          /\ request' = request
      BY <1>1, <2>2, <3>1, <3>2, FilesBind
    <3>5. CallSound'
      BY <3>3 DEF CallSound, Lookups
    <3>6. VF!Promise!Open
      BY <1>1, <2>3, <2>4, <2>5, <3>1, <3>3, PromisedOpen
    <3> QED BY <1>1, <3>1, <3>3, <3>5, <3>6, PromisedAnswer DEF FilesInv
  <2>6. CASE ~VF!CanCreate /\ VF!OpenVnode(node) /\ UNCHANGED vnodes
    <3>1. RootSound' /\ Contents' = Contents /\ \A m : VF!PathOf(m)' = VF!PathOf(m)
      BY <1>1, <2>6, SameContents
    <3>2. TableSound' /\ Unused # {} /\ Bound(VF!PathOf(node)) /\ vpc' = "main"
          /\ request' = request
      <4>1. node \in DOMAIN vnodes' /\ \A m \in DOMAIN vnodes :
              m \in DOMAIN vnodes' /\ VF!PathOf(m)' = VF!PathOf(m)
                /\ vnodes'[m].data = vnodes[m].data
        BY <1>1, <2>6, <3>1
      <4> QED BY <1>1, <2>2, <2>6, <3>1, <4>1, FilesBind
    <3>3. CallSound'
      BY <3>2 DEF CallSound, Lookups
    <3>4. VF!Promise!Front(request.path) = VF!PathOf(node)
      BY <1>3, <2>1
    <3>6. Bound(VF!Promise!Front(request.path))
      BY <3>2, <3>4 DEF Bound
    <3>5. VF!Promise!Open
      BY <1>1, <2>3, <2>4, <2>6, <3>1, <3>2, <3>6, PromisedOpen
    <3> QED BY <1>1, <3>1, <3>2, <3>3, <3>5, PromisedAnswer DEF FilesInv
  <2> QED BY <1>4, <2>5, <2>6 DEF VF!AfterDirLookup, VF!LookupSucceeds, VF!LookupFails
<1>5. CASE VF!LookupFails
  <2>1. /\ slot' = slot + 1 /\ vpc' = "open"
        /\ UNCHANGED <<request, answer, node, rest, vnodes, table, heap>>
    BY <1>5 DEF VF!AfterDirLookup, VF!LookupSucceeds, VF!LookupFails
  <2>2. /\ RootSound' /\ TableSound' /\ Contents' = Contents /\ OpenFiles' = OpenFiles
        /\ HeapSize' = HeapSize /\ Existing' = Existing
    BY <1>1, <2>1, Untouched
  <2>3. Hopeless
    BY <1>1, <1>5, LookupEnds DEF Hopeless
  <2>4. Hopeless'
    BY <2>1, <2>2, <2>3 DEF Hopeless, VF!dirname
  <2>5. slot' \in 0 .. MAX_FD
    <3>1. slot \in 0 .. MAX_FD /\ slot < MAX_FD /\ MAX_FD \in Nat
      BY <1>1
    <3> QED BY <2>1, <3>1
  <2>6. CallSound'
    BY <1>1, <2>1, <2>4, <2>5 DEF CallSound, Lookups, VF!Promise!Requests, VF!Promise!Fds
  <2> QED BY <1>1, <2>1, <2>2, <2>6, PromisedStutter DEF FilesInv
<1> QED BY <1>4, <1>5 DEF VF!AfterDirLookup

LEMMA FilesClose ==
  ASSUME VF!VfsAssumption, FilesInv, VF!my_close PROVE FilesInv' /\ Promised
<1>10. PICK fd, o : fd = request.fd /\ o = table[fd]
  OBVIOUS
<1>1. /\ vpc = "close" /\ request \in VF!Promise!Requests /\ request.op = "close"
      /\ RootSound /\ TableSound
  BY DEF FilesInv, CallSound, VF!my_close
<1>2. fd \in VF!Promise!Fds /\ vpc' = "main" /\ request' = request
  BY <1>10, <1>1 DEF VF!Promise!Requests, VF!my_close, VF!Return
<1>3. /\ RootSound' /\ Contents' = Contents /\ Existing' = Existing
      /\ \A n : VF!PathOf(n)' = VF!PathOf(n)
      /\ vnodes' = vnodes
  BY <1>1, SameContents DEF VF!my_close
<1>4. CallSound'
  BY <1>2 DEF CallSound, Lookups
<1>5. /\ IsFiniteSet(DOMAIN heap) /\ DOMAIN heap \subseteq Nat \ {0}
      /\ heap \in [DOMAIN heap -> Objects]
      /\ table \in [VF!Promise!Fds -> {0} \cup DOMAIN heap]
      /\ \A c, d \in VF!Promise!Fds : table[c] = table[d] /\ table[c] # 0 => c = d
  BY <1>1 DEF TableSound
<1>6. fd \in Unused <=> o = 0
  BY <1>10, <1>1, <1>2, FreeFds DEF Unused
<1>7. OpenFiles = [d \in VF!Promise!Fds |-> OpenFiles[d]]
      /\ OpenFiles' = [d \in VF!Promise!Fds |-> OpenFiles'[d]]
  BY DEF OpenFiles, VF!Promise!Fds
<1>8. CASE o # 0
  <2>1. /\ heap' = [p \in DOMAIN heap \ {o} |-> heap[p]]
        /\ table' = [table EXCEPT ![fd] = 0] /\ answer' = 0
    BY <1>10, <1>8 DEF VF!my_close, VF!Return
  <2>2. table'[fd] = 0 /\ \A d \in VF!Promise!Fds : d # fd =>
          table'[d] = table[d] /\ table[d] # o
    BY <1>10, <1>2, <1>5, <1>8, <2>1
  <2>3. DOMAIN heap' = DOMAIN heap \ {o} /\ \A p \in DOMAIN heap' : heap'[p] = heap[p]
    BY <2>1
  <2>4. TableSound'
    <3>1. IsFiniteSet(DOMAIN heap') /\ DOMAIN heap' \subseteq Nat \ {0}
      BY <1>5, <2>3, FS_RemoveElement
    <3>2. heap' \in [DOMAIN heap' -> Objects]
      BY <1>5, <2>1, <2>3
    <3>3. \A p \in DOMAIN heap' : heap'[p].f_pos <= Len(vnodes'[heap'[p].vnode].data)
      BY <1>1, <1>3, <2>3 DEF TableSound
    <3>4. table' \in [VF!Promise!Fds -> {0} \cup DOMAIN heap']
      BY <1>2, <1>5, <2>1, <2>2, <2>3
    <3>5. \A c, d \in VF!Promise!Fds : table'[c] = table'[d] /\ table'[c] # 0 => c = d
      BY <1>5, <2>2
    <3> QED BY <1>3, <3>1, <3>2, <3>3, <3>4, <3>5 DEF TableSound, Objects, VF!Promise!Fds
  <2>5. OpenFiles' = [OpenFiles EXCEPT ![fd] = NONE]
    <3>1. OpenFiles'[fd] = NONE
      BY <1>2, <2>2 DEF OpenFiles, VF!Promise!Fds
    <3>2. ASSUME NEW d \in VF!Promise!Fds, d # fd PROVE OpenFiles'[d] = OpenFiles[d]
      <4>1. table'[d] = table[d] /\ table[d] # o
        BY <2>2, <3>2
      <4>2. table[d] # 0 => heap'[table[d]] = heap[table[d]]
        BY <1>5, <2>3, <4>1
      <4> QED BY <1>3, <4>1, <4>2 DEF OpenFiles, VF!Promise!Fds
    <3> HIDE DEF OpenFiles
    <3> QED BY <1>2, <1>7, <3>1, <3>2
  <2>6. HeapSize' = HeapSize - 1
    <3>1. o \in DOMAIN heap
      BY <1>10, <1>2, <1>5, <1>8
    <3>2. Cardinality(DOMAIN heap \ {o}) = Cardinality(DOMAIN heap) - 1
      BY <1>5, <3>1, FS_RemoveElement
    <3> QED BY <2>3, <3>2 DEF HeapSize
  <2>7. VF!Promise!Close
    BY <1>10, <1>1, <1>2, <1>3, <1>6, <1>8, <2>1, <2>5, <2>6, PromisedClose DEF Answered
  <2> QED BY <1>1, <1>3, <1>4, <2>4, <2>7, PromisedAnswer DEF FilesInv
<1>9. CASE o = 0
  <2>1. UNCHANGED <<vnodes, heap, table>> /\ answer' = -1
    BY <1>10, <1>9 DEF VF!my_close, VF!Return
  <2>2. TableSound' /\ OpenFiles' = OpenFiles /\ HeapSize' = HeapSize
    BY <1>1, <2>1, Untouched
  <2>3. OpenFiles' = [OpenFiles EXCEPT ![fd] = NONE]
    <3>1. OpenFiles[fd] = NONE
      BY <1>2, <1>6, <1>9 DEF Unused
    <3> HIDE DEF OpenFiles
    <3> QED BY <1>2, <1>7, <2>2, <3>1
  <2>4. HeapSize' = HeapSize - 0
    <3>1. HeapSize \in Nat
      BY <1>5, FS_CardinalityType DEF HeapSize
    <3> QED BY <2>2, <3>1
  <2>5. VF!Promise!Close
    BY <1>10, <1>1, <1>2, <1>3, <1>6, <1>9, <2>1, <2>3, <2>4, PromisedClose DEF Answered
  <2> QED BY <1>1, <1>3, <1>4, <2>2, <2>5, PromisedAnswer DEF FilesInv
<1> QED BY <1>8, <1>9

\* What an open descriptor leads to
LEMMA Opened ==
  ASSUME VF!VfsAssumption, RootSound, TableSound, NEW d \in VF!Promise!Fds, table[d] # 0,
         NEW n, n = heap[table[d]].vnode, NEW at, at = heap[table[d]].f_pos + 1
  PROVE  /\ table[d] \in DOMAIN heap /\ n \in DOMAIN vnodes /\ d \notin Unused
         /\ OpenFiles[d] = [file |-> VF!PathOf(n), pos |-> at - 1]
         /\ vnodes[n].data \in Seq(Data) /\ at \in 1 .. (Len(vnodes[n].data) + 1)
         /\ VF!PathOf(n) = << >> <=> n = 1
         /\ vnodes[n].type = "FS_DIR" <=> n = 1
         /\ Contents[VF!PathOf(n)] = vnodes[n].data /\ VF!PathOf(n) \in DOMAIN Contents
<1>1. /\ table[d] \in DOMAIN heap /\ n \in DOMAIN vnodes /\ d \notin Unused
      /\ heap[table[d]].f_pos \in Nat /\ heap[table[d]].f_pos <= Len(vnodes[n].data)
      /\ OpenFiles[d] = [file |-> VF!PathOf(n), pos |-> heap[table[d]].f_pos]
  BY FreeFds DEF Unused, TableSound
<1>2. vnodes[n].data \in Seq(Data)
  BY <1>1, FilePath DEF Vnodes
<1>3. at \in 1 .. (Len(vnodes[n].data) + 1) /\ at - 1 = heap[table[d]].f_pos
  BY <1>1, <1>2
<1>4. /\ DOMAIN vnodes = 1 .. Len(vnodes) /\ Len(vnodes) \in Nat \ {0}
      /\ VF!PathOf(1) = << >>
      /\ \A k, m \in DOMAIN vnodes : VF!PathOf(k) = VF!PathOf(m) => k = m
  BY FilePath
<1>5. 1 \in DOMAIN vnodes /\ (n = 1 \/ n \in 2 .. Len(vnodes))
  BY <1>1, <1>4
<1>6. VF!PathOf(n) = << >> <=> n = 1
  BY <1>1, <1>4, <1>5
<1>7. vnodes[n].type = "FS_DIR" <=> n = 1
  <2>1. n \in 2 .. Len(vnodes) => n # 1
    BY <1>4
  <2> QED BY <1>5, <2>1 DEF RootSound
<1>8. Contents[VF!PathOf(n)] = vnodes[n].data /\ VF!PathOf(n) \in DOMAIN Contents
  BY <1>1, ContentsAt DEF Contents
<1> QED BY <1>1, <1>2, <1>3, <1>6, <1>7, <1>8

\* A position moves on, in a file that is no shorter than before.
LEMMA PositionMoved ==
  ASSUME VF!VfsAssumption, RootSound, TableSound, RootSound', NEW d \in VF!Promise!Fds,
         table[d] # 0, NEW at, at = heap[table[d]].f_pos + 1,
         heap' = [heap EXCEPT ![table[d]].f_pos = at], table' = table,
         at <= Len(vnodes'[heap[table[d]].vnode].data),
         \A m \in DOMAIN vnodes : /\ VF!PathOf(m)' = VF!PathOf(m)
                                  /\ Len(vnodes[m].data) <= Len(vnodes'[m].data),
         DOMAIN vnodes' = DOMAIN vnodes
  PROVE  /\ TableSound' /\ HeapSize' = HeapSize
         /\ OpenFiles' = [OpenFiles EXCEPT ![d].pos = at]
<1>8. PICK o : o = table[d]
  OBVIOUS
<1>1. /\ o \in DOMAIN heap /\ heap[o].vnode \in DOMAIN vnodes /\ heap[o].f_pos \in Nat
      /\ at \in Nat /\ at = heap[o].f_pos + 1
  <2>1. o \in DOMAIN heap /\ heap[o].vnode \in DOMAIN vnodes /\ heap[o].f_pos \in Nat
    BY <1>8, FreeFds
  <2> QED BY <1>8, <2>1
<1>2. /\ IsFiniteSet(DOMAIN heap) /\ DOMAIN heap \subseteq Nat \ {0}
      /\ heap \in [DOMAIN heap -> Objects]
      /\ \A p \in DOMAIN heap : heap[p].f_pos <= Len(vnodes[heap[p].vnode].data)
      /\ table \in [VF!Promise!Fds -> {0} \cup DOMAIN heap]
      /\ \A c, e \in VF!Promise!Fds : table[c] = table[e] /\ table[c] # 0 => c = e
  BY DEF TableSound
<1>3. heap' = [heap EXCEPT ![o] = [@ EXCEPT !.f_pos = at]]
  BY <1>8
<1>4. /\ DOMAIN heap' = DOMAIN heap /\ \A p \in DOMAIN heap : p # o => heap'[p] = heap[p]
      /\ heap'[o].vnode = heap[o].vnode /\ heap'[o].f_pos = at /\ heap'[o] \in Objects
      /\ heap' \in [DOMAIN heap -> Objects]
  <2>1. PICK object : object = heap[o]
    OBVIOUS
  <2>2. object \in Objects
    BY <1>1, <1>2, <2>1
  <2>3. PICK moved : moved = [object EXCEPT !.f_pos = at]
    OBVIOUS
  <2>4. moved.vnode = object.vnode /\ moved.f_pos = at /\ moved \in Objects
    BY <1>1, <2>2, <2>3 DEF Objects
  <2>5. heap' = [heap EXCEPT ![o] = moved]
    BY <1>3, <2>1, <2>3
  <2>6. DOMAIN heap' = DOMAIN heap /\ heap'[o] = moved
        /\ \A p \in DOMAIN heap : p # o => heap'[p] = heap[p]
    BY <1>1, <1>2, <2>5
  <2>7. heap' \in [DOMAIN heap -> Objects]
    BY <1>2, <2>4, <2>5
  <2> QED BY <2>1, <2>4, <2>6, <2>7
<1>5. TableSound'
  <2>1. ASSUME NEW p \in DOMAIN heap'
        PROVE  heap'[p].f_pos <= Len(vnodes'[heap'[p].vnode].data)
    <3>1. CASE p = o
      BY <1>4, <1>8, <3>1
    <3>2. CASE p # o
      <4>5. PICK m : m = heap[p].vnode
        OBVIOUS
      <4>1. heap'[p] = heap[p] /\ m \in DOMAIN vnodes /\ heap[p].f_pos \in Nat
            /\ heap[p].f_pos <= Len(vnodes[m].data)
        BY <1>2, <1>4, <3>2, <4>5 DEF Objects
      <4>2. Len(vnodes[m].data) <= Len(vnodes'[m].data) /\ Len(vnodes[m].data) \in Nat
        <5>1. vnodes[m] \in Vnodes
          BY <4>1, FilePath
        <5>2. vnodes[m].data \in Seq(Data)
          BY <5>1 DEF Vnodes
        <5> QED BY <4>1, <5>2, LenProperties
      <4>3. Len(vnodes'[m].data) \in Nat
        <5>1. vnodes' \in Seq(Vnodes)
          BY DEF RootSound, Vnodes
        <5>2. m \in DOMAIN vnodes'
          BY <4>1
        <5>3. vnodes'[m] \in Vnodes
          BY <5>1, <5>2
        <5>4. vnodes'[m].data \in Seq(Data)
          BY <5>3 DEF Vnodes
        <5> QED BY <5>4, LenProperties
      <4> QED BY <4>1, <4>2, <4>3, <4>5
    <3> QED BY <3>1, <3>2
  <2> QED BY <1>2, <1>4, <2>1 DEF TableSound, Objects, VF!Promise!Fds
<1>6. HeapSize' = HeapSize
  BY <1>4 DEF HeapSize
<1>7. OpenFiles' = [OpenFiles EXCEPT ![d].pos = at]
  <2>1. OpenFiles = [e \in VF!Promise!Fds |-> OpenFiles[e]]
        /\ OpenFiles' = [e \in VF!Promise!Fds |-> OpenFiles'[e]]
    BY DEF OpenFiles, VF!Promise!Fds
  <2>2. OpenFiles[d] = [file |-> VF!PathOf(heap[o].vnode), pos |-> heap[o].f_pos]
    BY <1>8, FreeFds
  <2>3. OpenFiles'[d] = [file |-> VF!PathOf(heap[o].vnode), pos |-> at]
    BY <1>1, <1>4, <1>8 DEF OpenFiles, VF!Promise!Fds
  <2>4. OpenFiles'[d] = [OpenFiles[d] EXCEPT !.pos = at]
    <3> HIDE DEF OpenFiles
    <3> QED BY <2>2, <2>3
  <2>5. ASSUME NEW e \in VF!Promise!Fds, e # d PROVE OpenFiles'[e] = OpenFiles[e]
    <3>1. table[e] # 0 => table[e] # o /\ table[e] \in DOMAIN heap
                          /\ heap[table[e]].vnode \in DOMAIN vnodes
      BY <1>2, <1>8, <2>5, FreeFds
    <3>2. table[e] # 0 => heap'[table[e]] = heap[table[e]]
      BY <1>4, <3>1
    <3> QED BY <3>1, <3>2 DEF OpenFiles, VF!Promise!Fds
  <2> HIDE DEF OpenFiles
  <2> QED BY <2>1, <2>4, <2>5
<1> QED BY <1>5, <1>6, <1>7

\* Writing a unit at a position up to the end, in the words of the promise
LEMMA UnitWritten ==
  ASSUME NEW s \in Seq(Data), NEW unit \in Data, NEW at \in 1 .. (Len(s) + 1), NEW t,
         t = IF at > Len(s) THEN Append(s, unit) ELSE VF!ReplaceAt(s, at, unit)
  PROVE  /\ t \in Seq(Data) /\ Len(s) <= Len(t) /\ at <= Len(t)
         /\ t = SubSeq(s, 1, at - 1) \o <<unit>> \o SubSeq(s, at + 1, Len(s))
<1>1. Len(s) \in Nat /\ at \in Nat
  OBVIOUS
<1>4. PICK v : v = SubSeq(s, 1, at - 1) \o <<unit>> \o SubSeq(s, at + 1, Len(s))
  OBVIOUS
<1> SUFFICES t \in Seq(Data) /\ Len(s) <= Len(t) /\ at <= Len(t) /\ t = v
  BY <1>4
<1>2. CASE at > Len(s)
  <2>1. at = Len(s) + 1 /\ t = Append(s, unit)
    BY <1>1, <1>2
  <2>2. SubSeq(s, 1, at - 1) = s /\ SubSeq(s, at + 1, Len(s)) = << >>
    BY <1>1, <2>1
  <2>3. t \in Seq(Data) /\ Len(t) = Len(s) + 1
    BY <2>1
  <2>4. t = s \o <<unit>>
    BY <2>1
  <2>5. t \o << >> = t
    BY <2>3, ConcatEmptySeq
  <2>6. t = v
    BY <1>4, <2>2, <2>4, <2>5
  <2> QED BY <1>1, <2>1, <2>3, <2>6
<1>3. CASE at <= Len(s)
  <2>1. t = [s EXCEPT ![at] = unit] /\ at \in 1 .. Len(s)
    BY <1>1, <1>3 DEF VF!ReplaceAt
  <2>2. t \in Seq(Data) /\ Len(t) = Len(s)
        /\ \A k \in 1 .. Len(s) : t[k] = IF k = at THEN unit ELSE s[k]
    BY <2>1, ExceptSeq
  <2> DEFINE before == SubSeq(s, 1, at - 1)
             after == SubSeq(s, at + 1, Len(s))
  <2>3. /\ before \in Seq(Data) /\ Len(before) = at - 1
        /\ \A k \in 1 .. (at - 1) : before[k] = s[k]
    BY <1>1, <2>1
  <2>4. /\ after \in Seq(Data) /\ Len(after) = Len(s) - at
        /\ \A k \in 1 .. (Len(s) - at) : after[k] = s[at + k]
    BY <1>1, <2>1
  <2> HIDE DEF before, after
  <2> DEFINE b == before \o <<unit>>
             c == b \o after
  <2>5. /\ b \in Seq(Data) /\ Len(b) = at
        /\ \A k \in 1 .. at : b[k] = IF k = at THEN unit ELSE s[k]
    BY <1>1, <2>3
  <2> HIDE DEF b
  <2>6. /\ c \in Seq(Data) /\ Len(c) = Len(s)
        /\ \A k \in 1 .. Len(s) : c[k] = IF k <= at THEN b[k] ELSE after[k - at]
    BY <1>1, <2>1, <2>4, <2>5
  <2> HIDE DEF c
  <2>7. ASSUME NEW k \in 1 .. Len(s) PROVE c[k] = t[k]
    <3>1. CASE k <= at
      BY <1>1, <2>1, <2>2, <2>5, <2>6, <3>1
    <3>2. CASE k > at
      <4>1. k - at \in 1 .. (Len(s) - at) /\ at + (k - at) = k
        BY <1>1, <2>1, <3>2
      <4> QED BY <1>1, <2>2, <2>4, <2>6, <3>2, <4>1
    <3> QED BY <1>1, <2>1, <3>1, <3>2
  <2>8. c = t
    BY <2>2, <2>6, <2>7, SeqEqual
  <2>9. t = v
    BY <1>4, <2>8 DEF c, b, before, after
  <2> QED BY <1>1, <2>1, <2>2, <2>9
<1> QED BY <1>1, <1>2, <1>3

\* What is written to a file changes its data only.
LEMMA FileWritten ==
  ASSUME RootSound, NEW n \in DOMAIN vnodes, n # 1, NEW t \in Seq(Data),
         Len(vnodes[n].data) <= Len(t), vnodes' = [vnodes EXCEPT ![n].data = t],
         NEW p, p = VF!PathOf(n)
  PROVE  /\ RootSound' /\ DOMAIN vnodes' = DOMAIN vnodes /\ vnodes'[n].data = t
         /\ \A m \in DOMAIN vnodes : /\ VF!PathOf(m)' = VF!PathOf(m)
                                     /\ Len(vnodes[m].data) <= Len(vnodes'[m].data)
         /\ Contents' = [Contents EXCEPT ![p] = t]
<1>1. /\ DOMAIN vnodes = 1 .. Len(vnodes) /\ Len(vnodes) \in Nat \ {0}
      /\ \A m \in DOMAIN vnodes : vnodes[m] \in Vnodes
      /\ \A k, m \in DOMAIN vnodes : VF!PathOf(k) = VF!PathOf(m) => k = m
  BY FilePath
<1> DEFINE w == [vnodes[n] EXCEPT !.data = t]
<1>2. /\ w \in Vnodes /\ w.data = t /\ w.type = vnodes[n].type
      /\ w.name = vnodes[n].name /\ w.entry = vnodes[n].entry
  <2>1. vnodes[n] \in Vnodes
    BY <1>1
  <2> QED BY <2>1 DEF Vnodes
<1>3. vnodes' = [vnodes EXCEPT ![n] = w]
  OBVIOUS
<1> HIDE DEF w
<1>4. /\ vnodes' \in Seq(Vnodes) /\ Len(vnodes') = Len(vnodes)
      /\ DOMAIN vnodes' = DOMAIN vnodes /\ vnodes'[n] = w
      /\ \A m \in DOMAIN vnodes : m # n => vnodes'[m] = vnodes[m]
  <2>1. vnodes \in Seq(Vnodes) /\ n \in 1 .. Len(vnodes)
    BY <1>1 DEF RootSound
  <2>4. PICK v : v = [vnodes EXCEPT ![n] = w]
    OBVIOUS
  <2>5. /\ v \in Seq(Vnodes) /\ Len(v) = Len(vnodes)
        /\ \A m \in 1 .. Len(vnodes) : v[m] = IF m = n THEN w ELSE vnodes[m]
    BY <1>2, <2>1, <2>4, ExceptSeq
  <2>2. /\ vnodes' \in Seq(Vnodes) /\ Len(vnodes') = Len(vnodes)
        /\ \A m \in 1 .. Len(vnodes) : vnodes'[m] = IF m = n THEN w ELSE vnodes[m]
    BY <1>3, <2>4, <2>5
  <2>3. DOMAIN vnodes' = 1 .. Len(vnodes)
    BY <2>2
  <2> QED BY <1>1, <2>1, <2>2, <2>3
<1>5. \A m \in DOMAIN vnodes :
        /\ vnodes'[m].type = vnodes[m].type /\ vnodes'[m].name = vnodes[m].name
        /\ vnodes'[m].entry = vnodes[m].entry
        /\ m # n => vnodes'[m].data = vnodes[m].data
  BY <1>2, <1>4
<1>6. RootSound'
  <2>1. 1 \in DOMAIN vnodes /\ \A m \in 2 .. Len(vnodes) : m \in DOMAIN vnodes
    BY <1>1
  <2>2. vnodes' # << >>
    <3>1. DOMAIN vnodes' # {}
      BY <1>4, <2>1
    <3> QED BY <3>1
  <2>3. \A m \in 2 .. Len(vnodes) :
          vnodes'[m].type = "FS_FILE" /\ vnodes'[m].entry = << >>
            /\ vnodes'[m].name \in PathNames
    BY <1>5, <2>1 DEF RootSound
  <2>4. \A l, m \in 2 .. Len(vnodes) : vnodes'[l].name = vnodes'[m].name => l = m
    BY <1>5, <2>1 DEF RootSound
  <2>5. /\ vnodes'[1].type = "FS_DIR" /\ Len(vnodes'[1].entry) = Len(vnodes') - 1
        /\ \A k \in 1 .. (Len(vnodes') - 1) : vnodes'[1].entry[k] = k + 1
    BY <1>4, <1>5, <2>1 DEF RootSound
  <2> QED BY <1>4, <2>2, <2>3, <2>4, <2>5 DEF RootSound, Vnodes
<1>7. \A m \in DOMAIN vnodes : VF!PathOf(m)' = VF!PathOf(m)
  BY <1>5 DEF VF!PathOf
<1>8. \A m \in DOMAIN vnodes : Len(vnodes[m].data) <= Len(vnodes'[m].data)
  <2> SUFFICES ASSUME NEW m \in DOMAIN vnodes
               PROVE  Len(vnodes[m].data) <= Len(vnodes'[m].data)
    OBVIOUS
  <2>1. vnodes[m] \in Vnodes
    BY <1>1
  <2>2. Len(vnodes[m].data) \in Nat
    <3>1. vnodes[m].data \in Seq(Data)
      BY <2>1 DEF Vnodes
    <3> QED BY <3>1, LenProperties
  <2>3. CASE m = n
    BY <1>2, <1>4, <2>3
  <2>4. CASE m # n
    BY <1>5, <2>2, <2>4
  <2> QED BY <2>3, <2>4
<1>9. Contents' = [Contents EXCEPT ![p] = t]
  <2>1. \A m \in DOMAIN vnodes' : VF!PathOf(m)' \in Existing'
                                  /\ Contents'[VF!PathOf(m)'] = vnodes'[m].data
    BY <1>6, PathsTellThen DEF PathsTell
  <2>2. Existing' = Existing
    BY <1>4, <1>7 DEF Existing
  <2>3. p \in Existing /\ Contents'[p] = t
    <3>1. p \in Existing /\ VF!PathOf(n)' = p
      BY <1>7, ContentsAt
    <3> QED BY <1>2, <1>4, <2>1, <3>1
  <2>4. ASSUME NEW q \in Existing, q # p PROVE Contents'[q] = Contents[q]
    <3>1. PICK m \in DOMAIN vnodes : q = VF!PathOf(m)
      BY DEF Existing
    <3>2. Contents[q] = vnodes[m].data /\ m # n
      BY <2>4, <3>1, ContentsAt
    <3>3. Contents'[q] = vnodes'[m].data
      BY <1>4, <1>7, <2>1, <3>1
    <3> QED BY <1>5, <3>2, <3>3
  <2>5. Contents = [q \in Existing |-> Contents[q]]
        /\ Contents' = [q \in Existing' |-> Contents'[q]]
    BY DEF Contents
  <2> HIDE DEF Contents
  <2> QED BY <2>2, <2>3, <2>4, <2>5
<1> QED BY <1>2, <1>4, <1>6, <1>7, <1>8, <1>9

\* An access that answers without touching anything
LEMMA NothingAccessed ==
  ASSUME FilesInv, UNCHANGED <<vnodes, heap, table>>, request' = request, vpc' = "main"
  PROVE  /\ FilesInv' /\ Contents' = Contents /\ OpenFiles' = OpenFiles
         /\ HeapSize' = HeapSize
<1>1. /\ RootSound' /\ TableSound' /\ Contents' = Contents /\ OpenFiles' = OpenFiles
      /\ HeapSize' = HeapSize
  BY Untouched DEF FilesInv
<1>2. CallSound'
  BY DEF CallSound, Lookups
<1> QED BY <1>1, <1>2 DEF FilesInv

LEMMA FilesRead ==
  ASSUME VF!VfsAssumption, FilesInv, VF!my_read PROVE FilesInv' /\ Promised
<1>1. PICK d : d = request.fd
  OBVIOUS
<1>2. PICK n, at : n = heap[table[d]].vnode /\ at = heap[table[d]].f_pos + 1
  OBVIOUS
<1>3. /\ vpc = "read" /\ request.op = "read" /\ d \in VF!Promise!Fds
      /\ RootSound /\ TableSound
  BY <1>1 DEF FilesInv, CallSound, VF!my_read, VF!Promise!Requests
<1>4. vpc' = "main" /\ request' = request /\ table' = table /\ vnodes' = vnodes
  BY DEF VF!my_read, VF!tmpfs_read, VF!Return
<1>5. PICK p : p = VF!PathOf(n)
  OBVIOUS
<1>6. CASE table[d] = 0
  <2>1. heap' = heap /\ answer' = -1
    BY <1>1, <1>6 DEF VF!my_read, VF!Return
  <2>2. d \in Unused
    BY <1>3, <1>6, FreeFds DEF Unused
  <2>3. /\ FilesInv' /\ Contents' = Contents /\ OpenFiles' = OpenFiles
        /\ HeapSize' = HeapSize
    BY <1>4, <2>1, NothingAccessed
  <2>4. VF!Promise!Access
    BY <1>1, <1>3, <1>4, <2>1, <2>2, <2>3, PromisedAccess DEF Answered
  <2> QED BY <1>3, <2>3, <2>4, PromisedAnswer
<1>7. CASE table[d] # 0
  <2>1. /\ table[d] \in DOMAIN heap /\ n \in DOMAIN vnodes /\ d \notin Unused
        /\ OpenFiles[d] = [file |-> p, pos |-> at - 1]
        /\ vnodes[n].data \in Seq(Data) /\ at \in 1 .. (Len(vnodes[n].data) + 1)
        /\ p = << >> <=> n = 1
        /\ vnodes[n].type = "FS_DIR" <=> n = 1
        /\ Contents[p] = vnodes[n].data /\ p \in DOMAIN Contents
    BY <1>2, <1>3, <1>5, <1>7, Opened
  <2>2. OpenFiles[d].file = p /\ OpenFiles[d].pos + 1 = at
    BY <2>1
  <2>3. VF!tmpfs_read(table[d])
    BY <1>1, <1>7 DEF VF!my_read
  <2>4. CASE n = 1
    <3>1. heap' = heap /\ answer' = -1
      BY <1>2, <2>1, <2>3, <2>4 DEF VF!tmpfs_read, VF!Return
    <3>2. /\ FilesInv' /\ Contents' = Contents /\ OpenFiles' = OpenFiles
          /\ HeapSize' = HeapSize
      BY <1>4, <3>1, NothingAccessed
    <3>3. VF!Promise!Access
      BY <1>1, <1>3, <1>4, <2>1, <2>2, <2>4, <3>1, <3>2, PromisedAccess DEF Answered
    <3> QED BY <1>3, <3>2, <3>3, PromisedAnswer
  <2>5. CASE n # 1 /\ at > Len(vnodes[n].data)
    <3>1. heap' = heap /\ answer' = 0
      BY <1>2, <2>1, <2>3, <2>5 DEF VF!tmpfs_read, VF!Return
    <3>2. /\ FilesInv' /\ Contents' = Contents /\ OpenFiles' = OpenFiles
          /\ HeapSize' = HeapSize
      BY <1>4, <3>1, NothingAccessed
    <3>3. ~ (at <= Len(Contents[p]))
      BY <2>1, <2>5
    <3>4. VF!Promise!Access
      BY <1>1, <1>3, <1>4, <2>1, <2>2, <2>5, <3>1, <3>2, <3>3, PromisedAccess DEF Answered
    <3> QED BY <1>3, <3>2, <3>4, PromisedAnswer
  <2>6. CASE n # 1 /\ at <= Len(vnodes[n].data)
    <3>1. heap' = [heap EXCEPT ![table[d]].f_pos = at] /\ answer' = vnodes[n].data[at]
      <4>1. ~ (at > Len(vnodes[n].data)) /\ vnodes[n].type # "FS_DIR"
        BY <2>1, <2>6
      <4> QED BY <1>2, <2>3, <4>1 DEF VF!tmpfs_read, VF!Return
    <3>2. RootSound' /\ Contents' = Contents /\ \A m : VF!PathOf(m)' = VF!PathOf(m)
      BY <1>3, <1>4, SameContents
    <3>3. \A m \in DOMAIN vnodes : VF!PathOf(m)' = VF!PathOf(m)
                                   /\ Len(vnodes[m].data) <= Len(vnodes'[m].data)
      <4>1. \A m \in DOMAIN vnodes : Len(vnodes[m].data) \in Nat
        <5>1. \A m \in DOMAIN vnodes : vnodes[m].data \in Seq(Data)
          BY <1>3, FilePath DEF Vnodes
        <5> QED BY <5>1, LenProperties
      <4> QED BY <1>4, <3>2, <4>1
    <3>4. /\ TableSound' /\ HeapSize' = HeapSize
          /\ OpenFiles' = [OpenFiles EXCEPT ![d].pos = at]
      BY <1>2, <1>3, <1>4, <1>7, <2>6, <3>1, <3>2, <3>3, PositionMoved
    <3>5. CallSound'
      BY <1>4 DEF CallSound, Lookups
    <3>6. VF!Promise!Access
      BY <1>1, <1>3, <1>4, <2>1, <2>2, <2>6, <3>1, <3>2, <3>4, PromisedAccess DEF Answered
    <3> QED BY <1>3, <3>2, <3>4, <3>5, <3>6, PromisedAnswer DEF FilesInv
  <2> QED BY <2>1, <2>4, <2>5, <2>6
<1> QED BY <1>6, <1>7

LEMMA FilesWrite ==
  ASSUME VF!VfsAssumption, FilesInv, VF!my_write PROVE FilesInv' /\ Promised
<1>1. PICK d, unit : d = request.fd /\ unit = request.data
  OBVIOUS
<1>2. PICK n, at : n = heap[table[d]].vnode /\ at = heap[table[d]].f_pos + 1
  OBVIOUS
<1>3. /\ vpc = "write" /\ request.op = "write" /\ d \in VF!Promise!Fds /\ unit \in Data
      /\ RootSound /\ TableSound /\ FILE_SIZE \in Nat
  BY <1>1 DEF FilesInv, CallSound, VF!my_write, VF!Promise!Requests, VF!VfsAssumption
<1>4. vpc' = "main" /\ request' = request /\ table' = table
  BY DEF VF!my_write, VF!tmpfs_write, VF!Return
<1>5. PICK p : p = VF!PathOf(n)
  OBVIOUS
<1>6. CASE table[d] = 0
  <2>1. heap' = heap /\ vnodes' = vnodes /\ answer' = -1
    BY <1>1, <1>6 DEF VF!my_write, VF!Return
  <2>2. d \in Unused
    BY <1>3, <1>6, FreeFds DEF Unused
  <2>3. /\ FilesInv' /\ Contents' = Contents /\ OpenFiles' = OpenFiles
        /\ HeapSize' = HeapSize
    BY <1>4, <2>1, NothingAccessed
  <2>4. VF!Promise!Access
    BY <1>1, <1>3, <1>4, <2>1, <2>2, <2>3, PromisedAccess DEF Answered
  <2> QED BY <1>3, <2>3, <2>4, PromisedAnswer
<1>7. CASE table[d] # 0
  <2>1. /\ table[d] \in DOMAIN heap /\ n \in DOMAIN vnodes /\ d \notin Unused
        /\ OpenFiles[d] = [file |-> p, pos |-> at - 1]
        /\ vnodes[n].data \in Seq(Data) /\ at \in 1 .. (Len(vnodes[n].data) + 1)
        /\ p = << >> <=> n = 1
        /\ vnodes[n].type = "FS_DIR" <=> n = 1
        /\ Contents[p] = vnodes[n].data /\ p \in DOMAIN Contents
    BY <1>2, <1>3, <1>5, <1>7, Opened
  <2>2. OpenFiles[d].file = p /\ OpenFiles[d].pos + 1 = at
    BY <2>1
  <2>3. VF!tmpfs_write(table[d], unit)
    BY <1>1, <1>7 DEF VF!my_write
  <2>4. CASE n = 1
    <3>1. heap' = heap /\ vnodes' = vnodes /\ answer' = -1
      BY <1>2, <2>1, <2>3, <2>4 DEF VF!tmpfs_write, VF!Return
    <3>2. /\ FilesInv' /\ Contents' = Contents /\ OpenFiles' = OpenFiles
          /\ HeapSize' = HeapSize
      BY <1>4, <3>1, NothingAccessed
    <3>3. VF!Promise!Access
      BY <1>1, <1>3, <1>4, <2>1, <2>2, <2>4, <3>1, <3>2, PromisedAccess DEF Answered
    <3> QED BY <1>3, <3>2, <3>3, PromisedAnswer
  <2>5. CASE n # 1 /\ at > FILE_SIZE
    <3>1. heap' = heap /\ vnodes' = vnodes /\ answer' = 0
      BY <1>2, <2>1, <2>3, <2>5 DEF VF!tmpfs_write, VF!Return
    <3>2. /\ FilesInv' /\ Contents' = Contents /\ OpenFiles' = OpenFiles
          /\ HeapSize' = HeapSize
      BY <1>4, <3>1, NothingAccessed
    <3>3. ~ (at <= FILE_SIZE)
      BY <1>3, <2>1, <2>5
    <3>4. VF!Promise!Access
      BY <1>1, <1>3, <1>4, <2>1, <2>2, <2>5, <3>1, <3>2, <3>3, PromisedAccess DEF Answered
    <3> QED BY <1>3, <3>2, <3>4, PromisedAnswer
  <2>6. CASE n # 1 /\ at <= FILE_SIZE
    <3>1. PICK s, t : s = vnodes[n].data
                      /\ t = IF at > Len(s) THEN Append(s, unit) ELSE VF!ReplaceAt(s, at, unit)
      OBVIOUS
    <3>2. /\ heap' = [heap EXCEPT ![table[d]].f_pos = at] /\ answer' = 1
          /\ vnodes' = [vnodes EXCEPT ![n].data = t]
      <4>1. ~ (at > FILE_SIZE) /\ vnodes[n].type # "FS_DIR"
        BY <1>3, <2>1, <2>6
      <4>2. /\ heap' = [heap EXCEPT ![table[d]].f_pos = at] /\ answer' = 1
            /\ vnodes' = [vnodes EXCEPT ![n].data =
                 IF at > Len(@) THEN Append(@, unit) ELSE VF!ReplaceAt(@, at, unit)]
        BY <1>2, <2>3, <4>1 DEF VF!tmpfs_write, VF!Return
      <4> QED BY <3>1, <4>2
    <3>3. /\ t \in Seq(Data) /\ Len(s) <= Len(t) /\ at <= Len(t)
          /\ t = SubSeq(s, 1, at - 1) \o <<unit>> \o SubSeq(s, at + 1, Len(s))
      BY <1>3, <2>1, <3>1, UnitWritten
    <3>4. /\ RootSound' /\ DOMAIN vnodes' = DOMAIN vnodes /\ vnodes'[n].data = t
          /\ \A m \in DOMAIN vnodes : /\ VF!PathOf(m)' = VF!PathOf(m)
                                      /\ Len(vnodes[m].data) <= Len(vnodes'[m].data)
          /\ Contents' = [Contents EXCEPT ![p] = t]
      <4>1. Len(vnodes[n].data) <= Len(t) /\ t \in Seq(Data) /\ n # 1 /\ n \in DOMAIN vnodes
        BY <2>1, <2>6, <3>1, <3>3
      <4>2. vnodes' = [vnodes EXCEPT ![n].data = t]
        BY <3>2
      <4> QED BY <1>3, <1>5, <4>1, <4>2, FileWritten
    <3>5. /\ TableSound' /\ HeapSize' = HeapSize
          /\ OpenFiles' = [OpenFiles EXCEPT ![d].pos = at]
      BY <1>2, <1>3, <1>4, <1>7, <3>2, <3>3, <3>4, PositionMoved
    <3>6. CallSound'
      BY <1>4 DEF CallSound, Lookups
    <3>7. Contents' = [Contents EXCEPT ![p] =
                         SubSeq(@, 1, at - 1) \o <<unit>> \o SubSeq(@, at + 1, Len(@))]
      <4>1. Contents[p] = s
        BY <2>1, <3>1
      <4> HIDE DEF Contents
      <4> QED BY <3>3, <3>4, <4>1
    <3>8. VF!Promise!Access
      BY <1>1, <1>3, <1>4, <2>1, <2>2, <2>6, <3>2, <3>5, <3>7, PromisedAccess DEF Answered
    <3> QED BY <1>3, <3>4, <3>5, <3>6, <3>8, PromisedAnswer DEF FilesInv
  <2> QED BY <1>3, <2>1, <2>4, <2>5, <2>6
<1> QED BY <1>6, <1>7

LEMMA FilesStep ==
  ASSUME VF!VfsAssumption, FilesInv, [VF!Next]_(VF!vars) PROVE FilesInv' /\ Promised
<1>1. CASE UNCHANGED VF!vars
  <2>1. UNCHANGED <<request, answer, vpc, slot, node, rest, vnodes, table, heap>>
    BY <1>1 DEF VF!vars
  <2>2. /\ RootSound' /\ TableSound' /\ Existing' = Existing
        /\ \A n : VF!PathOf(n)' = VF!PathOf(n)
        /\ Contents' = Contents /\ OpenFiles' = OpenFiles /\ HeapSize' = HeapSize
    BY <2>1, Untouched DEF FilesInv
  <2>3. CallSound'
    <3>1. Hopeless' = Hopeless /\ VF!dirname' = VF!dirname
          /\ VF!PathOf(node)' = VF!PathOf(node)
      BY <2>1, <2>2 DEF Hopeless, VF!dirname, VF!PathOf
    <3> QED BY <2>1, <2>2, <3>1
            DEF FilesInv, CallSound, Lookups, Reached, VF!Promise!Requests, VF!Promise!Fds
  <2> QED BY <2>1, <2>2, <2>3, PromisedStutter DEF FilesInv
<1>2. CASE VF!Next
  BY <1>2, FilesCall, FilesOpen, FilesLookup, FilesAfterLookup, FilesAfterDirLookup,
     FilesClose, FilesRead, FilesWrite DEF VF!Next, VF!Calls
<1> QED BY <1>1, <1>2

\* What is true of the files and of the descriptors, in every reachable state
THEOREM FilesInductive == ASSUME VF!VfsAssumption PROVE VF!Spec => []FilesInv
<1>1. VF!Init => FilesInv
  BY FilesInitially
<1>2. FilesInv /\ [VF!Next]_(VF!vars) => FilesInv'
  BY FilesStep
<1> QED BY <1>1, <1>2, PTL DEF VF!Spec

\* The four functions do what DescriptorTable promises: that they come back is the
\* fairness of its specification, and not stated here.
THEOREM ImplementsPromise ==
  ASSUME VF!VfsAssumption
  PROVE  VF!Spec => VF!Promise!Init /\ [][VF!Promise!Next]_(VF!Promise!vars)
<1>1. VF!Init => VF!Promise!Init
  BY FilesInitially
<1>2. FilesInv /\ [VF!Next]_(VF!vars) => [VF!Promise!Next]_(VF!Promise!vars)
  BY FilesStep DEF Promised
<1> QED BY <1>1, <1>2, FilesInductive, PTL DEF VF!Spec
=============================================================================
