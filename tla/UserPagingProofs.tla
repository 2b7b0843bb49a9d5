--------------------------- MODULE UserPagingProofs ---------------------------
(***************************************************************************)
(* The page tables that ex62 builds for the user, for tables of any size,  *)
(* any memory and any sequence of calls of map_pages before exec.          *)
(*                                                                         *)
(* The tables are a tree: everything allocated lies below the break and    *)
(* above the kernel, no page is a table in two places, and no page that    *)
(* the user sees or is about to see is a table. A walk that finds a table  *)
(* goes on with its physical address, through which the kernel can reach   *)
(* nothing; so a walk that gets further has made all its tables itself.    *)
(***************************************************************************)
EXTENDS UserPaging, TLAPS

Low == 0 .. (ENTRIES \div 2 - 1)

\* The physical page that alloc_page returns next, and those it has returned
Brk == PagesFor(curr) - PAGE_OFFSET
Used == {f \in RAM : f * PAGE_SIZE >= END /\ f < Brk}
HasMemory(n) == \A k \in 0 .. (n - 1) : Brk + k \in RAM

-----------------------------------------------------------------------------
(* The tree *)

\* The entries on the way to the pages of the user
E2(i) == mem[PGD][i]
E1(i, j) == mem[E2(i).ppn][j]
E0(i, j, k) == mem[E1(i, j).ppn][k]

\* Where there is a table of level 1 or 0
Has1(i) == E2(i) # NONE
Has0(i, j) == Has1(i) /\ E1(i, j) # NONE

LeadsToTable(e) == e = Entry(e.ppn, "table") /\ e.ppn \in Used /\ DOMAIN mem[e.ppn] = Indices

Tables ==
  /\ DOMAIN mem = RAM
  /\ DOMAIN mem[PGD] = Indices
  /\ \A i \in Low : Has1(i) => LeadsToTable(E2(i))
  /\ \A i \in Low, j \in Indices : Has0(i, j) => LeadsToTable(E1(i, j))

\* No page is a table twice.
Apart ==
  /\ \A i, k \in Low : Has1(i) /\ Has1(k) /\ E2(i).ppn = E2(k).ppn => i = k
  /\ \A i, k \in Low, j, l \in Indices :
       Has0(i, j) /\ Has0(k, l) /\ E1(i, j).ppn = E1(k, l).ppn => i = k /\ j = l
  /\ \A i, k \in Low, l \in Indices : Has1(i) /\ Has0(k, l) => E2(i).ppn # E1(k, l).ppn

\* The upper half is the kernel's, as far as there are pages to map.
KernelHalf ==
  \A i \in Indices \ Low :
    E2(i) = IF i - ENTRIES \div 2 < NUM_PAGES \div Span(2)
              THEN Entry((i - ENTRIES \div 2) * Span(2), "kernel")
              ELSE NONE

\* What the user finds at v
Leaf(v) ==
  LET i == Index(v, 2)
      j == Index(v, 1)
  IN  IF Has0(i, j) THEN E0(i, j, Index(v, 0)) ELSE NONE

Mapped == \A v \in UserPages : Leaf(v) = mapped[v]

\* An allocated page that is not a table
IsData(f) ==
  /\ f \in Used
  /\ \A i \in Low : Has1(i) => E2(i).ppn # f
  /\ \A i \in Low, j \in Indices : Has0(i, j) => E1(i, j).ppn # f

UserEntry(e) ==
  /\ e = Entry(e.ppn, e.perm)
  /\ e.perm \in {"rw", "rx"}
  /\ IsData(e.ppn)

Data ==
  /\ DOMAIN mapped = UserPages
  /\ \A v \in UserPages : mapped[v] # NONE => UserEntry(mapped[v])

\* Below an entry of pgd there is a page, unless the walk is on its way to it.
InGiB(i) == \E v \in UserPages : mapped[v] # NONE /\ Index(v, 2) = i
Building(i) == pc = "pagewalk" /\ level < 2 /\ i = Index(call.va, 2)
Occupied == \A i \in Low : Has1(i) => InGiB(i) \/ Building(i)

-----------------------------------------------------------------------------
(* The walk and the calls *)

\* Where pagewalk is: at a table it has just made, or on an address that is
\* not the kernel's.
Lost == page_table \in UserPages /\ level < 2 /\ InGiB(Index(call.va, 2))

OnItsWay ==
  LET i == Index(call.va, 2)
      j == Index(call.va, 1)
  IN  \/ level = 2 /\ page_table = phys_to_virt(PGD)
      \/ /\ level = 1 /\ Has1(i) /\ page_table = phys_to_virt(E2(i).ppn)
         /\ \A l \in Indices : E1(i, l) = NONE
      \/ /\ level = 0 /\ Has0(i, j) /\ page_table = phys_to_virt(E1(i, j).ppn)

Walk ==
  /\ pc = "pagewalk" => call.left > 0 /\ (Lost \/ OnItsWay)
  /\ pc = "fault" => InGiB(Index(call.va, 2))

\* The tables that the page being mapped may still take
TablesLeft == IF pc = "pagewalk" THEN level ELSE 2

\* A call for other pages, for the program, of which only the first page can
\* be mapped, and for its stack
OtherPages ==
  /\ call.prot = "rw"
  /\ call.va + PagesFor(call.left) <= PAGE_OFFSET
  /\ \A k \in 0 .. (PagesFor(call.left) - 1) : IsData(call.pa + k)
  /\ call.left > 0 => HasMemory(2 * (PagesFor(call.left) - 1) + TablesLeft)

ProgramPages ==
  /\ call.prot = "rx"
  /\ DOMAIN program = 0 .. (PagesFor(call.left) + call.va - 1)
  /\ \/ /\ call.va = 0
        /\ call.left > 0 => call.pa = program[0]
        /\ HasMemory(TablesLeft + 3)
     \/ /\ call.va = 1
        /\ mapped[0] = Entry(program[0], "rx")
        /\ pc = "pagewalk" => level = 2 \/ Lost
        /\ HasMemory(3)

\* The program has been mapped.
ProgramThere == \A k \in DOMAIN program : k = 0 /\ mapped[0] = Entry(program[0], "rx")

StackPage ==
  /\ call.prot = "rw"
  /\ \/ /\ call.va = STACK /\ call.left = PAGE_SIZE
        /\ IsData(call.pa)
        /\ HasMemory(TablesLeft)
     \/ /\ call.left = 0
        /\ mapped[STACK] # NONE /\ mapped[STACK].perm = "rw"
  /\ ProgramThere

Calls ==
  /\ pc \in {"map_pages", "pagewalk"} =>
       /\ call = [va |-> call.va, left |-> call.left, pa |-> call.pa, prot |-> call.prot,
                  return |-> call.return]
       /\ call.va \in Nat /\ call.pa \in Nat /\ call.left \in Int /\ call.left > -PAGE_SIZE
       /\ \/ call.return = "start_kernel" /\ OtherPages
          \/ call.return = "exec_stack" /\ ProgramPages
          \/ call.return = "user" /\ StackPage
  /\ pc = "exec_stack" => HasMemory(3) /\ ProgramThere
  /\ pc = "user" =>
       ProgramThere /\ mapped[STACK] # NONE /\ mapped[STACK].perm = "rw"

\* exec's copy of the program's first page
AfterExec ==
  \/ pc \in {"exec_stack", "user"}
  \/ pc \in {"map_pages", "pagewalk"} /\ call.return # "start_kernel"

Copied ==
  AfterExec =>
    /\ DOMAIN program \in SUBSET Nat
    /\ 0 \in DOMAIN program =>
         IsData(program[0]) /\ mem[program[0]] = <<"prog.bin", 0>>

Phases ==
  /\ pc \in {"setup_vm", "start_kernel", "echo", "map_pages", "pagewalk", "fault",
             "exec_stack", "user"}
  /\ pc = "setup_vm" =>
       mem = [f \in RAM |-> JUNK] /\ mapped = [v \in UserPages |-> NONE]

IInv ==
  /\ Phases
  /\ curr \in Nat /\ Brk \in Nat /\ Brk * PAGE_SIZE >= END
  /\ pc # "setup_vm" =>
       /\ Tables /\ Apart /\ KernelHalf
       /\ Mapped /\ Data /\ Occupied
       /\ Walk /\ Calls /\ Copied

-----------------------------------------------------------------------------
(* Addresses *)

\* Division with remainder
LEMMA DivMod ==
  ASSUME NEW p \in Nat, NEW s \in Nat \ {0}
  PROVE  /\ p \div s \in Nat /\ (p % s) \in 0 .. (s - 1)
         /\ (p \div s) * s \in Nat /\ p = (p \div s) * s + (p % s)
OBVIOUS

\* The quotient is the only number that fits.
LEMMA Quotient ==
  ASSUME NEW a \in Nat, NEW s \in Nat \ {0}, NEW r \in 0 .. (s - 1)
  PROVE  (a * s + r) \div s = a /\ ((a * s + r) % s) = r
<1> DEFINE p == a * s + r
           q == p \div s
<1>1. p \in Nat /\ q \in Nat /\ (p % s) \in 0 .. (s - 1) /\ p = q * s + (p % s)
      /\ a * s \in Nat /\ q * s \in Nat
  <2>1. a * s \in Nat
    OBVIOUS
  <2>2. p \in Nat
    BY <2>1
  <2> HIDE DEF p
  <2> QED BY <2>1, <2>2, DivMod
<1>2. ~ (q < a)
  <2> SUFFICES ASSUME q < a PROVE FALSE
    OBVIOUS
  <2>1. q + 1 <= a /\ a - (q + 1) \in Nat
    BY <1>1
  <2>2. (a - (q + 1)) * s \in Nat
    BY <2>1
  <2>3. a * s = (q + 1) * s + (a - (q + 1)) * s /\ (q + 1) * s = q * s + s
    BY <1>1, <2>1
  <2> HIDE DEF q
  <2> QED BY <1>1, <2>2, <2>3
<1>3. ~ (a < q)
  <2> SUFFICES ASSUME a < q PROVE FALSE
    OBVIOUS
  <2>1. a + 1 <= q /\ q - (a + 1) \in Nat
    BY <1>1
  <2> HIDE DEF q
  <2>2. (q - (a + 1)) * s \in Nat
    BY <2>1
  <2>3. q * s = (a + 1) * s + (q - (a + 1)) * s /\ (a + 1) * s = a * s + s
    BY <1>1, <2>1
  <2> QED BY <1>1, <2>2, <2>3
<1>4. q = a
  BY <1>1, <1>2, <1>3
<1> HIDE DEF q
<1> QED BY <1>1, <1>4 DEF q

\* Sizes of tables and halves
LEMMA Sizes ==
  /\ ENTRIES \in Nat /\ ENTRIES \div 2 \in Nat \ {0} /\ ENTRIES = 2 * (ENTRIES \div 2)
  /\ Span(0) = 1 /\ Span(1) = ENTRIES /\ Span(2) = ENTRIES * ENTRIES
  /\ Span(2) \in Nat /\ Span(2) >= 4
  /\ PAGE_OFFSET = (ENTRIES \div 2) * Span(2) /\ PAGE_OFFSET \in Nat /\ PAGE_OFFSET >= 4
  /\ UserPages = 0 .. (PAGE_OFFSET - 1) /\ STACK \in UserPages /\ STACK > 1
  /\ Low \subseteq Indices /\ PAGE_SIZE \in Nat \ {0}
<1>1. ENTRIES \in Nat /\ ENTRIES >= 2 /\ (ENTRIES % 2) = 0 /\ PAGE_SIZE \in Nat \ {0}
  BY Sv39Assumption, UserPagingAssumption
<1>2. ENTRIES \div 2 \in Nat \ {0} /\ ENTRIES = 2 * (ENTRIES \div 2)
  BY <1>1
<1>3. Span(0) = 1 /\ Span(1) = ENTRIES /\ Span(2) = ENTRIES * ENTRIES
  <2>1. 1 # 0 /\ 2 # 0 /\ 2 # 1
    OBVIOUS
  <2> QED BY <2>1, Zenon DEF Span
<1>4. ENTRIES * ENTRIES \in Nat /\ ENTRIES * ENTRIES >= 4
  <2>1. ENTRIES * ENTRIES = (ENTRIES - 2) * (ENTRIES - 2) + 4 * (ENTRIES - 2) + 4
    BY <1>1
  <2>2. (ENTRIES - 2) * (ENTRIES - 2) \in Nat
    BY <1>1
  <2> QED BY <1>1, <2>1, <2>2
<1>5. /\ (ENTRIES \div 2) * Span(2) \in Nat /\ (ENTRIES \div 2) * Span(2) >= 4
  <2> DEFINE h == ENTRIES \div 2
             s == Span(2)
  <2>1. h \in Nat \ {0} /\ s \in Nat /\ s >= 4
    BY <1>2, <1>3, <1>4
  <2> HIDE DEF h, s
  <2>2. h * s = (h - 1) * s + s /\ (h - 1) * s \in Nat
    BY <2>1
  <2>3. h * s \in Nat /\ h * s >= 4
    BY <2>1, <2>2
  <2> QED BY <2>3 DEF h, s
<1>6. PAGE_OFFSET = (ENTRIES \div 2) * Span(2) /\ PAGE_OFFSET \in Nat /\ PAGE_OFFSET >= 4
  BY <1>5 DEF PAGE_OFFSET
<1>7. UserPages = 0 .. (PAGE_OFFSET - 1) /\ STACK \in UserPages /\ STACK > 1
  BY <1>6 DEF UserPages, STACK
<1>8. Low \subseteq Indices
  BY <1>1, <1>2 DEF Low, Indices
<1> QED BY <1>1, <1>2, <1>3, <1>4, <1>6, <1>7, <1>8

\* The three indices of a page of the user; the first is that of an entry of
\* the lower half.
LEMMA UserIndices ==
  ASSUME NEW v \in UserPages
  PROVE  /\ Index(v, 2) \in Low /\ Index(v, 1) \in Indices /\ Index(v, 0) \in Indices
         /\ v = (Index(v, 2) * ENTRIES + Index(v, 1)) * ENTRIES + Index(v, 0)
<1> DEFINE e == ENTRIES
           s == ENTRIES * ENTRIES
           h == ENTRIES \div 2
<1>1. /\ e \in Nat \ {0} /\ h \in Nat \ {0} /\ e = 2 * h /\ s \in Nat \ {0} /\ v \in Nat
      /\ Span(0) = 1 /\ Span(1) = e /\ Span(2) = s /\ v < h * s
  BY Sizes DEF s
<1> DEFINE a == v \div e
           b == a \div e
<1>2. /\ a \in Nat /\ (v % e) \in 0 .. (e - 1) /\ v = a * e + (v % e)
      /\ b \in Nat /\ (a % e) \in 0 .. (e - 1) /\ a = b * e + (a % e)
  <2> HIDE DEF a, e
  <2>1. /\ v \div e \in Nat /\ (v % e) \in 0 .. (e - 1) /\ v = (v \div e) * e + (v % e)
    BY <1>1, DivMod
  <2>2. a \in Nat
    BY <2>1 DEF a
  <2>3. /\ a \div e \in Nat /\ (a % e) \in 0 .. (e - 1) /\ a = (a \div e) * e + (a % e)
    BY <1>1, <2>2, DivMod
  <2> QED BY <2>1, <2>2, <2>3 DEF a
<1> HIDE DEF a, b
<1>3. v = b * s + ((a % e) * e + (v % e))
  <2> DEFINE r == (a % e)
             t == (v % e)
  <2>1. v = (b * e + r) * e + t /\ r \in Nat /\ t \in Nat
    BY <1>2
  <2>2. s = e * e /\ e \in Nat
    BY <1>1
  <2> HIDE DEF r, t, e, s
  <2>3. (b * e + r) * e = b * (e * e) + r * e
    BY <1>2, <2>1, <2>2
  <2>4. v = b * s + (r * e + t) /\ b * s \in Nat /\ r * e \in Nat
    BY <1>2, <2>1, <2>2, <2>3
  <2> QED BY <2>4 DEF r, t
<1>4. (a % e) * e + (v % e) \in 0 .. (s - 1)
  <2> DEFINE r == (a % e)
             t == (v % e)
  <2>1. r \in 0 .. (e - 1) /\ t \in 0 .. (e - 1)
    BY <1>2
  <2>2. s = e * e
    OBVIOUS
  <2> HIDE DEF r, t, e, s
  <2>3. (e - 1 - r) * e \in Nat /\ r * e \in Nat
    BY <1>1, <2>1
  <2>4. e * e = r * e + (e - 1 - r) * e + e
    BY <1>1, <2>1
  <2>5. r * e + t \in 0 .. (s - 1)
    BY <1>1, <2>1, <2>2, <2>3, <2>4
  <2> QED BY <2>5 DEF r, t
<1>5. v \div s = b
  <2> DEFINE r == (a % e) * e + (v % e)
  <2>1. v = b * s + r /\ r \in 0 .. (s - 1) /\ s \in Nat \ {0} /\ b \in Nat
    BY <1>1, <1>2, <1>3, <1>4
  <2> HIDE DEF r, s
  <2> QED BY <2>1, Quotient
<1>6. b < h
  <2> SUFFICES ASSUME b >= h PROVE FALSE
    BY <1>1, <1>2
  <2> HIDE DEF s, h
  <2>1. b * s = h * s + (b - h) * s /\ (b - h) * s \in Nat
    BY <1>1, <1>2
  <2> QED BY <1>1, <1>3, <1>4, <2>1
<1>7. (b % e) = b
  BY <1>1, <1>2, <1>6
<1>8. /\ Index(v, 2) = b /\ Index(v, 1) = (a % e) /\ Index(v, 0) = (v % e)
  <2>1. v \div 1 = v
    BY <1>1
  <2> QED BY <1>1, <1>5, <1>7, <2>1 DEF Index, a
<1>9. b \in Low /\ (a % e) \in Indices /\ (v % e) \in Indices
  BY <1>1, <1>2, <1>6 DEF Low, Indices
<1> QED BY <1>2, <1>8, <1>9

\* A page of the user is told by its indices.
LEMMA SameIndices ==
  ASSUME NEW v \in UserPages, NEW w \in UserPages,
         \A l \in Levels : Index(v, l) = Index(w, l)
  PROVE  v = w
<1>1. 0 \in Levels /\ 1 \in Levels /\ 2 \in Levels
  BY DEF Levels
<1> QED BY <1>1, UserIndices

\* The kernel finds physical page f at PAGE_OFFSET + f, in the upper half.
LEMMA KernelIndices ==
  ASSUME NEW f \in 0 .. (PAGE_OFFSET - 1)
  PROVE  LET i == Index(phys_to_virt(f), 2)
         IN  /\ i \in Indices \ Low /\ i - ENTRIES \div 2 = f \div Span(2)
             /\ (i - ENTRIES \div 2) * Span(2) + (phys_to_virt(f) % Span(2)) = f
<1> DEFINE s == Span(2)
           h == ENTRIES \div 2
           q == f \div s
           r == (f % s)
<1>1. s \in Nat \ {0} /\ h \in Nat \ {0} /\ ENTRIES = 2 * h /\ PAGE_OFFSET = h * s /\ f \in Nat
  BY Sizes
<1> HIDE DEF s, h
<1>2. q \in Nat /\ r \in 0 .. (s - 1) /\ f = q * s + r
  BY <1>1, DivMod
<1> HIDE DEF q, r
<1>3. q < h
  <2> SUFFICES ASSUME q >= h PROVE FALSE
    BY <1>1, <1>2
  <2>1. q * s = h * s + (q - h) * s /\ (q - h) * s \in Nat
    BY <1>1, <1>2
  <2> QED BY <1>1, <1>2, <2>1
<1>4. phys_to_virt(f) = (q + h) * s + r /\ q + h \in Nat
  BY <1>1, <1>2 DEF phys_to_virt
<1>5. phys_to_virt(f) \div s = q + h /\ (phys_to_virt(f) % s) = r
  <2> DEFINE a == q + h
  <2>1. a \in Nat /\ phys_to_virt(f) = a * s + r
    BY <1>4
  <2> HIDE DEF a
  <2>2. (a * s + r) \div s = a /\ ((a * s + r) % s) = r
    BY <1>1, <1>2, <2>1, Quotient
  <2> QED BY <2>1, <2>2 DEF a
<1>6. ((q + h) % ENTRIES) = q + h
  BY <1>1, <1>2, <1>3
<1>7. Index(phys_to_virt(f), 2) = q + h
  BY <1>5, <1>6 DEF Index, s
<1>8. q + h \in Indices \ Low /\ (q + h) - h = q
  BY <1>1, <1>2, <1>3 DEF Indices, Low, h
<1> QED BY <1>2, <1>5, <1>7, <1>8 DEF s, h, q

-----------------------------------------------------------------------------
(* Pages and the break *)

\* How many pages an object takes
LEMMA PagesOf ==
  ASSUME NEW x \in Int, x > -PAGE_SIZE
  PROVE  /\ PagesFor(x) \in Nat
         /\ x <= 0 => PagesFor(x) = 0
         /\ x > 0 => PagesFor(x) >= 1 /\ PagesFor(x - PAGE_SIZE) = PagesFor(x) - 1
         /\ x <= PagesFor(x) * PAGE_SIZE
<1> DEFINE s == PAGE_SIZE
           p == x + s - 1
           q == p \div s
           r == (p % s)
<1>1. s \in Nat \ {0} /\ p \in Nat
  BY Sizes
<1> HIDE DEF s
<1>2. q \in Nat /\ r \in 0 .. (s - 1) /\ p = q * s + r /\ q * s \in Nat
  <2> HIDE DEF p
  <2> QED BY <1>1, DivMod
<1> HIDE DEF q, r
<1>3. PagesFor(x) = q
  BY DEF PagesFor, q, s
<1>4. x <= q * s
  BY <1>1, <1>2
<1>5. q = 0 => q * s = 0
  BY <1>1
<1>6. q # 0 => q * s >= s
  <2>1. q # 0 => q * s = (q - 1) * s + s /\ (q - 1) * s \in Nat
    BY <1>1, <1>2
  <2> QED BY <1>1, <1>2, <2>1
<1>7. x > 0 => q >= 1
  BY <1>1, <1>2, <1>4, <1>5
<1>8. x <= 0 => q = 0
  BY <1>1, <1>2, <1>6
<1>9. x > 0 => PagesFor(x - PAGE_SIZE) = q - 1
  <2> SUFFICES ASSUME x > 0 PROVE PagesFor(x - PAGE_SIZE) = q - 1
    OBVIOUS
  <2>1. q - 1 \in Nat /\ (x - s) + s - 1 = (q - 1) * s + r
    BY <1>1, <1>2, <1>7
  <2>2. ((q - 1) * s + r) \div s = q - 1
    BY <1>1, <1>2, <2>1, Quotient
  <2> QED BY <2>1, <2>2 DEF PagesFor, s
<1> QED BY <1>2, <1>3, <1>4, <1>7, <1>8, <1>9 DEF s

\* Where the break is before
LEMMA Before ==
  ASSUME curr \in Nat
  PROVE  /\ PagesFor(curr) \in Nat
         /\ \A k \in Nat \ {0} : Allocated(k) = PagesFor(curr) + (k - 1)
         /\ \A k \in Nat \ {0} : virt_to_phys(Allocated(k)) = Brk + (k - 1)
         /\ \A n \in Nat : MemoryFor(n) => HasMemory(n)
<1> DEFINE q == PagesFor(curr)
           s == PAGE_SIZE
<1>1. q \in Nat /\ s \in Nat \ {0} /\ PAGE_OFFSET \in Nat
  <2>1. curr \in Int /\ curr > -PAGE_SIZE
    BY Sizes
  <2> QED BY <2>1, Sizes, PagesOf
<1>2. (q * s) \div s = q
  <2> HIDE DEF q, s
  <2>1. (q * s + 0) \div s = q /\ q * s \in Nat
    BY <1>1, Quotient
  <2> QED BY <2>1
<1>3. \A k \in Nat \ {0} : Allocated(k) = q + (k - 1)
  BY <1>2 DEF Allocated, PageAlign
<1>4. \A k \in Nat \ {0} : virt_to_phys(Allocated(k)) = Brk + (k - 1)
  <2> HIDE DEF q
  <2> QED BY <1>1, <1>3 DEF virt_to_phys, Brk, q
<1>5. ASSUME NEW n \in Nat, MemoryFor(n) PROVE HasMemory(n)
  <2> SUFFICES ASSUME NEW k \in 0 .. (n - 1) PROVE Brk + k \in RAM
    BY DEF HasMemory
  <2>1. k + 1 \in 1 .. n /\ k + 1 \in Nat \ {0} /\ (k + 1) - 1 = k
    OBVIOUS
  <2>2. virt_to_phys(Allocated(k + 1)) \in RAM
    BY <1>5, <2>1 DEF MemoryFor
  <2>3. virt_to_phys(Allocated(k + 1)) = Brk + ((k + 1) - 1)
    BY <1>4, <2>1
  <2> QED BY <2>1, <2>2, <2>3
<1> QED BY <1>1, <1>3, <1>4, <1>5

\* and after some pages have been allocated
LEMMA After ==
  ASSUME curr \in Nat, Brk \in Nat, Brk * PAGE_SIZE >= END, NEW n \in Nat,
         curr' = CurrAfter(n)
  PROVE  /\ curr' \in Nat /\ Brk' = Brk + n /\ Brk' \in Nat /\ Brk' * PAGE_SIZE >= END
         /\ \A k \in Nat : (Brk + k) * PAGE_SIZE >= END
<1> DEFINE q == PagesFor(curr)
           s == PAGE_SIZE
           b == Brk
<1>1. /\ q \in Nat /\ s \in Nat \ {0} /\ PAGE_OFFSET \in Nat /\ END \in Nat
      /\ b \in Nat /\ b * s >= END /\ b = q - PAGE_OFFSET
  BY Sizes, PagesOf, UserPagingAssumption DEF Brk
<1>2. curr' = q * s + n * s
  BY DEF CurrAfter, PageAlign
<1> HIDE DEF q, s, b
<1>3. /\ curr' \in Nat /\ curr' = (q + n) * s
  <2>1. q * s \in Nat /\ n * s \in Nat /\ (q + n) * s = q * s + n * s
    BY <1>1
  <2> QED BY <1>2, <2>1
<1>4. PagesFor(curr') = q + n
  <2>1. s - 1 \in 0 .. (s - 1) /\ q + n \in Nat
    BY <1>1
  <2>2. ((q + n) * s + (s - 1)) \div s = q + n
    BY <1>1, <2>1, Quotient
  <2>3. (q + n) * s + s - 1 = (q + n) * s + (s - 1)
    BY <1>1, <1>3
  <2> QED BY <1>3, <2>2, <2>3 DEF PagesFor, s
<1>5. \A k \in Nat : (b + k) * s >= END
  <2> SUFFICES ASSUME NEW k \in Nat PROVE (b + k) * s >= END
    OBVIOUS
  <2>1. (b + k) * s = b * s + k * s /\ b * s \in Nat /\ k * s \in Nat
    BY <1>1
  <2> QED BY <1>1, <2>1
<1>6. Brk' = b + n
  BY <1>1, <1>4 DEF Brk
<1> QED BY <1>1, <1>3, <1>5, <1>6 DEF s, b

\* What is allocated
LEMMA UsedPages ==
  ASSUME Brk \in Nat, Brk * PAGE_SIZE >= END
  PROVE  /\ Used \subseteq RAM /\ RAM \subseteq Nat /\ RAM \subseteq UserPages
         /\ PGD \in RAM /\ PGD \notin Used /\ Brk \notin Used /\ PGD # Brk
<1>1. /\ RAM \subseteq 0 .. (PAGE_OFFSET - 1) /\ PGD \in RAM /\ END > PGD * PAGE_SIZE
      /\ END \in Nat /\ PAGE_OFFSET \in Nat /\ PAGE_SIZE \in Nat
  BY UserPagingAssumption, Sizes
<1>2. PGD * PAGE_SIZE \in Nat /\ Brk * PAGE_SIZE \in Nat
  BY <1>1
<1>3. UserPages = 0 .. (PAGE_OFFSET - 1)
  BY DEF UserPages
<1>4. PGD # Brk
  BY <1>1, <1>2
<1> QED BY <1>1, <1>2, <1>3, <1>4 DEF Used

-----------------------------------------------------------------------------
(* What the processor finds in the tables *)

\* An entry is an entry.
LEMMA EntryIsNone ==
  ASSUME NEW p \in Nat, NEW c \in {"table", "kernel", "rw", "rx"}
  PROVE  Entry(p, c) # NONE /\ Entry(p, c).ppn = p /\ Entry(p, c).perm = c
<1>1. NONE \notin [ppn : Nat, perm : {"table", "kernel", "rw", "rx"}]
  BY Sv39Assumption
<1>2. Entry(p, c) \in [ppn : Nat, perm : {"table", "kernel", "rw", "rx"}]
  BY DEF Entry
<1> QED BY <1>1, <1>2 DEF Entry

\* The user's pages are translated by the tree.
LEMMA UserSees ==
  ASSUME Tables, Mapped, Data, RAM \subseteq Nat, NEW v \in UserPages
  PROVE  Translate(mem, PGD, v) = mapped[v]
<1> DEFINE i == Index(v, 2)
           j == Index(v, 1)
           k == Index(v, 0)
<1>1. i \in Low /\ j \in Indices /\ k \in Indices /\ Leaf(v) = mapped[v]
  BY UserIndices DEF Mapped
<1>2. mapped[v] # NONE => /\ mapped[v] = Entry(mapped[v].ppn, mapped[v].perm)
                          /\ mapped[v].perm # "table" /\ mapped[v].ppn \in Nat
  BY DEF Data, UserEntry, IsData, Used
<1>3. LeafPage(mapped[v], v, 0) = mapped[v]
  <2>1. Span(0) = 1 /\ v \in Nat
    BY Sizes
  <2>2. (v % 1) = 0
    BY <2>1
  <2> QED BY <1>2, <2>1, <2>2 DEF LeafPage
<1>4. CASE ~ Has1(i)
  BY <1>1, <1>4 DEF Has1, Has0, Leaf, E2, Translate, LeafPage
<1>5. CASE Has1(i) /\ ~ Has0(i, j)
  <2>1. E2(i) # NONE /\ E2(i).perm = "table"
    BY <1>1, <1>5 DEF Tables, LeadsToTable, Has1, Entry
  <2>2. E1(i, j) = NONE /\ mapped[v] = NONE
    BY <1>1, <1>5 DEF Has0, Leaf
  <2> QED BY <2>1, <2>2 DEF E2, E1, Translate, LeafPage
<1>6. CASE Has0(i, j)
  <2>1. E2(i) # NONE /\ E2(i).perm = "table"
    BY <1>1, <1>6 DEF Tables, LeadsToTable, Has1, Has0, Entry
  <2>2. E1(i, j) # NONE /\ E1(i, j).perm = "table"
    BY <1>1, <1>6 DEF Tables, LeadsToTable, Has0, Entry
  <2>3. E0(i, j, k) = mapped[v]
    BY <1>1, <1>6 DEF Leaf
  <2>4. Translate(mem, PGD, v) = LeafPage(E0(i, j, k), v, 0)
    BY <2>1, <2>2 DEF E2, E1, E0, Translate
  <2> QED BY <1>3, <2>3, <2>4
<1> QED BY <1>4, <1>5, <1>6 DEF Has0

\* The kernel's by the superpages.
LEMMA KernelSees ==
  ASSUME KernelHalf, NEW f \in RAM
  PROVE  Translate(mem, PGD, phys_to_virt(f)) = Entry(f, "kernel")
<1> DEFINE v == phys_to_virt(f)
           i == Index(v, 2)
           base == (i - ENTRIES \div 2) * Span(2)
<1>1. f \in 0 .. (PAGE_OFFSET - 1) /\ f \in Nat
  BY UserPagingAssumption, Sizes
<1>2. /\ i \in Indices \ Low /\ base + (v % Span(2)) = f
      /\ i - ENTRIES \div 2 = f \div Span(2)
  BY <1>1, KernelIndices
<1>3. E2(i) = Entry(base, "kernel")
  <2>1. f \div Span(2) < NUM_PAGES \div Span(2)
    BY UserPagingAssumption
  <2> QED BY <1>2, <2>1 DEF KernelHalf
<1>4. base \in Nat
  <2>1. ENTRIES \div 2 \in Nat /\ ENTRIES \in Nat /\ Span(2) \in Nat
    BY Sizes
  <2>2. i - ENTRIES \div 2 \in Nat
    <3> HIDE DEF i
    <3> QED BY <1>2, <2>1 DEF Indices, Low
  <2> QED BY <2>1, <2>2
<1>5. E2(i) # NONE /\ E2(i).ppn = base /\ E2(i).perm = "kernel"
  <2>1. Entry(base, "kernel") # NONE
    <3> HIDE DEF base
    <3> QED BY <1>4, EntryIsNone
  <2> QED BY <1>3, <2>1 DEF Entry
<1> HIDE DEF base, i, v
<1>6. Translate(mem, PGD, v) = LeafPage(E2(i), v, 2)
  BY <1>5 DEF Translate, E2, i
<1>7. LeafPage(E2(i), v, 2) = Entry(base + (v % Span(2)), "kernel")
  BY <1>5 DEF LeafPage
<1> QED BY <1>2, <1>6, <1>7 DEF v

\* So the kernel's pointers lead to memory, and addresses of the user's nowhere.
LEMMA Derefs ==
  ASSUME Tables, Mapped, Data, KernelHalf, RAM \subseteq Nat
  PROVE  /\ \A f \in RAM : Deref(phys_to_virt(f)) = f /\ f # NONE
         /\ \A v \in UserPages : Deref(v) = NONE
<1>1. ASSUME NEW f \in RAM PROVE Deref(phys_to_virt(f)) = f /\ f # NONE
  <2>1. Translate(mem, PGD, phys_to_virt(f)) = Entry(f, "kernel") /\ f \in Nat
    BY <1>1, KernelSees
  <2>2. Entry(f, "kernel") # NONE /\ f # NONE
    BY <2>1, EntryIsNone, Sv39Assumption
  <2> QED BY <2>1, <2>2 DEF Deref, Entry
<1>2. ASSUME NEW v \in UserPages PROVE Deref(v) = NONE
  <2>1. Translate(mem, PGD, v) = mapped[v]
    BY <1>2, UserSees
  <2>2. mapped[v] # NONE => mapped[v].perm # "kernel"
    BY <1>2 DEF Data, UserEntry
  <2> QED BY <2>1, <2>2 DEF Deref
<1> QED BY <1>1, <1>2

-----------------------------------------------------------------------------
(* What the writes make of the tree *)

\* pagewalk makes a table of level 1.
LEMMA NewLevel1 ==
  ASSUME Tables, Apart, KernelHalf, Brk \in Nat, Brk * PAGE_SIZE >= END, Brk \in RAM,
         Brk' = Brk + 1, NEW a \in Low, ~ Has1(a),
         mem' = [mem EXCEPT ![Brk] = Zeroed, ![PGD][a] = Entry(Brk, "table")]
  PROVE  /\ Tables' /\ Apart' /\ KernelHalf'
         /\ E2(a)' = Entry(Brk, "table") /\ Has1(a)' /\ \A j \in Indices : E1(a, j)' = NONE
         /\ \A i \in Low : Has1(i)' => Has1(i) \/ i = a
         /\ \A v \in UserPages : Leaf(v)' = Leaf(v)
         /\ \A f : IsData(f) => IsData(f)' /\ mem'[f] = mem[f]
<1>1. /\ Used \subseteq RAM /\ PGD \in RAM /\ PGD \notin Used /\ Brk \notin Used /\ PGD # Brk
      /\ Low \subseteq Indices /\ DOMAIN mem = RAM /\ DOMAIN mem[PGD] = Indices
  BY UsedPages, Sizes DEF Tables
<1>2. Used \cup {Brk} \subseteq Used'
  <2>1. Brk + 1 > Brk /\ \A f \in Used : f \in Nat
    BY <1>1, UsedPages
  <2> QED BY <2>1 DEF Used
<1>3. /\ DOMAIN mem' = RAM /\ mem'[Brk] = Zeroed
      /\ mem'[PGD] = [mem[PGD] EXCEPT ![a] = Entry(Brk, "table")]
      /\ \A f \in Used : mem'[f] = mem[f]
  BY <1>1
<1>4. /\ E2(a)' = Entry(Brk, "table") /\ DOMAIN mem'[PGD] = Indices
      /\ \A i \in Indices : i # a => E2(i)' = E2(i)
  BY <1>1, <1>3 DEF E2
<1>5. Entry(Brk, "table") # NONE /\ Entry(Brk, "table").ppn = Brk
  BY EntryIsNone
<1>6. Has1(a)' /\ \A i \in Low : i # a => (Has1(i)' <=> Has1(i))
  BY <1>1, <1>4, <1>5 DEF Has1
<1>7. \A j \in Indices : E1(a, j)' = NONE /\ ~ Has0(a, j)'
  BY <1>3, <1>4, <1>5 DEF E1, Has0, Zeroed
<1>8. \A i \in Low : Has1(i) =>
        /\ i # a /\ E2(i)' = E2(i) /\ E2(i).ppn \in Used /\ E2(i).ppn # Brk
        /\ mem'[E2(i).ppn] = mem[E2(i).ppn]
        /\ LeadsToTable(E2(i)) /\ LeadsToTable(E2(i))'
        /\ \A j \in Indices : E1(i, j)' = E1(i, j)
  <2> SUFFICES ASSUME NEW i \in Low, Has1(i)
               PROVE  /\ i # a /\ E2(i)' = E2(i) /\ E2(i).ppn \in Used /\ E2(i).ppn # Brk
                      /\ mem'[E2(i).ppn] = mem[E2(i).ppn]
                      /\ LeadsToTable(E2(i)) /\ LeadsToTable(E2(i))'
                      /\ \A j \in Indices : E1(i, j)' = E1(i, j)
    OBVIOUS
  <2>1. i # a /\ E2(i)' = E2(i) /\ LeadsToTable(E2(i))
    BY <1>1, <1>4 DEF Tables
  <2>2. E2(i).ppn \in Used /\ E2(i).ppn # Brk /\ mem'[E2(i).ppn] = mem[E2(i).ppn]
    BY <1>1, <1>3, <2>1 DEF LeadsToTable
  <2>3. LeadsToTable(E2(i))'
    BY <1>2, <2>1, <2>2 DEF LeadsToTable
  <2> QED BY <2>1, <2>2, <2>3 DEF E1
<1>9. \A i \in Low, j \in Indices : Has0(i, j)' <=> Has0(i, j)
  <2> SUFFICES ASSUME NEW i \in Low, NEW j \in Indices PROVE Has0(i, j)' <=> Has0(i, j)
    OBVIOUS
  <2>1. CASE i = a
    BY <1>7, <2>1 DEF Has0
  <2>2. CASE i # a
    BY <1>6, <1>8, <2>2 DEF Has0
  <2> QED BY <2>1, <2>2
<1>10. \A i \in Low, j \in Indices : Has0(i, j) =>
         /\ i # a /\ Has1(i) /\ E1(i, j)' = E1(i, j) /\ E1(i, j).ppn \in Used /\ E1(i, j).ppn # Brk
         /\ mem'[E1(i, j).ppn] = mem[E1(i, j).ppn] /\ LeadsToTable(E1(i, j))'
  <2> SUFFICES ASSUME NEW i \in Low, NEW j \in Indices, Has0(i, j)
               PROVE  /\ i # a /\ Has1(i) /\ E1(i, j)' = E1(i, j)
                      /\ E1(i, j).ppn \in Used /\ E1(i, j).ppn # Brk
                      /\ mem'[E1(i, j).ppn] = mem[E1(i, j).ppn] /\ LeadsToTable(E1(i, j))'
    OBVIOUS
  <2>1. Has1(i) /\ i # a /\ E1(i, j)' = E1(i, j) /\ LeadsToTable(E1(i, j))
    BY <1>8 DEF Tables, Has0
  <2>2. E1(i, j).ppn \in Used /\ E1(i, j).ppn # Brk /\ mem'[E1(i, j).ppn] = mem[E1(i, j).ppn]
    BY <1>1, <1>3, <2>1 DEF LeadsToTable
  <2>3. LeadsToTable(E1(i, j))'
    BY <1>2, <2>1, <2>2 DEF LeadsToTable
  <2> QED BY <2>1, <2>2, <2>3
<1>11. Tables'
  <2>1. LeadsToTable(E2(a))'
    BY <1>2, <1>3, <1>4, <1>5 DEF LeadsToTable, Zeroed
  <2> QED BY <1>3, <1>4, <1>6, <1>8, <1>9, <1>10, <2>1 DEF Tables
<1>12. Apart'
  <2>1. \A i, k \in Low : Has1(i)' /\ Has1(k)' /\ E2(i)'.ppn = E2(k)'.ppn => i = k
    BY <1>4, <1>5, <1>6, <1>8 DEF Apart
  <2>2. \A i, k \in Low, j, l \in Indices :
          Has0(i, j)' /\ Has0(k, l)' /\ E1(i, j)'.ppn = E1(k, l)'.ppn => i = k /\ j = l
    BY <1>9, <1>10 DEF Apart
  <2>3. \A i, k \in Low, l \in Indices : Has1(i)' /\ Has0(k, l)' => E2(i)'.ppn # E1(k, l)'.ppn
    BY <1>4, <1>5, <1>6, <1>8, <1>9, <1>10 DEF Apart
  <2> QED BY <2>1, <2>2, <2>3 DEF Apart
<1>13. KernelHalf'
  BY <1>4 DEF KernelHalf
<1>14. ASSUME NEW v \in UserPages PROVE Leaf(v)' = Leaf(v)
  <2>1. Index(v, 2) \in Low /\ Index(v, 1) \in Indices
    BY UserIndices
  <2>2. Has0(Index(v, 2), Index(v, 1)) =>
          E0(Index(v, 2), Index(v, 1), Index(v, 0))' = E0(Index(v, 2), Index(v, 1), Index(v, 0))
    BY <1>10, <2>1 DEF E0
  <2> QED BY <1>9, <2>1, <2>2 DEF Leaf
<1>15. ASSUME NEW f, IsData(f) PROVE IsData(f)' /\ mem'[f] = mem[f]
  BY <1>1, <1>2, <1>3, <1>4, <1>5, <1>6, <1>8, <1>9, <1>10, <1>15 DEF IsData
<1> QED BY <1>4, <1>6, <1>7, <1>11, <1>12, <1>13, <1>14, <1>15

\* It makes one of level 0.
LEMMA NewLevel0 ==
  ASSUME Tables, Apart, KernelHalf, Brk \in Nat, Brk * PAGE_SIZE >= END, Brk \in RAM,
         Brk' = Brk + 1, NEW a \in Low, NEW b \in Indices, Has1(a), ~ Has0(a, b),
         mem' = [mem EXCEPT ![Brk] = Zeroed, ![E2(a).ppn][b] = Entry(Brk, "table")]
  PROVE  /\ Tables' /\ Apart' /\ KernelHalf'
         /\ \A i \in Low : E2(i)' = E2(i) /\ (Has1(i)' <=> Has1(i))
         /\ Has0(a, b)' /\ E1(a, b)' = Entry(Brk, "table")
         /\ \A v \in UserPages : Leaf(v)' = Leaf(v)
         /\ \A f : IsData(f) => IsData(f)' /\ mem'[f] = mem[f]
<1>1. /\ Used \subseteq RAM /\ PGD \in RAM /\ PGD \notin Used /\ Brk \notin Used /\ PGD # Brk
      /\ Low \subseteq Indices /\ DOMAIN mem = RAM /\ DOMAIN mem[PGD] = Indices
  BY UsedPages, Sizes DEF Tables
<1>2. Used \cup {Brk} \subseteq Used'
  <2>1. Brk + 1 > Brk /\ \A f \in Used : f \in Nat
    BY <1>1, UsedPages
  <2> QED BY <2>1 DEF Used
<1>3. PICK t \in Used : t = E2(a).ppn /\ t # Brk /\ t # PGD /\ DOMAIN mem[t] = Indices
  BY <1>1 DEF Tables, LeadsToTable
<1>4. /\ DOMAIN mem' = RAM /\ mem'[Brk] = Zeroed /\ mem'[PGD] = mem[PGD]
      /\ mem'[t] = [mem[t] EXCEPT ![b] = Entry(Brk, "table")]
      /\ \A f \in Used : f # t => mem'[f] = mem[f]
  BY <1>1, <1>3
<1>5. /\ \A i \in Indices : E2(i)' = E2(i)
      /\ \A i \in Low : E2(i)' = E2(i) /\ (Has1(i)' <=> Has1(i))
  BY <1>1, <1>4 DEF E2, Has1
<1>6. Entry(Brk, "table") # NONE /\ Entry(Brk, "table").ppn = Brk
  BY EntryIsNone
<1>7. \A i \in Low : Has1(i) =>
        /\ E2(i).ppn \in Used /\ E2(i).ppn # Brk /\ (i # a => E2(i).ppn # t)
        /\ LeadsToTable(E2(i))'
        /\ \A j \in Indices :
             E1(i, j)' = IF i = a /\ j = b THEN Entry(Brk, "table") ELSE E1(i, j)
  <2> SUFFICES ASSUME NEW i \in Low, Has1(i)
               PROVE  /\ E2(i).ppn \in Used /\ E2(i).ppn # Brk /\ (i # a => E2(i).ppn # t)
                      /\ LeadsToTable(E2(i))'
                      /\ \A j \in Indices :
                           E1(i, j)' = IF i = a /\ j = b THEN Entry(Brk, "table") ELSE E1(i, j)
    OBVIOUS
  <2>1. LeadsToTable(E2(i)) /\ E2(i).ppn \in Used /\ E2(i).ppn # Brk
    BY <1>1 DEF Tables, LeadsToTable
  <2>2. i # a => E2(i).ppn # t
    BY <1>3 DEF Apart
  <2>3. DOMAIN mem'[E2(i).ppn] = Indices
    BY <1>3, <1>4, <2>1, <2>2 DEF LeadsToTable
  <2>4. LeadsToTable(E2(i))'
    BY <1>2, <1>5, <2>1, <2>3 DEF LeadsToTable
  <2>5. CASE i = a
    <3>1. \A j \in Indices : mem'[t][j] = IF j = b THEN Entry(Brk, "table") ELSE mem[t][j]
      BY <1>3, <1>4
    <3> QED BY <1>3, <1>5, <2>1, <2>4, <2>5, <3>1 DEF E1
  <2>6. CASE i # a
    <3>1. mem'[E2(i).ppn] = mem[E2(i).ppn]
      BY <1>4, <2>1, <2>2, <2>6
    <3> QED BY <1>5, <2>1, <2>2, <2>4, <2>6, <3>1 DEF E1
  <2> QED BY <2>5, <2>6
<1>8. /\ Has0(a, b)' /\ E1(a, b)' = Entry(Brk, "table")
      /\ \A i \in Low, j \in Indices :
           ~ (i = a /\ j = b) => (Has0(i, j)' <=> Has0(i, j)) /\ (Has0(i, j) => E1(i, j)' = E1(i, j))
  BY <1>5, <1>6, <1>7 DEF Has0
<1>9. \A i \in Low, j \in Indices : Has0(i, j) =>
        /\ ~ (i = a /\ j = b) /\ E1(i, j)' = E1(i, j)
        /\ E1(i, j).ppn \in Used /\ E1(i, j).ppn # Brk
        /\ mem'[E1(i, j).ppn] = mem[E1(i, j).ppn] /\ LeadsToTable(E1(i, j))'
  <2> SUFFICES ASSUME NEW i \in Low, NEW j \in Indices, Has0(i, j)
               PROVE  /\ ~ (i = a /\ j = b) /\ E1(i, j)' = E1(i, j)
                      /\ E1(i, j).ppn \in Used /\ E1(i, j).ppn # Brk
                      /\ mem'[E1(i, j).ppn] = mem[E1(i, j).ppn] /\ LeadsToTable(E1(i, j))'
    OBVIOUS
  <2>1. ~ (i = a /\ j = b) /\ E1(i, j)' = E1(i, j) /\ LeadsToTable(E1(i, j))
    BY <1>8 DEF Tables
  <2>2. E1(i, j).ppn \in Used /\ E1(i, j).ppn # Brk /\ E1(i, j).ppn # t
    BY <1>1, <1>3, <2>1 DEF LeadsToTable, Apart
  <2>3. mem'[E1(i, j).ppn] = mem[E1(i, j).ppn]
    BY <1>4, <2>2
  <2>4. LeadsToTable(E1(i, j))'
    BY <1>2, <2>1, <2>2, <2>3 DEF LeadsToTable
  <2> QED BY <2>1, <2>2, <2>3, <2>4
<1>10. Tables'
  <2>1. LeadsToTable(E1(a, b))'
    BY <1>2, <1>4, <1>6, <1>8 DEF LeadsToTable, Zeroed
  <2>2. \A i \in Low, j \in Indices : Has0(i, j)' => LeadsToTable(E1(i, j))'
    BY <1>8, <1>9, <2>1
  <2> QED BY <1>1, <1>4, <1>5, <1>7, <2>2 DEF Tables
<1>11. Apart'
  <2>1. \A i, k \in Low : Has1(i)' /\ Has1(k)' /\ E2(i)'.ppn = E2(k)'.ppn => i = k
    BY <1>5 DEF Apart
  <2>2. \A i, k \in Low, j, l \in Indices :
          Has0(i, j)' /\ Has0(k, l)' /\ E1(i, j)'.ppn = E1(k, l)'.ppn => i = k /\ j = l
    BY <1>6, <1>8, <1>9 DEF Apart
  <2>3. \A i, k \in Low, l \in Indices : Has1(i)' /\ Has0(k, l)' => E2(i)'.ppn # E1(k, l)'.ppn
    BY <1>5, <1>6, <1>7, <1>8, <1>9 DEF Apart
  <2> QED BY <2>1, <2>2, <2>3 DEF Apart
<1>12. KernelHalf'
  BY <1>5 DEF KernelHalf
<1>13. ASSUME NEW v \in UserPages PROVE Leaf(v)' = Leaf(v)
  <2> DEFINE i == Index(v, 2)
             j == Index(v, 1)
             k == Index(v, 0)
  <2>1. i \in Low /\ j \in Indices /\ k \in Indices
    BY UserIndices
  <2>2. CASE i = a /\ j = b
    <3>1. E0(a, b, k)' = NONE
      BY <1>4, <1>6, <1>8, <2>1 DEF E0, Zeroed
    <3> QED BY <1>8, <2>2, <3>1 DEF Leaf
  <2>3. CASE ~ (i = a /\ j = b)
    <3>1. Has0(i, j) => E0(i, j, k)' = E0(i, j, k)
      BY <1>9, <2>1 DEF E0
    <3>2. Has0(i, j)' <=> Has0(i, j)
      BY <1>8, <2>1, <2>3
    <3> QED BY <3>1, <3>2 DEF Leaf
  <2> QED BY <2>2, <2>3
<1>14. ASSUME NEW f, IsData(f) PROVE IsData(f)' /\ mem'[f] = mem[f]
  <2>1. f \in Used /\ f # t /\ f # Brk
    BY <1>1, <1>3, <1>14 DEF IsData
  <2>2. f \in Used' /\ mem'[f] = mem[f]
    BY <1>2, <1>4, <2>1
  <2>3. \A i \in Low : Has1(i)' => E2(i)'.ppn # f
    BY <1>5, <1>14 DEF IsData
  <2>4. ASSUME NEW i \in Low, NEW j \in Indices, Has0(i, j)' PROVE E1(i, j)'.ppn # f
    <3>1. CASE i = a /\ j = b
      BY <1>6, <1>8, <2>1, <3>1
    <3>2. CASE ~ (i = a /\ j = b)
      <4>1. Has0(i, j) /\ E1(i, j)' = E1(i, j)
        BY <1>8, <2>4, <3>2
      <4> QED BY <1>14, <4>1 DEF IsData
    <3> QED BY <3>1, <3>2
  <2> QED BY <2>2, <2>3, <2>4 DEF IsData
<1> QED BY <1>5, <1>8, <1>10, <1>11, <1>12, <1>13, <1>14

\* It enters a page.
LEMMA NewLeaf ==
  ASSUME Tables, Apart, KernelHalf, Brk \in Nat, Brk * PAGE_SIZE >= END, Brk' = Brk,
         NEW a \in Low, NEW b \in Indices, NEW c \in Indices, Has0(a, b), NEW e,
         mem' = [mem EXCEPT ![E1(a, b).ppn][c] = e]
  PROVE  /\ Tables' /\ Apart' /\ KernelHalf'
         /\ \A i \in Low : Has1(i)' <=> Has1(i)
         /\ \A v \in UserPages :
              Leaf(v)' = IF Index(v, 2) = a /\ Index(v, 1) = b /\ Index(v, 0) = c
                           THEN e ELSE Leaf(v)
         /\ \A f : IsData(f) => IsData(f)' /\ mem'[f] = mem[f]
<1>1. /\ Used \subseteq RAM /\ PGD \in RAM /\ PGD \notin Used
      /\ Low \subseteq Indices /\ DOMAIN mem = RAM /\ DOMAIN mem[PGD] = Indices
      /\ Used' = Used
  <2>1. Used' = Used
    BY DEF Used
  <2> QED BY <2>1, UsedPages, Sizes DEF Tables
<1>2. PICK t \in Used : t = E1(a, b).ppn /\ t # PGD /\ DOMAIN mem[t] = Indices
  BY <1>1 DEF Tables, LeadsToTable
<1>3. /\ DOMAIN mem' = RAM /\ mem'[PGD] = mem[PGD]
      /\ mem'[t] = [mem[t] EXCEPT ![c] = e]
      /\ \A f \in Used : f # t => mem'[f] = mem[f]
  BY <1>1, <1>2
<1>4. /\ \A i \in Indices : E2(i)' = E2(i) /\ (Has1(i)' <=> Has1(i))
  BY <1>3 DEF E2, Has1
<1>5. \A i \in Low : Has1(i) =>
        LeadsToTable(E2(i))' /\ \A j \in Indices : E1(i, j)' = E1(i, j)
  <2> SUFFICES ASSUME NEW i \in Low, Has1(i)
               PROVE  LeadsToTable(E2(i))' /\ \A j \in Indices : E1(i, j)' = E1(i, j)
    OBVIOUS
  <2>1. LeadsToTable(E2(i)) /\ E2(i).ppn \in Used /\ E2(i).ppn # t
    BY <1>2 DEF Tables, LeadsToTable, Apart
  <2>2. mem'[E2(i).ppn] = mem[E2(i).ppn]
    BY <1>3, <2>1
  <2>3. E2(i)' = E2(i)
    BY <1>1, <1>4
  <2>4. LeadsToTable(E2(i))'
    BY <1>1, <2>1, <2>2, <2>3 DEF LeadsToTable
  <2> QED BY <2>2, <2>3, <2>4 DEF E1
<1>6. \A i \in Low, j \in Indices :
        (Has0(i, j)' <=> Has0(i, j)) /\ (Has0(i, j) => E1(i, j)' = E1(i, j))
  BY <1>1, <1>4, <1>5 DEF Has0
<1>7. \A i \in Low, j \in Indices : Has0(i, j) =>
        /\ LeadsToTable(E1(i, j))'
        /\ ~ (i = a /\ j = b) => mem'[E1(i, j).ppn] = mem[E1(i, j).ppn]
  <2> SUFFICES ASSUME NEW i \in Low, NEW j \in Indices, Has0(i, j)
               PROVE  /\ LeadsToTable(E1(i, j))'
                      /\ ~ (i = a /\ j = b) => mem'[E1(i, j).ppn] = mem[E1(i, j).ppn]
    OBVIOUS
  <2>1. LeadsToTable(E1(i, j)) /\ E1(i, j).ppn \in Used /\ E1(i, j)' = E1(i, j)
    BY <1>6 DEF Tables, LeadsToTable
  <2>2. ~ (i = a /\ j = b) => E1(i, j).ppn # t
    BY <1>2 DEF Apart
  <2>3. ~ (i = a /\ j = b) => mem'[E1(i, j).ppn] = mem[E1(i, j).ppn]
    BY <1>3, <2>1, <2>2
  <2>4. DOMAIN mem'[E1(i, j).ppn] = Indices
    BY <1>2, <1>3, <2>1, <2>3 DEF LeadsToTable
  <2> QED BY <1>1, <2>1, <2>3, <2>4 DEF LeadsToTable
<1>8. Tables'
  BY <1>1, <1>3, <1>4, <1>5, <1>6, <1>7 DEF Tables
<1>9. Apart'
  BY <1>1, <1>4, <1>5, <1>6 DEF Apart
<1>10. KernelHalf'
  BY <1>4 DEF KernelHalf
<1>11. ASSUME NEW v \in UserPages
       PROVE  Leaf(v)' = IF Index(v, 2) = a /\ Index(v, 1) = b /\ Index(v, 0) = c
                           THEN e ELSE Leaf(v)
  <2> DEFINE i == Index(v, 2)
             j == Index(v, 1)
             k == Index(v, 0)
  <2>1. i \in Low /\ j \in Indices /\ k \in Indices
    BY UserIndices
  <2>2. CASE i = a /\ j = b
    <3>1. E0(a, b, k)' = IF k = c THEN e ELSE E0(a, b, k)
      BY <1>2, <1>3, <1>6, <2>1 DEF E0
    <3> QED BY <1>6, <2>2, <3>1 DEF Leaf
  <2>3. CASE ~ (i = a /\ j = b)
    <3>1. Has0(i, j) => E0(i, j, k)' = E0(i, j, k)
      BY <1>6, <1>7, <2>1, <2>3 DEF E0
    <3>2. Has0(i, j)' <=> Has0(i, j)
      BY <1>6, <2>1
    <3> QED BY <2>3, <3>1, <3>2 DEF Leaf
  <2> QED BY <2>2, <2>3
<1>12. ASSUME NEW f, IsData(f) PROVE IsData(f)' /\ mem'[f] = mem[f]
  <2>1. f \in Used /\ f # t
    BY <1>2, <1>12 DEF IsData
  <2> QED BY <1>1, <1>3, <1>4, <1>6, <1>12, <2>1 DEF IsData
<1> QED BY <1>1, <1>4, <1>8, <1>9, <1>10, <1>11, <1>12

\* Whatever is written to other pages, exec's copy for one, leaves it alone.
LEMMA TreeStays ==
  ASSUME Tables, Apart, KernelHalf, Mapped, Data, Brk \in Nat, Brk * PAGE_SIZE >= END,
         DOMAIN mem' = RAM, \A f \in Used \cup {PGD} : mem'[f] = mem[f],
         Brk' \in Nat, Brk' >= Brk, mapped' = mapped
  PROVE  /\ Tables' /\ Apart' /\ KernelHalf' /\ Mapped' /\ Data'
         /\ \A i \in Low : (Has1(i)' <=> Has1(i)) /\ (InGiB(i)' <=> InGiB(i)) /\ E2(i)' = E2(i)
         /\ \A i \in Low, j \in Indices :
              (Has0(i, j)' <=> Has0(i, j)) /\ (Has1(i) => E1(i, j)' = E1(i, j))
         /\ \A f : IsData(f) => IsData(f)'
         /\ \A f \in RAM : f >= Brk /\ f < Brk' /\ f * PAGE_SIZE >= END => IsData(f)'
<1>1. /\ Used \subseteq RAM /\ RAM \subseteq Nat /\ PGD \in RAM /\ Low \subseteq Indices
      /\ Used \subseteq Used' /\ Brk' \in Nat /\ mem'[PGD] = mem[PGD]
  <2>1. \A f \in Used : f \in Nat /\ f < Brk'
    BY UsedPages DEF Used
  <2> QED BY <2>1, UsedPages, Sizes DEF Used
<1>2. \A i \in Indices : E2(i)' = E2(i) /\ (Has1(i)' <=> Has1(i))
  BY <1>1 DEF E2, Has1
<1>3. \A i \in Low, j \in Indices : Has1(i) => E1(i, j)' = E1(i, j) /\ LeadsToTable(E2(i))'
  <2> SUFFICES ASSUME NEW i \in Low, NEW j \in Indices, Has1(i)
               PROVE  E1(i, j)' = E1(i, j) /\ LeadsToTable(E2(i))'
    OBVIOUS
  <2>1. PICK e : e = E2(i)
    OBVIOUS
  <2>2. LeadsToTable(e) /\ E2(i)' = e
    BY <1>1, <1>2, <2>1 DEF Tables
  <2>3. mem'[e.ppn] = mem[e.ppn]
    BY <1>1, <2>2 DEF LeadsToTable
  <2>4. LeadsToTable(E2(i))'
    BY <1>1, <2>2, <2>3 DEF LeadsToTable
  <2> QED BY <2>1, <2>2, <2>3, <2>4 DEF E1
<1>4. \A i \in Low, j \in Indices : Has0(i, j)' <=> Has0(i, j)
  BY <1>1, <1>2, <1>3 DEF Has0
<1>5. \A i \in Low, j \in Indices : Has0(i, j) =>
        /\ E1(i, j)' = E1(i, j) /\ LeadsToTable(E1(i, j))'
        /\ \A k : E0(i, j, k)' = E0(i, j, k)
  <2> SUFFICES ASSUME NEW i \in Low, NEW j \in Indices, Has0(i, j)
               PROVE  /\ E1(i, j)' = E1(i, j) /\ LeadsToTable(E1(i, j))'
                      /\ \A k : E0(i, j, k)' = E0(i, j, k)
    OBVIOUS
  <2>1. E1(i, j)' = E1(i, j) /\ LeadsToTable(E1(i, j))
    BY <1>3 DEF Has0, Tables
  <2>2. mem'[E1(i, j).ppn] = mem[E1(i, j).ppn]
    BY <2>1 DEF LeadsToTable
  <2> QED BY <1>1, <2>1, <2>2 DEF E0, LeadsToTable
<1>6. Tables'
  <2>1. \A i \in Low : Has1(i)' => LeadsToTable(E2(i))'
    <3>1. 0 \in Indices
      BY Sv39Assumption DEF Indices
    <3> QED BY <1>1, <1>2, <1>3, <3>1
  <2>2. DOMAIN mem'[PGD] = Indices
    BY <1>1 DEF Tables
  <2> QED BY <1>4, <1>5, <2>1, <2>2 DEF Tables
<1>7. Apart'
  BY <1>1, <1>2, <1>4, <1>5 DEF Apart
<1>8. KernelHalf'
  BY <1>2 DEF KernelHalf
<1>9. Mapped'
  <2>1. ASSUME NEW v \in UserPages PROVE Leaf(v)' = Leaf(v)
    <3>1. Index(v, 2) \in Low /\ Index(v, 1) \in Indices
      BY UserIndices
    <3> QED BY <1>4, <1>5, <3>1 DEF Leaf
  <2> QED BY <2>1 DEF Mapped
<1>10. ASSUME NEW f, IsData(f) PROVE IsData(f)'
  BY <1>1, <1>2, <1>4, <1>5, <1>10 DEF IsData
<1>11. Data'
  BY <1>10 DEF Data, UserEntry
<1>12. \A i \in Low : InGiB(i)' <=> InGiB(i)
  BY DEF InGiB
<1>13. ASSUME NEW f \in RAM, f >= Brk, f < Brk', f * PAGE_SIZE >= END PROVE IsData(f)'
  <2>1. f \notin Used /\ f \in Used'
    BY <1>1, <1>13 DEF Used
  <2>2. \A i \in Low : Has1(i)' => E2(i)'.ppn # f
    BY <1>1, <1>2, <2>1 DEF Tables, LeadsToTable
  <2>3. \A i \in Low, j \in Indices : Has0(i, j)' => E1(i, j)'.ppn # f
    BY <1>4, <1>5, <2>1 DEF Tables, LeadsToTable
  <2> QED BY <2>1, <2>2, <2>3 DEF IsData
<1> QED BY <1>1, <1>2, <1>3, <1>4, <1>6, <1>7, <1>8, <1>9, <1>10, <1>11, <1>12, <1>13

-----------------------------------------------------------------------------
(* Steps *)

\* A call asks for pages of the user.
LEMMA VaIsUser ==
  ASSUME Calls, pc \in {"map_pages", "pagewalk"}, call.left > 0
  PROVE  call.va \in UserPages /\ Index(call.va, 2) \in Low /\ Index(call.va, 1) \in Indices
         /\ Index(call.va, 0) \in Indices /\ PagesFor(call.left) >= 1 /\ PagesFor(call.left) \in Nat
         /\ PagesFor(call.left - PAGE_SIZE) = PagesFor(call.left) - 1
<1>1. call.left \in Int /\ call.left > -PAGE_SIZE /\ call.va \in Nat
  BY DEF Calls
<1>2. /\ PagesFor(call.left) >= 1 /\ PagesFor(call.left) \in Nat
      /\ PagesFor(call.left - PAGE_SIZE) = PagesFor(call.left) - 1
  BY <1>1, PagesOf
<1>3. call.va \in UserPages
  <2>1. CASE OtherPages
    <3>1. call.va + PagesFor(call.left) <= PAGE_OFFSET
      BY <2>1 DEF OtherPages
    <3>2. PAGE_OFFSET \in Nat
      BY Sizes
    <3> QED BY <1>1, <1>2, <3>1, <3>2 DEF UserPages
  <2>2. CASE ProgramPages
    <3>1. call.va \in {0, 1}
      BY <2>2 DEF ProgramPages
    <3> QED BY <3>1, Sizes
  <2>3. CASE StackPage
    <3>1. call.va = STACK
      BY <2>3 DEF StackPage
    <3> QED BY <3>1, Sizes
  <2> QED BY <2>1, <2>2, <2>3 DEF Calls
<1> QED BY <1>2, <1>3, UserIndices

\* The walk that can read a table is on its way, and reads the one meant.
LEMMA WhereItIs ==
  ASSUME IInv, InTable
  PROVE  LET i == Index(call.va, 2)
             j == Index(call.va, 1)
         IN  /\ pc = "pagewalk" /\ call.left > 0 /\ ~ Lost
             /\ \/ level = 2 /\ Deref(page_table) = PGD
                \/ /\ level = 1 /\ Has1(i) /\ Deref(page_table) = E2(i).ppn
                   /\ \A l \in Indices : E1(i, l) = NONE
                \/ level = 0 /\ Has0(i, j) /\ Deref(page_table) = E1(i, j).ppn
<1>1. /\ pc = "pagewalk" /\ Deref(page_table) # NONE /\ call.left > 0 /\ (Lost \/ OnItsWay)
      /\ Tables /\ Apart /\ KernelHalf /\ Mapped /\ Data /\ Calls
      /\ Brk \in Nat /\ Brk * PAGE_SIZE >= END
  BY DEF IInv, InTable, Walk
<1>2. RAM \subseteq Nat /\ PGD \in RAM /\ Used \subseteq RAM
  BY <1>1, UsedPages
<1>3. /\ \A f \in RAM : Deref(phys_to_virt(f)) = f
      /\ \A v \in UserPages : Deref(v) = NONE
  BY <1>1, <1>2, Derefs
<1>4. ~ Lost
  BY <1>1, <1>3 DEF Lost
<1>5. Index(call.va, 2) \in Low /\ Index(call.va, 1) \in Indices
  BY <1>1, VaIsUser
<1> DEFINE i == Index(call.va, 2)
           j == Index(call.va, 1)
<1>6. /\ Has1(i) => E2(i).ppn \in RAM
      /\ Has0(i, j) => E1(i, j).ppn \in RAM
  BY <1>1, <1>2, <1>5 DEF Tables, LeadsToTable
<1>7. CASE level = 2 /\ page_table = phys_to_virt(PGD)
  BY <1>1, <1>2, <1>3, <1>4, <1>7
<1>8. CASE /\ level = 1 /\ Has1(i) /\ page_table = phys_to_virt(E2(i).ppn)
           /\ \A l \in Indices : E1(i, l) = NONE
  BY <1>1, <1>3, <1>4, <1>6, <1>8
<1>9. CASE level = 0 /\ Has0(i, j) /\ page_table = phys_to_virt(E1(i, j).ppn)
  BY <1>1, <1>3, <1>4, <1>6, <1>9
<1> QED BY <1>1, <1>4, <1>7, <1>8, <1>9 DEF OnItsWay

\* Less memory than there is is there.
LEMMA Enough ==
  ASSUME NEW n \in Int, HasMemory(n), Brk \in Nat
  PROVE  /\ \A m \in Int : m <= n => HasMemory(m)
         /\ n >= 1 => Brk \in RAM
         /\ \A d \in Nat, m \in Int : Brk' = Brk + d /\ m + d <= n => HasMemory(m)'
<1>1. \A m \in Int : m <= n => HasMemory(m)
  BY DEF HasMemory
<1>2. n >= 1 => Brk \in RAM
  <2>1. n >= 1 => 0 \in 0 .. (n - 1) /\ Brk + 0 = Brk
    OBVIOUS
  <2> QED BY <2>1 DEF HasMemory
<1>3. ASSUME NEW d \in Nat, NEW m \in Int, Brk' = Brk + d, m + d <= n PROVE HasMemory(m)'
  <2> SUFFICES ASSUME NEW k \in 0 .. (m - 1) PROVE Brk' + k \in RAM
    BY DEF HasMemory
  <2>1. d + k \in 0 .. (n - 1) /\ Brk' + k = Brk + (d + k)
    BY <1>3
  <2> QED BY <2>1 DEF HasMemory
<1> QED BY <1>1, <1>2, <1>3

\* setup_vm leaves the lower half empty.
LEMMA SetupStep == ASSUME IInv, setup_vm PROVE IInv'
<1>1. /\ pc = "setup_vm" /\ pc' = "start_kernel" /\ mem' = [mem EXCEPT ![PGD] = LinearMap]
      /\ curr' = curr /\ mapped' = mapped
      /\ mem = [f \in RAM |-> JUNK] /\ mapped = [v \in UserPages |-> NONE]
      /\ PGD \in RAM /\ Low \subseteq Indices
  BY UserPagingAssumption, Sizes DEF setup_vm, IInv, Phases
<1>2. DOMAIN mem' = RAM /\ mem'[PGD] = LinearMap
  BY <1>1
<1>3. \A i \in Low : ~ Has1(i)'
  <2>1. \A i \in Low : i \in Indices /\ ~ (i - ENTRIES \div 2 >= 0)
    BY <1>1, Sizes DEF Low, Indices
  <2> QED BY <1>2, <2>1 DEF Has1, E2, LinearMap
<1>4. KernelHalf'
  <2>1. ASSUME NEW n \in Indices \ Low
        PROVE  /\ n \in Indices
               /\ n - ENTRIES \div 2 \in 0 .. (NUM_PAGES \div Span(2) - 1)
                    <=> n - ENTRIES \div 2 < NUM_PAGES \div Span(2)
    <3>1. PICK g : g = NUM_PAGES \div Span(2)
      OBVIOUS
    <3>2. g \in Int
      BY <3>1, Sizes, UserPagingAssumption
    <3>3. n \in Indices /\ n - ENTRIES \div 2 \in Nat
      BY Sizes DEF Low, Indices
    <3> QED BY <3>1, <3>2, <3>3
  <2> QED BY <1>2, <2>1 DEF KernelHalf, E2, LinearMap
<1>5. \A i \in Low, j \in Indices : ~ Has0(i, j)'
  BY <1>3 DEF Has0
<1>6. Tables' /\ Apart'
  BY <1>2, <1>3, <1>5 DEF Tables, Apart, LinearMap
<1>7. Mapped'
  <2>1. ASSUME NEW v \in UserPages PROVE Leaf(v)' = NONE
    <3>1. Index(v, 2) \in Low /\ Index(v, 1) \in Indices
      BY UserIndices
    <3> QED BY <1>5, <3>1 DEF Leaf
  <2> QED BY <1>1, <2>1 DEF Mapped
<1>8. Data' /\ Occupied'
  BY <1>1, <1>3 DEF Data, Occupied
<1>9. Walk' /\ Calls' /\ Copied' /\ Phases'
  BY <1>1 DEF Walk, Calls, Copied, AfterExec, Phases
<1>10. curr' \in Nat /\ Brk' = Brk /\ Brk \in Nat /\ Brk * PAGE_SIZE >= END
  BY <1>1 DEF IInv, Brk
<1> QED BY <1>4, <1>6, <1>7, <1>8, <1>9, <1>10 DEF IInv

\* exec copies the program to memory nobody uses yet.
LEMMA ExecStep == ASSUME IInv, exec PROVE IInv'
<1>1. /\ pc = "start_kernel" /\ pc' = "map_pages" /\ curr' = CurrAfter(1) /\ MemoryFor(6)
      /\ mapped' = mapped
      /\ Tables /\ Apart /\ KernelHalf /\ Mapped /\ Data /\ Occupied
      /\ curr \in Nat /\ Brk \in Nat /\ Brk * PAGE_SIZE >= END
  BY DEF exec, CallMapPages, IInv
<1>2. /\ virt_to_phys(Allocated(1)) = Brk /\ HasMemory(6)
      /\ curr' \in Nat /\ Brk' = Brk + 1 /\ Brk' \in Nat /\ Brk' * PAGE_SIZE >= END
  <2>1. virt_to_phys(Allocated(1)) = Brk + (1 - 1) /\ HasMemory(6)
    BY <1>1, Before
  <2> QED BY <1>1, <2>1, After
<1>3. PICK filesize \in FileSizes :
        LET page == Allocated(1)
            copy == [k \in 0 .. (PagesFor(filesize) - 1) |-> virt_to_phys(page) + k]
        IN  /\ mem' = [f \in RAM |->
                         IF \E k \in DOMAIN copy : copy[k] = f
                           THEN <<"prog.bin", f - virt_to_phys(page)>>
                           ELSE mem[f]]
            /\ program' = copy
            /\ CallMapPages(0, filesize, page, "rx", "exec_stack")
  BY DEF exec
<1>4. PICK b \in Nat : b = Brk
  BY <1>1
<1> DEFINE n == PagesFor(filesize)
<1>5. /\ mem' = [f \in RAM |-> IF \E k \in 0 .. (n - 1) : b + k = f
                                 THEN <<"prog.bin", f - b>> ELSE mem[f]]
      /\ program' = [k \in 0 .. (n - 1) |-> b + k]
      /\ call' = [va |-> 0, left |-> filesize, pa |-> b, prot |-> "rx", return |-> "exec_stack"]
  BY <1>2, <1>3, <1>4 DEF CallMapPages
<1>6. /\ filesize \in Nat /\ n \in Nat /\ (filesize > 0 => n >= 1) /\ filesize > -PAGE_SIZE
      /\ b \in Nat /\ b \in RAM /\ RAM \subseteq Nat /\ PAGE_SIZE \in Nat \ {0}
  <2>1. filesize \in Nat /\ PAGE_SIZE \in Nat \ {0}
    BY UserPagingAssumption
  <2>2. filesize \in Int /\ filesize > -PAGE_SIZE
    BY <2>1
  <2>3. b \in RAM
    BY <1>1, <1>2, <1>4, Enough
  <2> QED BY <1>1, <2>1, <2>2, <2>3, PagesOf, UsedPages
<1>7. \A f \in Used \cup {PGD} : f \in Nat /\ f < b /\ f \in RAM
  <2>1. PGD < b
    <3>1. PGD * PAGE_SIZE < b * PAGE_SIZE /\ PGD \in Nat
      <4>1. PGD \in Nat /\ END \in Nat /\ END > PGD * PAGE_SIZE
        BY <1>1, <1>6, UserPagingAssumption, UsedPages
      <4>2. PGD * PAGE_SIZE \in Nat /\ b * PAGE_SIZE \in Nat
        BY <1>6, <4>1
      <4> QED BY <1>1, <1>4, <4>1, <4>2
    <3>2. PGD >= b => PGD * PAGE_SIZE = b * PAGE_SIZE + (PGD - b) * PAGE_SIZE
                      /\ (PGD - b) * PAGE_SIZE \in Nat
      BY <1>6, <3>1
    <3>3. b * PAGE_SIZE \in Nat /\ PGD * PAGE_SIZE \in Nat
      BY <1>6, <3>1
    <3> QED BY <1>6, <3>1, <3>2, <3>3
  <2> QED BY <1>1, <1>6, <1>4, <2>1, UsedPages DEF Used
<1>8. DOMAIN mem' = RAM /\ \A f \in Used \cup {PGD} : mem'[f] = mem[f]
  <2> HIDE DEF n
  <2> QED BY <1>5, <1>6, <1>7
<1>9. /\ Tables' /\ Apart' /\ KernelHalf' /\ Mapped' /\ Data' /\ IsData(b)'
      /\ \A i \in Low : (Has1(i)' <=> Has1(i)) /\ (InGiB(i)' <=> InGiB(i))
  <2>1. Brk' >= Brk /\ Brk < Brk'
    BY <1>1, <1>2
  <2>2. /\ Tables' /\ Apart' /\ KernelHalf' /\ Mapped' /\ Data'
        /\ \A i \in Low : (Has1(i)' <=> Has1(i)) /\ (InGiB(i)' <=> InGiB(i))
        /\ \A f \in RAM : f >= Brk /\ f < Brk' /\ f * PAGE_SIZE >= END => IsData(f)'
    BY <1>1, <1>2, <1>8, <2>1, TreeStays
  <2>3. IsData(b)'
    BY <1>1, <1>6, <1>4, <2>1, <2>2
  <2> QED BY <2>2, <2>3
<1>10. Occupied'
  BY <1>1, <1>9 DEF Occupied, Building
<1>11. Copied'
  <2>1. 0 \in DOMAIN program' => program'[0] = b /\ n >= 1
    BY <1>5, <1>6
  <2>2. n >= 1 => mem'[b] = <<"prog.bin", 0>>
    <3>1. n >= 1 => 0 \in 0 .. (n - 1) /\ b + 0 = b /\ b - b = 0
      BY <1>6
    <3> HIDE DEF n
    <3> QED BY <1>5, <1>6, <3>1
  <2>3. DOMAIN program' \in SUBSET Nat
    BY <1>5, <1>6
  <2> QED BY <1>9, <2>1, <2>2, <2>3 DEF Copied
<1>12. ProgramPages'
  <2>1. call'.va = 0 /\ call'.left = filesize /\ call'.pa = b /\ call'.prot = "rx"
    BY <1>5
  <2>2. DOMAIN program' = 0 .. (PagesFor(call'.left) + call'.va - 1)
    BY <1>5, <1>6, <2>1
  <2>3. filesize > 0 => program'[0] = b
    BY <1>5, <1>6
  <2>4. TablesLeft' = 2
    BY <1>1 DEF TablesLeft
  <2>5. HasMemory(5)'
    BY <1>1, <1>2, Enough
  <2>6. HasMemory(TablesLeft + 3)'
    BY <2>4, <2>5
  <2> QED BY <2>1, <2>2, <2>3, <2>6 DEF ProgramPages
<1>13. Calls'
  <2>1. call'.return = "exec_stack" /\ call'.va = 0 /\ call'.pa = b /\ call'.left = filesize
        /\ call' = [va |-> call'.va, left |-> call'.left, pa |-> call'.pa, prot |-> call'.prot,
                    return |-> call'.return]
    BY <1>5
  <2> QED BY <1>1, <1>6, <1>12, <2>1 DEF Calls
<1>14. Walk' /\ Phases'
  BY <1>1 DEF Walk, Phases
<1> QED BY <1>1, <1>2, <1>9, <1>10, <1>11, <1>13, <1>14 DEF IInv

\* It asks for one more page, for the stack.
LEMMA StackStep == ASSUME IInv, exec_stack PROVE IInv'
<1>1. /\ pc = "exec_stack" /\ pc' = "map_pages" /\ curr' = CurrAfter(1)
      /\ call' = [va |-> STACK, left |-> PAGE_SIZE, pa |-> virt_to_phys(Allocated(1)),
                  prot |-> "rw", return |-> "user"]
      /\ mapped' = mapped /\ mem' = mem /\ program' = program
      /\ Tables /\ Apart /\ KernelHalf /\ Mapped /\ Data /\ Occupied /\ Copied
      /\ curr \in Nat /\ Brk \in Nat /\ Brk * PAGE_SIZE >= END
      /\ HasMemory(3) /\ ProgramThere
  BY DEF exec_stack, CallMapPages, IInv, Calls
<1>2. /\ virt_to_phys(Allocated(1)) = Brk
      /\ curr' \in Nat /\ Brk' = Brk + 1 /\ Brk' \in Nat /\ Brk' * PAGE_SIZE >= END
  <2>1. virt_to_phys(Allocated(1)) = Brk + (1 - 1)
    BY <1>1, Before
  <2> QED BY <1>1, <2>1, After
<1>3. PICK b \in RAM : b = Brk
  BY <1>1, Enough
<1>4. /\ Tables' /\ Apart' /\ KernelHalf' /\ Mapped' /\ Data' /\ IsData(b)'
      /\ \A i \in Low : (Has1(i)' <=> Has1(i)) /\ (InGiB(i)' <=> InGiB(i))
      /\ \A f : IsData(f) => IsData(f)'
  <2>1. Brk' >= Brk /\ Brk < Brk' /\ DOMAIN mem' = RAM /\ \A f \in Used \cup {PGD} : mem'[f] = mem[f]
    BY <1>1, <1>2 DEF Tables
  <2>2. /\ Tables' /\ Apart' /\ KernelHalf' /\ Mapped' /\ Data'
        /\ \A i \in Low : (Has1(i)' <=> Has1(i)) /\ (InGiB(i)' <=> InGiB(i))
        /\ \A f : IsData(f) => IsData(f)'
        /\ \A f \in RAM : f >= Brk /\ f < Brk' /\ f * PAGE_SIZE >= END => IsData(f)'
    BY <1>1, <1>2, <2>1, TreeStays
  <2>3. IsData(b)'
    BY <1>1, <1>3, <2>1, <2>2
  <2> QED BY <2>2, <2>3
<1>5. Occupied'
  BY <1>1, <1>4 DEF Occupied, Building
<1>6. Copied'
  BY <1>1, <1>4 DEF Copied, AfterExec
<1>7. StackPage'
  <2>1. /\ call'.prot = "rw" /\ call'.va = STACK /\ call'.left = PAGE_SIZE /\ call'.pa = b
    BY <1>1, <1>2, <1>3
  <2>2. TablesLeft' = 2
    BY <1>1 DEF TablesLeft
  <2>3. HasMemory(2)'
    BY <1>1, <1>2, Enough
  <2>4. HasMemory(TablesLeft)'
    BY <2>2, <2>3
  <2>5. ProgramThere'
    BY <1>1 DEF ProgramThere
  <2> QED BY <1>4, <2>1, <2>4, <2>5 DEF StackPage
<1>8. Calls'
  <2>1. /\ call' = [va |-> call'.va, left |-> call'.left, pa |-> call'.pa, prot |-> call'.prot,
                    return |-> call'.return]
        /\ call'.va = STACK /\ call'.left = PAGE_SIZE /\ call'.pa = b /\ call'.return = "user"
    BY <1>1, <1>2, <1>3
  <2>2. STACK \in Nat /\ b \in Nat /\ PAGE_SIZE \in Nat \ {0}
    BY <1>1, <1>3, UsedPages, Sizes
  <2>3. /\ call'.va \in Nat /\ call'.pa \in Nat /\ call'.left \in Int /\ call'.left > -PAGE_SIZE
    BY <2>1, <2>2
  <2> QED BY <1>1, <1>7, <2>1, <2>3 DEF Calls
<1>9. Walk' /\ Phases'
  BY <1>1 DEF Walk, Phases
<1> QED BY <1>1, <1>2, <1>4, <1>5, <1>6, <1>8, <1>9 DEF IInv

\* The kernel maps other pages.
LEMMA OtherStep == ASSUME IInv, OtherCall PROVE IInv'
<1>1. /\ pc = "start_kernel" /\ pc' = "map_pages" /\ mapped' = mapped /\ mem' = mem
      /\ Tables /\ Apart /\ KernelHalf /\ Mapped /\ Data /\ Occupied
      /\ curr \in Nat /\ Brk \in Nat /\ Brk * PAGE_SIZE >= END
  BY DEF OtherCall, CallMapPages, IInv
<1>2. PICK va \in CallPages, size \in CallSizes :
        /\ MemoryFor(3 * PagesFor(size)) /\ curr' = CurrAfter(PagesFor(size))
        /\ call' = [va |-> va, left |-> size, pa |-> virt_to_phys(Allocated(1)),
                    prot |-> "rw", return |-> "start_kernel"]
  BY DEF OtherCall, CallMapPages
<1>3. PICK b \in Nat : b = Brk
  BY <1>1
<1>4. PICK n \in Nat : n = PagesFor(size) /\ (size > 0 => n >= 1) /\ size \in Nat
                       /\ size > -PAGE_SIZE /\ va \in Nat /\ va + n <= PAGE_OFFSET
  <2>1. size \in Nat /\ PAGE_SIZE \in Nat \ {0} /\ va + PagesFor(size) <= PAGE_OFFSET /\ va \in UserPages
    BY UserPagingAssumption
  <2>2. size \in Int /\ size > -PAGE_SIZE /\ va \in Nat
    BY <2>1, Sizes
  <2>3. PagesFor(size) \in Nat /\ (size > 0 => PagesFor(size) >= 1)
    BY <2>2, PagesOf
  <2> QED BY <2>1, <2>2, <2>3
<1>5. /\ virt_to_phys(Allocated(1)) = b /\ HasMemory(3 * n)
      /\ curr' \in Nat /\ Brk' = b + n /\ Brk' \in Nat /\ Brk' * PAGE_SIZE >= END
      /\ \A k \in Nat : (b + k) * PAGE_SIZE >= END
  <2>1. 3 * n \in Nat /\ MemoryFor(3 * n) /\ curr' = CurrAfter(n)
    BY <1>2, <1>4
  <2>2. virt_to_phys(Allocated(1)) = Brk + (1 - 1) /\ HasMemory(3 * n)
    BY <1>1, <2>1, Before
  <2>3. /\ curr' \in Nat /\ Brk' = Brk + n /\ Brk' \in Nat /\ Brk' * PAGE_SIZE >= END
        /\ \A k \in Nat : (Brk + k) * PAGE_SIZE >= END
    BY <1>1, <2>1, After
  <2> QED BY <1>3, <2>2, <2>3
<1>6. /\ Tables' /\ Apart' /\ KernelHalf' /\ Mapped' /\ Data'
      /\ \A i \in Low : (Has1(i)' <=> Has1(i)) /\ (InGiB(i)' <=> InGiB(i))
      /\ \A k \in 0 .. (n - 1) : IsData(b + k)'
  <2>1. Brk' >= Brk /\ DOMAIN mem' = RAM /\ \A f \in Used \cup {PGD} : mem'[f] = mem[f]
    BY <1>1, <1>3, <1>4, <1>5 DEF Tables
  <2>2. /\ Tables' /\ Apart' /\ KernelHalf' /\ Mapped' /\ Data'
        /\ \A i \in Low : (Has1(i)' <=> Has1(i)) /\ (InGiB(i)' <=> InGiB(i))
        /\ \A f \in RAM : f >= Brk /\ f < Brk' /\ f * PAGE_SIZE >= END => IsData(f)'
    BY <1>1, <1>5, <2>1, TreeStays
  <2>3. ASSUME NEW k \in 0 .. (n - 1) PROVE IsData(b + k)'
    <3>1. k \in 0 .. (3 * n - 1) /\ b + k >= b /\ b + k < b + n /\ k \in Nat
      BY <1>4, <2>3
    <3>2. b + k \in RAM
      BY <1>3, <1>5, <3>1 DEF HasMemory
    <3>3. PICK f \in RAM : f = b + k
      BY <3>2
    <3>4. IsData(f)'
      BY <1>3, <1>5, <2>2, <3>1, <3>3
    <3> QED BY <3>3, <3>4
  <2> QED BY <2>2, <2>3
<1>7. Occupied'
  BY <1>1, <1>6 DEF Occupied, Building
<1>8. /\ call' = [va |-> call'.va, left |-> call'.left, pa |-> call'.pa, prot |-> call'.prot,
                  return |-> call'.return]
      /\ call'.va = va /\ call'.left = size /\ call'.pa = b /\ call'.return = "start_kernel"
      /\ call'.prot = "rw" /\ PagesFor(call'.left) = n
  BY <1>2, <1>4, <1>5
<1>9. OtherPages'
  <2>1. TablesLeft' = 2
    BY <1>1 DEF TablesLeft
  <2>2. HasMemory(2 * (n - 1) + 2)'
    <3>1. 3 * n \in Int /\ 2 * (n - 1) + 2 \in Int /\ (2 * (n - 1) + 2) + n <= 3 * n /\ Brk' = Brk + n
      BY <1>3, <1>4, <1>5
    <3> QED BY <1>1, <1>4, <1>5, <3>1, Enough
  <2>3. HasMemory(2 * (PagesFor(call.left) - 1) + TablesLeft)'
    BY <1>8, <2>1, <2>2
  <2> QED BY <1>4, <1>6, <1>8, <2>3 DEF OtherPages
<1>10. Calls'
  BY <1>1, <1>3, <1>4, <1>8, <1>9 DEF Calls
<1>11. Walk' /\ Phases' /\ Copied'
  BY <1>1, <1>8 DEF Walk, Phases, Copied, AfterExec
<1> QED BY <1>1, <1>5, <1>6, <1>7, <1>10, <1>11 DEF IInv

\* What a step that writes to no table has to show
LEMMA QuietStep ==
  ASSUME IInv, pc # "setup_vm", mem' = mem, curr' = curr, mapped' = mapped, pc' # "setup_vm",
         Phases', Walk', Calls',
         \A i \in Low : Building(i) => InGiB(i) \/ Building(i)',
         Copied'
  PROVE  IInv'
<1>1. /\ Tables /\ Apart /\ KernelHalf /\ Mapped /\ Data /\ Occupied
      /\ curr \in Nat /\ Brk \in Nat /\ Brk * PAGE_SIZE >= END
  BY DEF IInv
<1>2. Brk' = Brk /\ Brk' >= Brk
  BY <1>1 DEF Brk
<1>3. DOMAIN mem' = RAM /\ \A f \in Used \cup {PGD} : mem'[f] = mem[f]
  BY <1>1 DEF Tables
<1>4. /\ Tables' /\ Apart' /\ KernelHalf' /\ Mapped' /\ Data'
      /\ \A i \in Low : (Has1(i)' <=> Has1(i)) /\ (InGiB(i)' <=> InGiB(i))
  BY <1>1, <1>2, <1>3, TreeStays
<1>5. Occupied'
  BY <1>1, <1>4 DEF Occupied
<1> QED BY <1>1, <1>2, <1>4, <1>5 DEF IInv

\* Without prog.bin nothing is mapped.
LEMMA FailsStep == ASSUME IInv, exec_fails PROVE IInv'
<1>1. /\ pc = "start_kernel" /\ pc' = "echo" /\ mem' = mem /\ curr' = curr /\ mapped' = mapped
  BY DEF exec_fails
<1>2. Phases' /\ Walk' /\ Calls' /\ Copied'
  BY <1>1 DEF Phases, Walk, Calls, Copied, AfterExec
<1> QED BY <1>1, <1>2, QuietStep DEF Building

\* map_pages starts a walk at pgd
LEMMA LoopStep == ASSUME IInv, map_pages PROVE IInv'
<1>1. /\ pc = "map_pages" /\ pc' = "pagewalk" /\ call.left > 0 /\ level' = 2
      /\ page_table' = phys_to_virt(PGD) /\ mem' = mem /\ curr' = curr /\ call' = call
      /\ mapped' = mapped /\ program' = program /\ Calls /\ Copied /\ Tables /\ Apart
  BY DEF map_pages, IInv
<1>2. Walk' /\ Phases'
  BY <1>1 DEF Walk, OnItsWay, Phases
<1>3. \A f : IsData(f)' <=> IsData(f)
  BY <1>1 DEF IsData, Used, Brk, Has0, Has1, E2, E1
<1>4. \A n : HasMemory(n)' <=> HasMemory(n)
  BY <1>1 DEF HasMemory, Brk
<1>5. Copied'
  BY <1>1, <1>3 DEF Copied, AfterExec
<1>6. TablesLeft' = 2 /\ TablesLeft = 2
  BY <1>1 DEF TablesLeft
<1>7. Calls'
  <2>1. OtherPages => OtherPages'
    BY <1>1, <1>3, <1>4, <1>6 DEF OtherPages
  <2>2. ProgramPages => ProgramPages'
    BY <1>1, <1>4, <1>6 DEF ProgramPages
  <2>3. StackPage => StackPage'
    BY <1>1, <1>3, <1>4, <1>6 DEF StackPage, ProgramThere
  <2> QED BY <1>1, <2>1, <2>2, <2>3 DEF Calls
<1> QED BY <1>1, <1>2, <1>5, <1>7, QuietStep DEF Building

\* and returns when nothing is left.
LEMMA ReturnStep == ASSUME IInv, map_pages_returns PROVE IInv'
<1>1. /\ pc = "map_pages" /\ pc' = call.return /\ call.left <= 0 /\ mem' = mem /\ curr' = curr
      /\ mapped' = mapped /\ program' = program /\ Calls /\ Copied
      /\ Brk \in Nat
  BY DEF map_pages_returns, IInv
<1>2. /\ call.left \in Int /\ call.left <= 0 /\ PagesFor(call.left) = 0
      /\ \/ call.return = "start_kernel" /\ OtherPages
         \/ call.return = "exec_stack" /\ ProgramPages
         \/ call.return = "user" /\ StackPage
  <2>1. call.left \in Int /\ call.left > -PAGE_SIZE
    BY <1>1 DEF Calls
  <2>2. PagesFor(call.left) = 0
    BY <1>1, <2>1, PagesOf
  <2> QED BY <1>1, <2>1, <2>2 DEF Calls
<1>3. pc' \in {"start_kernel", "exec_stack", "user"}
  BY <1>1, <1>2
<1>4. Walk' /\ Phases' /\ \A i \in Low : ~ Building(i)
  BY <1>1, <1>3 DEF Walk, Phases, Building
<1>5. Copied'
  <2>1. \A f : IsData(f)' <=> IsData(f)
    BY <1>1 DEF IsData, Used, Brk, Has0, Has1, E2, E1
  <2>2. AfterExec' => AfterExec
    BY <1>1, <1>3 DEF AfterExec
  <2> QED BY <1>1, <2>1, <2>2 DEF Copied
<1>6. \A n : HasMemory(n)' <=> HasMemory(n)
  BY <1>1 DEF HasMemory, Brk
<1>7. ASSUME ProgramPages PROVE HasMemory(3)' /\ ProgramThere'
  <2>1. HasMemory(3)
    <3>1. TablesLeft = 2
      BY <1>1 DEF TablesLeft
    <3>2. HasMemory(5) \/ HasMemory(3)
      BY <1>7, <3>1 DEF ProgramPages
    <3> QED BY <1>1, <3>2, Enough
  <2>2. ProgramThere
    <3>1. DOMAIN program = 0 .. (call.va - 1)
      <4>1. call.va \in Nat /\ DOMAIN program = 0 .. (0 + call.va - 1)
        BY <1>2, <1>7 DEF ProgramPages
      <4> QED BY <4>1
    <3>2. \/ call.va = 0
          \/ call.va = 1 /\ mapped[0] = Entry(program[0], "rx")
      BY <1>7 DEF ProgramPages
    <3> QED BY <3>1, <3>2 DEF ProgramThere
  <2> QED BY <1>1, <1>6, <2>1, <2>2 DEF ProgramThere
<1>8. ASSUME StackPage PROVE ProgramThere' /\ mapped'[STACK] # NONE /\ mapped'[STACK].perm = "rw"
  <2>1. ~ (call.left = PAGE_SIZE)
    BY <1>2, Sizes
  <2> QED BY <1>1, <1>8, <2>1 DEF StackPage, ProgramThere
<1>9. Calls'
  BY <1>1, <1>2, <1>3, <1>7, <1>8 DEF Calls
<1> QED BY <1>1, <1>3, <1>4, <1>5, <1>9, QuietStep

\* A table that is there: the walk takes its physical address for a pointer.
LEMMA DescendStep == ASSUME IInv, Descend PROVE IInv'
<1>1. /\ InTable /\ level > 0 /\ PageTableEntry # NONE /\ page_table' = PageTableEntry.ppn
      /\ level' = level - 1 /\ pc' = pc /\ mem' = mem /\ curr' = curr /\ call' = call
      /\ mapped' = mapped /\ program' = program
  BY DEF Descend
<1>2. pc = "pagewalk" /\ call.left > 0
  BY <1>1, WhereItIs
<1>3. Tables /\ Apart /\ Occupied /\ Calls /\ Copied /\ Brk \in Nat /\ Brk * PAGE_SIZE >= END
  BY <1>2 DEF IInv
<1> DEFINE i == Index(call.va, 2)
           j == Index(call.va, 1)
<1>4. i \in Low /\ j \in Indices
  BY <1>2, <1>3, VaIsUser
<1>5. level = 2 /\ Deref(page_table) = PGD
  <2>1. \/ level = 2 /\ Deref(page_table) = PGD
        \/ /\ level = 1 /\ Has1(i) /\ Deref(page_table) = E2(i).ppn
           /\ \A l \in Indices : E1(i, l) = NONE
        \/ level = 0
    BY <1>1, WhereItIs
  <2>2. ASSUME level = 1, Deref(page_table) = E2(i).ppn, \A l \in Indices : E1(i, l) = NONE
        PROVE FALSE
    <3>1. PageTableEntry = E1(i, j)
      BY <2>2 DEF PageTableEntry, E1
    <3> QED BY <1>1, <1>4, <2>2, <3>1
  <2> QED BY <1>1, <2>1, <2>2
<1>6. PageTableEntry = E2(i) /\ Has1(i)
  BY <1>1, <1>5 DEF PageTableEntry, E2, Has1
<1>7. page_table' \in UserPages
  BY <1>1, <1>3, <1>4, <1>6, UsedPages DEF Tables, LeadsToTable
<1>8. InGiB(i)
  BY <1>3, <1>4, <1>5, <1>6 DEF Occupied, Building
<1>9. level' = 1 /\ pc' = "pagewalk"
  BY <1>1, <1>2, <1>5
<1>10. Lost'
  BY <1>1, <1>7, <1>8, <1>9 DEF Lost, InGiB
<1>11. Walk' /\ Phases'
  BY <1>1, <1>2, <1>9, <1>10 DEF Walk, Phases
<1>12. \A f : IsData(f)' <=> IsData(f)
  BY <1>1 DEF IsData, Used, Brk, Has0, Has1, E2, E1
<1>13. Copied'
  BY <1>1, <1>3, <1>12 DEF Copied, AfterExec
<1>14. TablesLeft' = 1 /\ TablesLeft = 2
  BY <1>2, <1>5, <1>9 DEF TablesLeft
<1>15. \A n, m \in Int : m <= n /\ HasMemory(n) => HasMemory(m)'
  BY <1>1 DEF HasMemory, Brk
<1>16. Calls'
  <2>1. ASSUME OtherPages PROVE OtherPages'
    <3>1. PagesFor(call.left) \in Nat
      BY <1>2, <1>3, VaIsUser
    <3>2. PICK n \in Int : n = 2 * (PagesFor(call.left) - 1) + 1
      BY <3>1
    <3>3. HasMemory(n)'
      <4>1. n + 1 = 2 * (PagesFor(call.left) - 1) + TablesLeft /\ n + 1 \in Int /\ n <= n + 1
        BY <1>14, <3>1, <3>2
      <4>2. HasMemory(n + 1)
        BY <1>2, <2>1, <4>1 DEF OtherPages
      <4> QED BY <1>15, <4>1, <4>2
    <3>4. HasMemory(2 * (PagesFor(call.left) - 1) + TablesLeft)'
      <4>1. n = 2 * (PagesFor(call'.left) - 1) + TablesLeft'
        BY <1>1, <1>14, <3>2
      <4> QED BY <3>3, <4>1
    <3> QED BY <1>1, <1>12, <2>1, <3>4 DEF OtherPages
  <2>2. ASSUME ProgramPages PROVE ProgramPages'
    <3>1. HasMemory(TablesLeft + 3) => HasMemory(TablesLeft + 3)'
      <4>1. HasMemory(5) => HasMemory(4)'
        BY <1>15
      <4> QED BY <1>14, <4>1
    <3>2. HasMemory(3) => HasMemory(3)'
      BY <1>15
    <3> QED BY <1>1, <1>10, <2>2, <3>1, <3>2 DEF ProgramPages
  <2>3. ASSUME StackPage PROVE StackPage'
    <3>1. HasMemory(TablesLeft) => HasMemory(TablesLeft)'
      <4>1. HasMemory(2) => HasMemory(1)'
        BY <1>15
      <4> QED BY <1>14, <4>1
    <3> QED BY <1>1, <1>12, <2>3, <3>1 DEF StackPage, ProgramThere
  <2> QED BY <1>1, <1>2, <1>3, <2>1, <2>2, <2>3 DEF Calls
<1>17. \A l \in Low : Building(l) => InGiB(l) \/ Building(l)'
  BY <1>5 DEF Building
<1> QED BY <1>1, <1>2, <1>9, <1>11, <1>13, <1>16, <1>17, QuietStep

\* The access through it fails, in a GiB in which there is a page already.
LEMMA FaultStep == ASSUME IInv, Fault PROVE IInv'
<1>1. /\ pc = "pagewalk" /\ Deref(page_table) = NONE /\ pc' = "fault" /\ mem' = mem
      /\ curr' = curr /\ call' = call /\ level' = level /\ page_table' = page_table
      /\ mapped' = mapped /\ program' = program
  BY DEF Fault
<1>2. /\ Tables /\ Apart /\ KernelHalf /\ Mapped /\ Data /\ Calls /\ call.left > 0
      /\ (Lost \/ OnItsWay) /\ Brk \in Nat /\ Brk * PAGE_SIZE >= END
  BY <1>1 DEF IInv, Walk
<1>3. RAM \subseteq Nat /\ PGD \in RAM /\ Used \subseteq RAM
  BY <1>2, UsedPages
<1>4. \A f \in RAM : Deref(phys_to_virt(f)) # NONE
  BY <1>2, <1>3, Derefs
<1> DEFINE i == Index(call.va, 2)
           j == Index(call.va, 1)
<1>5. i \in Low /\ j \in Indices
  BY <1>1, <1>2, VaIsUser
<1>6. /\ Has1(i) => E2(i).ppn \in RAM
      /\ Has0(i, j) => E1(i, j).ppn \in RAM
  BY <1>2, <1>3, <1>5 DEF Tables, LeadsToTable
<1>7. Lost
  BY <1>1, <1>2, <1>3, <1>4, <1>6 DEF OnItsWay
<1>8. InGiB(i)
  BY <1>7 DEF Lost
<1>9. Walk' /\ Phases' /\ Calls' /\ Copied'
  BY <1>1, <1>8 DEF Walk, InGiB, Phases, Calls, Copied, AfterExec
<1>10. \A l \in Low : Building(l) => InGiB(l)
  BY <1>8 DEF Building
<1> QED BY <1>1, <1>9, <1>10, QuietStep

\* Where nothing else has been mapped the walk makes its tables.
LEMMA Memory ==
  ASSUME IInv, InTable, level > 0, PageTableEntry = NONE
  PROVE  /\ Brk \in RAM
         /\ ProgramPages /\ call.return = "exec_stack" => call.va = 0
<1>1. /\ pc = "pagewalk" /\ call.left > 0 /\ ~ Lost
      /\ \/ level = 2 /\ Deref(page_table) = PGD
         \/ level = 1 /\ Has1(Index(call.va, 2))
         \/ level = 0
  BY WhereItIs
<1>2. Calls /\ Copied /\ Mapped /\ Brk \in Nat /\ level \in {1, 2} /\ RAM \subseteq Nat
      /\ Brk * PAGE_SIZE >= END /\ Used \subseteq RAM
  <2>1. Brk \in Nat /\ Brk * PAGE_SIZE >= END
    BY <1>1 DEF IInv
  <2> QED BY <1>1, <2>1, UsedPages DEF IInv
<1>3. PagesFor(call.left) >= 1 /\ PagesFor(call.left) \in Nat
  BY <1>1, <1>2, VaIsUser
<1>4. TablesLeft = level
  BY <1>1 DEF TablesLeft
<1>5. ASSUME ProgramPages, call.return = "exec_stack" PROVE call.va = 0
  <2> SUFFICES ASSUME call.va # 0 PROVE FALSE
    OBVIOUS
  <2>1. /\ call.va = 1 /\ mapped[0] = Entry(program[0], "rx") /\ level = 2
        /\ DOMAIN program = 0 .. (PagesFor(call.left) + 1 - 1)
    BY <1>1, <1>5 DEF ProgramPages
  <2>2. program[0] \in Nat
    <3>1. 0 \in DOMAIN program
      BY <1>3, <2>1
    <3>2. AfterExec
      BY <1>1, <1>5 DEF AfterExec
    <3> QED BY <1>2, <3>1, <3>2 DEF Copied, IsData
  <2>3. mapped[0] # NONE
    BY <2>1, <2>2, EntryIsNone
  <2>4. 0 \in UserPages
    BY Sizes
  <2>5. Has1(Index(0, 2))
    BY <1>2, <2>3, <2>4 DEF Mapped, Leaf, Has0
  <2>6. Index(1, 2) = Index(0, 2)
    <3>1. Span(2) \in Nat \ {0} /\ Span(2) >= 4
      BY Sizes
    <3> DEFINE s == Span(2)
    <3> HIDE DEF s
    <3>2. (0 * s + 1) \div s = 0 /\ (0 * s + 0) \div s = 0
      BY <3>1, Quotient DEF s
    <3>3. 1 \div s = 0 /\ 0 \div s = 0
      BY <3>1, <3>2 DEF s
    <3> QED BY <3>3 DEF Index, s
  <2>7. PageTableEntry = E2(Index(1, 2))
    BY <1>1, <2>1 DEF PageTableEntry, E2
  <2> QED BY <2>5, <2>6, <2>7 DEF Has1
<1>6. PICK n \in Int : n >= 1 /\ HasMemory(n)
  <2>1. CASE OtherPages
    <3>1. 2 * (PagesFor(call.left) - 1) + level \in Int /\ 2 * (PagesFor(call.left) - 1) + level >= 1
      BY <1>2, <1>3
    <3> QED BY <1>1, <1>4, <2>1, <3>1 DEF OtherPages
  <2>2. CASE ProgramPages /\ call.return = "exec_stack"
    <3>1. HasMemory(level + 3) /\ level + 3 \in Int /\ level + 3 >= 1
      BY <1>2, <1>4, <1>5, <2>2 DEF ProgramPages
    <3> QED BY <3>1
  <2>3. CASE StackPage
    <3>1. HasMemory(level) /\ level \in Int /\ level >= 1
      BY <1>1, <1>2, <1>4, <2>3 DEF StackPage
    <3> QED BY <3>1
  <2> QED BY <1>1, <1>2, <2>1, <2>2, <2>3 DEF Calls
<1>7. Brk \in RAM
  BY <1>2, <1>6, Enough
<1> QED BY <1>5, <1>7

\* A new table hangs in the tree at one place only, and is empty.
LEMMA NewTableStep == ASSUME IInv, NewTable PROVE IInv'
<1>1. /\ InTable /\ level > 0 /\ PageTableEntry = NONE /\ level' = level - 1
      /\ pc' = pc /\ call' = call /\ mapped' = mapped /\ program' = program
      /\ curr' = CurrAfter(1) /\ page_table' = Allocated(1)
  BY DEF NewTable
<1>2. /\ pc = "pagewalk" /\ call.left > 0
      /\ Tables /\ Apart /\ KernelHalf /\ Mapped /\ Data /\ Occupied /\ Calls /\ Copied
      /\ curr \in Nat /\ Brk \in Nat /\ Brk * PAGE_SIZE >= END
  <2>1. pc = "pagewalk" /\ call.left > 0
    BY <1>1, WhereItIs
  <2> QED BY <2>1 DEF IInv
<1>3. PICK i \in Low, j \in Indices : i = Index(call.va, 2) /\ j = Index(call.va, 1)
  BY <1>2, VaIsUser
<1>4. /\ virt_to_phys(Allocated(1)) = Brk /\ page_table' = phys_to_virt(Brk) /\ Brk \in RAM
      /\ curr' \in Nat /\ Brk' = Brk + 1 /\ Brk' \in Nat /\ Brk' * PAGE_SIZE >= END
  <2>1. Allocated(1) = PagesFor(curr) + (1 - 1) /\ PagesFor(curr) \in Nat
        /\ virt_to_phys(Allocated(1)) = Brk + (1 - 1)
    BY <1>2, Before
  <2>2. page_table' = phys_to_virt(Brk)
    BY <1>1, <2>1, Sizes DEF phys_to_virt, Brk
  <2> QED BY <1>1, <1>2, <2>1, <2>2, After, Memory
<1>5. mem' = [mem EXCEPT ![Brk] = Zeroed,
                         ![Deref(page_table)][Index(call.va, level)] = Entry(Brk, "table")]
  BY <1>4 DEF NewTable, Fresh
<1>6. /\ Tables' /\ Apart' /\ KernelHalf' /\ Walk'
      /\ \A l \in Low : Has1(l)' => Has1(l) \/ l = i
      /\ \A v \in UserPages : Leaf(v)' = Leaf(v)
      /\ \A f : IsData(f) => IsData(f)' /\ mem'[f] = mem[f]
      /\ level \in {1, 2}
  <2>1. CASE level = 2 /\ Deref(page_table) = PGD
    <3>1. PageTableEntry = E2(i)
      BY <1>3, <2>1 DEF PageTableEntry, E2
    <3>2. ~ Has1(i)
      BY <1>1, <3>1 DEF Has1
    <3>3. mem' = [mem EXCEPT ![Brk] = Zeroed, ![PGD][i] = Entry(Brk, "table")]
      BY <1>3, <1>5, <2>1
    <3>4. /\ Tables' /\ Apart' /\ KernelHalf'
          /\ E2(i)' = Entry(Brk, "table") /\ Has1(i)' /\ \A l \in Indices : E1(i, l)' = NONE
          /\ \A l \in Low : Has1(l)' => Has1(l) \/ l = i
          /\ \A v \in UserPages : Leaf(v)' = Leaf(v)
          /\ \A f : IsData(f) => IsData(f)' /\ mem'[f] = mem[f]
      BY <1>2, <1>4, <3>2, <3>3, NewLevel1
    <3>5. page_table' = phys_to_virt(E2(i)'.ppn)
      BY <1>4, <3>4 DEF Entry
    <3>6. OnItsWay'
      BY <1>1, <1>3, <2>1, <3>4, <3>5 DEF OnItsWay, phys_to_virt
    <3> QED BY <1>1, <1>2, <2>1, <3>4, <3>6 DEF Walk
  <2>2. CASE /\ level = 1 /\ Has1(i) /\ Deref(page_table) = E2(i).ppn
             /\ \A l \in Indices : E1(i, l) = NONE
    <3>1. ~ Has0(i, j)
      BY <2>2 DEF Has0
    <3>2. mem' = [mem EXCEPT ![Brk] = Zeroed, ![E2(i).ppn][j] = Entry(Brk, "table")]
      BY <1>3, <1>5, <2>2
    <3>3. /\ Tables' /\ Apart' /\ KernelHalf'
          /\ \A l \in Low : E2(l)' = E2(l) /\ (Has1(l)' <=> Has1(l))
          /\ Has0(i, j)' /\ E1(i, j)' = Entry(Brk, "table")
          /\ \A v \in UserPages : Leaf(v)' = Leaf(v)
          /\ \A f : IsData(f) => IsData(f)' /\ mem'[f] = mem[f]
      BY <1>2, <1>4, <2>2, <3>1, <3>2, NewLevel0
    <3>4. page_table' = phys_to_virt(E1(i, j)'.ppn)
      BY <1>4, <3>3 DEF Entry
    <3>5. OnItsWay'
      BY <1>1, <1>3, <2>2, <3>3, <3>4 DEF OnItsWay, phys_to_virt
    <3> QED BY <1>1, <1>2, <2>2, <3>3, <3>5 DEF Walk
  <2>3. \/ level = 2 /\ Deref(page_table) = PGD
        \/ /\ level = 1 /\ Has1(i) /\ Deref(page_table) = E2(i).ppn
           /\ \A l \in Indices : E1(i, l) = NONE
    <3>1. ~ (level = 0)
      BY <1>1
    <3> QED BY <1>1, <1>3, <3>1, WhereItIs
  <2> QED BY <2>1, <2>2, <2>3
<1>7. Mapped'
  BY <1>1, <1>2, <1>6 DEF Mapped
<1>8. Data'
  BY <1>1, <1>2, <1>6 DEF Data, UserEntry
<1>9. Occupied'
  <2>1. Building(i)'
    BY <1>1, <1>2, <1>3, <1>6 DEF Building
  <2>2. \A l \in Low : InGiB(l)' <=> InGiB(l)
    BY <1>1 DEF InGiB
  <2>3. \A l \in Low : Building(l) => l = i
    BY <1>3 DEF Building
  <2>4. ASSUME NEW l \in Low, Has1(l)' PROVE InGiB(l)' \/ Building(l)'
    BY <1>2, <1>6, <2>1, <2>2, <2>3, <2>4 DEF Occupied
  <2> QED BY <2>4 DEF Occupied
<1>10. Copied'
  BY <1>1, <1>2, <1>6 DEF Copied, AfterExec
<1>11. TablesLeft = level /\ TablesLeft' = level - 1
  BY <1>1, <1>2 DEF TablesLeft
<1>12. \A n \in Int : HasMemory(n) => HasMemory(n - 1)'
  <2>1. ASSUME NEW n \in Int, HasMemory(n) PROVE HasMemory(n - 1)'
    <3>1. n - 1 \in Int /\ (n - 1) + 1 <= n /\ 1 \in Nat
      OBVIOUS
    <3> QED BY <1>2, <1>4, <2>1, <3>1, Enough
  <2> QED BY <2>1
<1>13. Calls'
  <2>1. ASSUME OtherPages PROVE OtherPages'
    <3>1. PICK n \in Int : n = 2 * (PagesFor(call.left) - 1) + TablesLeft
      <4>1. PagesFor(call.left) \in Nat
        BY <1>2, VaIsUser
      <4> QED BY <1>6, <1>11, <4>1
    <3>2. HasMemory(n - 1)'
      <4>1. HasMemory(n)
        BY <1>2, <2>1, <3>1 DEF OtherPages
      <4> QED BY <1>12, <4>1
    <3>3. HasMemory(2 * (PagesFor(call.left) - 1) + TablesLeft)'
      <4>1. PagesFor(call.left) \in Nat
        BY <1>2, VaIsUser
      <4>2. n - 1 = 2 * (PagesFor(call'.left) - 1) + TablesLeft'
        BY <1>1, <1>6, <1>11, <3>1, <4>1
      <4> QED BY <3>2, <4>2
    <3> QED BY <1>1, <1>6, <2>1, <3>3 DEF OtherPages
  <2>2. ASSUME ProgramPages, call.return = "exec_stack" PROVE ProgramPages'
    <3>1. call.va = 0
      BY <1>1, <2>2, Memory
    <3>2. HasMemory(TablesLeft + 3)'
      <4>1. PICK n \in Int : n = TablesLeft + 3
        BY <1>6, <1>11
      <4>2. HasMemory(n - 1)'
        BY <1>12, <2>2, <3>1, <4>1 DEF ProgramPages
      <4>3. n - 1 = TablesLeft' + 3
        BY <1>6, <1>11, <4>1
      <4> QED BY <4>2, <4>3
    <3> QED BY <1>1, <2>2, <3>1, <3>2 DEF ProgramPages
  <2>3. ASSUME StackPage PROVE StackPage'
    <3>1. /\ call.va = STACK /\ call.left = PAGE_SIZE /\ IsData(call.pa) /\ HasMemory(TablesLeft)
          /\ call.prot = "rw" /\ ProgramThere
      BY <1>2, <2>3 DEF StackPage
    <3>2. HasMemory(TablesLeft)'
      <4>1. PICK n \in Int : n = TablesLeft
        BY <1>6, <1>11
      <4>2. HasMemory(n - 1)' /\ n - 1 = TablesLeft'
        BY <1>6, <1>11, <1>12, <3>1, <4>1
      <4> QED BY <4>2
    <3> QED BY <1>1, <1>6, <3>1, <3>2 DEF StackPage, ProgramThere
  <2> QED BY <1>1, <1>2, <2>1, <2>2, <2>3 DEF Calls
<1>14. Phases'
  BY <1>1, <1>2 DEF Phases
<1> QED BY <1>1, <1>2, <1>4, <1>6, <1>7, <1>8, <1>9, <1>10, <1>13, <1>14 DEF IInv

\* The page asked for is entered at its place and at no other.
LEMMA EnterStep == ASSUME IInv, EnterPage PROVE IInv'
<1>1. /\ InTable /\ level = 0 /\ pc' = "map_pages" /\ curr' = curr /\ program' = program
      /\ mem' = [mem EXCEPT ![Deref(page_table)][Index(call.va, 0)] = Entry(call.pa, call.prot)]
      /\ mapped' = [mapped EXCEPT ![call.va] = Entry(call.pa, call.prot)]
      /\ call' = [call EXCEPT !.va = @ + 1, !.pa = @ + 1, !.left = @ - PAGE_SIZE]
  BY DEF EnterPage
<1>2. /\ pc = "pagewalk" /\ call.left > 0
      /\ Tables /\ Apart /\ KernelHalf /\ Mapped /\ Data /\ Occupied /\ Calls /\ Copied /\ ~ Lost
      /\ curr \in Nat /\ Brk \in Nat /\ Brk * PAGE_SIZE >= END
  <2>1. pc = "pagewalk" /\ call.left > 0 /\ ~ Lost
    BY <1>1, WhereItIs
  <2> QED BY <2>1 DEF IInv
<1>3. PICK w \in UserPages, i \in Low, j \in Indices, k \in Indices :
        w = call.va /\ i = Index(w, 2) /\ j = Index(w, 1) /\ k = Index(w, 0)
  BY <1>2, VaIsUser
<1>4. PICK e : e = Entry(call.pa, call.prot)
  OBVIOUS
<1>5. Has0(i, j) /\ Deref(page_table) = E1(i, j).ppn
  <2>1. level # 2 /\ level # 1
    BY <1>1
  <2> QED BY <1>1, <1>3, <2>1, WhereItIs
<1>6. Brk' = Brk /\ mem' = [mem EXCEPT ![E1(i, j).ppn][k] = e] /\ mapped' = [mapped EXCEPT ![w] = e]
  BY <1>1, <1>3, <1>4, <1>5 DEF Brk
<1>7. /\ Tables' /\ Apart' /\ KernelHalf'
      /\ \A l \in Low : Has1(l)' <=> Has1(l)
      /\ \A v \in UserPages :
           Leaf(v)' = IF Index(v, 2) = i /\ Index(v, 1) = j /\ Index(v, 0) = k THEN e ELSE Leaf(v)
      /\ \A f : IsData(f) => IsData(f)' /\ mem'[f] = mem[f]
  BY <1>2, <1>5, <1>6, NewLeaf
<1>8. /\ call = [va |-> call.va, left |-> call.left, pa |-> call.pa, prot |-> call.prot,
                 return |-> call.return]
      /\ call.va \in Nat /\ call.pa \in Nat /\ call.left \in Int
      /\ PAGE_SIZE \in Nat \ {0} /\ STACK \in UserPages /\ STACK > 1
  BY <1>2, Sizes DEF Calls
<1>9. /\ call'.va = call.va + 1 /\ call'.pa = call.pa + 1 /\ call'.left = call.left - PAGE_SIZE
      /\ call'.prot = call.prot /\ call'.return = call.return
      /\ call' = [va |-> call'.va, left |-> call'.left, pa |-> call'.pa, prot |-> call'.prot,
                  return |-> call'.return]
      /\ call'.va \in Nat /\ call'.pa \in Nat /\ call'.left \in Int /\ call'.left > -PAGE_SIZE
  <2>1. call' = [va |-> call.va + 1, left |-> call.left - PAGE_SIZE, pa |-> call.pa + 1,
                 prot |-> call.prot, return |-> call.return]
    BY <1>1, <1>8
  <2> QED BY <1>2, <1>8, <2>1
<1>10. /\ PagesFor(call.left) \in Nat /\ PagesFor(call.left) >= 1
       /\ PagesFor(call'.left) = PagesFor(call.left) - 1
  BY <1>2, <1>9, VaIsUser
<1>11. TablesLeft = 0 /\ TablesLeft' = 2
  BY <1>1, <1>2 DEF TablesLeft
\* What is known of the page
<1>12. /\ IsData(call.pa) /\ call.prot \in {"rw", "rx"}
       /\ ProgramPages /\ call.return = "exec_stack" => call.va = 0 /\ call.pa = program[0]
  <2>1. CASE OtherPages
    <3>1. 0 \in 0 .. (PagesFor(call.left) - 1) /\ call.pa + 0 = call.pa
      BY <1>8, <1>10
    <3>2. IsData(call.pa + 0)
      BY <2>1, <3>1 DEF OtherPages
    <3>3. call.prot = "rw"
      BY <2>1 DEF OtherPages
    <3>4. ~ ProgramPages
      BY <3>3 DEF ProgramPages
    <3> QED BY <3>1, <3>2, <3>3, <3>4
  <2>2. CASE ProgramPages /\ call.return = "exec_stack"
    <3>1. call.va = 0 /\ call.pa = program[0] /\ call.prot = "rx"
      BY <1>1, <1>2, <2>2 DEF ProgramPages
    <3>2. 0 \in DOMAIN program
      <4>1. 0 \in 0 .. (PagesFor(call.left) + call.va - 1)
        BY <1>10, <3>1
      <4> QED BY <2>2, <4>1 DEF ProgramPages
    <3>3. IsData(program[0])
      BY <1>2, <2>2, <3>2 DEF Copied, AfterExec
    <3> QED BY <3>1, <3>3
  <2>3. CASE StackPage
    <3>1. IsData(call.pa) /\ call.prot = "rw"
      BY <1>2, <2>3 DEF StackPage
    <3>2. ~ ProgramPages
      BY <3>1 DEF ProgramPages
    <3> QED BY <3>1, <3>2
  <2> QED BY <1>2, <2>1, <2>2, <2>3 DEF Calls
<1>13. e # NONE /\ e.ppn = call.pa /\ e.perm = call.prot /\ UserEntry(e)'
  <2>1. e # NONE /\ e.ppn = call.pa /\ e.perm = call.prot
    BY <1>4, <1>8, <1>12, EntryIsNone
  <2>2. IsData(e.ppn)'
    BY <1>7, <1>12, <2>1
  <2> QED BY <1>4, <1>12, <2>1, <2>2 DEF UserEntry
<1>14. DOMAIN mapped = UserPages /\ mapped'[w] = e
       /\ \A v \in UserPages : v # w => mapped'[v] = mapped[v]
  BY <1>2, <1>6 DEF Data
<1>15. Mapped'
  <2>1. ASSUME NEW v \in UserPages PROVE Leaf(v)' = mapped'[v]
    <3>1. CASE v = w
      BY <1>3, <1>7, <1>14, <3>1
    <3>2. CASE v # w
      <4>1. ~ (Index(v, 2) = i /\ Index(v, 1) = j /\ Index(v, 0) = k)
        BY <1>3, <3>2, UserIndices
      <4> QED BY <1>2, <1>7, <1>14, <3>2, <4>1 DEF Mapped
    <3> QED BY <3>1, <3>2
  <2> QED BY <2>1 DEF Mapped
<1>16. Data'
  <2>1. DOMAIN mapped' = UserPages
    BY <1>6, <1>14
  <2>2. ASSUME NEW v \in UserPages, mapped'[v] # NONE PROVE UserEntry(mapped[v])'
    <3>1. CASE v = w
      BY <1>13, <1>14, <3>1
    <3>2. CASE v # w
      <4>1. mapped'[v] = mapped[v] /\ UserEntry(mapped[v])
        BY <1>2, <1>14, <2>2, <3>2 DEF Data
      <4> QED BY <1>7, <4>1 DEF UserEntry
    <3> QED BY <3>1, <3>2
  <2> QED BY <2>1, <2>2 DEF Data
<1>17. Occupied'
  <2>1. InGiB(i)'
    BY <1>3, <1>13, <1>14 DEF InGiB
  <2>2. \A l \in Low : InGiB(l) => InGiB(l)'
    BY <1>13, <1>14 DEF InGiB
  <2>3. \A l \in Low : Building(l) => l = i
    BY <1>3 DEF Building
  <2> QED BY <1>2, <1>7, <2>1, <2>2, <2>3 DEF Occupied
<1>18. Copied'
  <2>1. AfterExec' => AfterExec
    BY <1>1, <1>2, <1>9 DEF AfterExec
  <2> QED BY <1>1, <1>2, <1>7, <2>1 DEF Copied
<1>19. \A n : HasMemory(n) => HasMemory(n)'
  BY <1>6 DEF HasMemory
<1>20. Calls'
  <2>1. ASSUME OtherPages PROVE OtherPages'
    <3>1. PICK n \in Nat : n = PagesFor(call.left)
      BY <1>10
    <3>2. PagesFor(call'.left) = n - 1 /\ n >= 1
      BY <1>10, <3>1
    <3>3. HasMemory(2 * (n - 1))
      <4>1. 2 * (PagesFor(call.left) - 1) + TablesLeft = 2 * (n - 1)
        BY <1>11, <3>1
      <4> QED BY <1>2, <2>1, <4>1 DEF OtherPages
    <3>4. 2 * (PagesFor(call'.left) - 1) + TablesLeft' = 2 * (n - 1)
      BY <1>11, <3>2
    <3>5. HasMemory(2 * (PagesFor(call.left) - 1) + TablesLeft)'
      BY <1>19, <3>3, <3>4
    <3>6. ASSUME NEW l \in 0 .. ((n - 1) - 1) PROVE IsData(call.pa + l)'
      <4>1. l + 1 \in 0 .. (n - 1) /\ call.pa + (l + 1) = call'.pa + l
        BY <1>8, <1>9
      <4>2. PICK f : f = call.pa + (l + 1)
        OBVIOUS
      <4>3. IsData(f)
        BY <2>1, <3>1, <4>1, <4>2 DEF OtherPages
      <4>4. IsData(f)' /\ f = call'.pa + l
        BY <1>7, <4>1, <4>2, <4>3
      <4> QED BY <4>4
    <3>7. call'.va + PagesFor(call'.left) <= PAGE_OFFSET /\ call'.prot = "rw"
      <4>1. call.va + PagesFor(call.left) <= PAGE_OFFSET /\ call.prot = "rw"
        BY <2>1 DEF OtherPages
      <4>2. call'.va + PagesFor(call'.left) = call.va + PagesFor(call.left)
        BY <1>8, <1>9, <1>10
      <4> QED BY <1>9, <4>1, <4>2
    <3> QED BY <3>2, <3>5, <3>6, <3>7 DEF OtherPages
  <2>2. ASSUME ProgramPages, call.return = "exec_stack" PROVE ProgramPages'
    <3>1. call.va = 0 /\ call.pa = program[0] /\ call'.va = 1 /\ call.prot = "rx"
      BY <1>9, <1>12, <2>2 DEF ProgramPages
    <3>2. mapped'[0] = Entry(program'[0], "rx")
      BY <1>1, <1>3, <1>4, <1>14, <3>1
    <3>3. DOMAIN program' = 0 .. (PagesFor(call'.left) + call'.va - 1)
      <4>1. PagesFor(call'.left) + call'.va - 1 = PagesFor(call.left) + call.va - 1
        BY <1>10, <3>1
      <4> QED BY <1>1, <2>2, <4>1 DEF ProgramPages
    <3>4. HasMemory(3)'
      <4>1. TablesLeft + 3 = 3
        BY <1>11
      <4> QED BY <1>19, <2>2, <3>1, <4>1 DEF ProgramPages
    <3> QED BY <1>1, <1>9, <3>1, <3>2, <3>3, <3>4 DEF ProgramPages
  <2>3. ASSUME StackPage PROVE StackPage'
    <3>1. call.va = STACK /\ call.left = PAGE_SIZE /\ call.prot = "rw" /\ ProgramThere
      BY <1>2, <2>3 DEF StackPage
    <3>2. call'.left = 0
      BY <1>8, <1>9, <3>1
    <3>3. mapped'[STACK] # NONE /\ mapped'[STACK].perm = "rw"
      BY <1>3, <1>13, <1>14, <3>1
    <3>4. mapped'[0] = mapped[0]
      <4>1. 0 \in UserPages
        BY Sizes
      <4>2. w # 0
        <5>1. w = STACK /\ STACK > 1
          BY <1>3, <1>8, <3>1
        <5> QED BY <5>1
      <4> QED BY <1>14, <4>1, <4>2
    <3> QED BY <1>1, <1>9, <3>1, <3>2, <3>3, <3>4 DEF StackPage, ProgramThere
  <2> QED BY <1>1, <1>2, <1>9, <2>1, <2>2, <2>3 DEF Calls
<1>21. Walk' /\ Phases'
  BY <1>1 DEF Walk, Phases
<1> QED BY <1>1, <1>2, <1>6, <1>7, <1>15, <1>16, <1>17, <1>18, <1>20, <1>21 DEF IInv

\* A state that stays is as it was.
LEMMA StutterStep == ASSUME IInv, UNCHANGED vars PROVE IInv'
<1>1. /\ pc' = pc /\ mem' = mem /\ curr' = curr /\ call' = call /\ level' = level
      /\ page_table' = page_table /\ mapped' = mapped /\ program' = program
  BY DEF vars
<1>2. Brk' = Brk /\ Used' = Used /\ Phases'
  BY <1>1 DEF Brk, Used, IInv, Phases
<1>3. \A f : IsData(f)' <=> IsData(f)
  BY <1>1, <1>2 DEF IsData, Has0, Has1, E2, E1
<1>4. \A n : HasMemory(n)' <=> HasMemory(n)
  BY <1>2 DEF HasMemory
<1>5. ASSUME pc # "setup_vm" PROVE Walk' /\ Calls' /\ Copied'
  <2>1. Walk /\ Calls /\ Copied
    BY <1>5 DEF IInv
  <2>2. Walk'
    BY <1>1, <2>1 DEF Walk, Lost, OnItsWay, InGiB, Has0, Has1, E2, E1
  <2>3. Copied'
    BY <1>1, <1>3, <2>1 DEF Copied, AfterExec
  <2>4. OtherPages => OtherPages'
    BY <1>1, <1>3, <1>4 DEF OtherPages, TablesLeft
  <2>5. ProgramPages => ProgramPages'
    BY <1>1, <1>4 DEF ProgramPages, TablesLeft, Lost, InGiB
  <2>6. StackPage => StackPage'
    BY <1>1, <1>3, <1>4 DEF StackPage, TablesLeft, ProgramThere
  <2>7. Calls'
    BY <1>1, <1>4, <2>1, <2>4, <2>5, <2>6 DEF Calls, ProgramThere
  <2> QED BY <2>2, <2>3, <2>7
<1>6. CASE pc = "setup_vm"
  BY <1>1, <1>2, <1>6 DEF IInv
<1>7. CASE pc # "setup_vm"
  BY <1>1, <1>2, <1>5, <1>7, QuietStep DEF Building
<1> QED BY <1>6, <1>7

\* Nothing has been allocated.
LEMMA InitSound == Init => IInv
<1> SUFFICES ASSUME Init PROVE IInv
  OBVIOUS
<1>1. Phases /\ pc = "setup_vm"
  BY DEF Init, Phases
<1> DEFINE s == PAGE_SIZE
           q == PagesFor(END)
<1>2. /\ s \in Nat \ {0} /\ END \in Nat /\ PAGE_OFFSET \in Nat /\ q \in Nat /\ END <= q * s
  <2>1. s \in Nat \ {0} /\ END \in Nat /\ PAGE_OFFSET \in Nat
    BY Sizes, UserPagingAssumption
  <2>2. END \in Int /\ END > -PAGE_SIZE
    BY <2>1
  <2> QED BY <2>1, <2>2, PagesOf
<1>3. curr = END + PAGE_OFFSET * s /\ curr \in Nat
  <2>1. PAGE_OFFSET * s \in Nat
    BY <1>2
  <2> QED BY <1>2, <2>1 DEF Init
<1>4. PagesFor(curr) = q + PAGE_OFFSET
  <2> DEFINE p == END + s - 1
             r == (p % s)
  <2>1. p \in Nat /\ q = p \div s
    BY <1>2 DEF PagesFor
  <2> HIDE DEF p, q, s
  <2>2. r \in 0 .. (s - 1) /\ p = q * s + r /\ q * s \in Nat /\ PAGE_OFFSET * s \in Nat
    BY <1>2, <2>1, DivMod
  <2> HIDE DEF r
  <2>3. (q + PAGE_OFFSET) * s = q * s + PAGE_OFFSET * s /\ q + PAGE_OFFSET \in Nat
    BY <1>2
  <2>4. curr + s - 1 = (q + PAGE_OFFSET) * s + r
    BY <1>2, <1>3, <2>2, <2>3 DEF p
  <2>5. ((q + PAGE_OFFSET) * s + r) \div s = q + PAGE_OFFSET
    BY <1>2, <2>2, <2>3, Quotient
  <2> QED BY <2>4, <2>5 DEF PagesFor, s
<1>5. Brk = q
  <2> HIDE DEF q
  <2> QED BY <1>2, <1>4 DEF Brk
<1> HIDE DEF q
<1> QED BY <1>1, <1>2, <1>3, <1>5 DEF IInv

-----------------------------------------------------------------------------
(* Theorems *)

\* The tables are a tree, and a walk that gets on has made its own.
THEOREM Inductive == Spec => []IInv
<1>1. IInv /\ [Next]_vars => IInv'
  BY SetupStep, ExecStep, StackStep, OtherStep, FailsStep, LoopStep, ReturnStep, DescendStep,
     FaultStep, NewTableStep, EnterStep, StutterStep DEF Next, pagewalk
<1> QED BY <1>1, InitSound, PTL DEF Spec

\* For tables of any size and any calls the user sees at each page what was
\* last asked for there, in every state.
THEOREM AlwaysMapsAsAsked == Spec => []MapsAsAsked
<1>1. IInv => MapsAsAsked
  <2> SUFFICES ASSUME IInv, pc # "setup_vm", NEW v \in UserPages
               PROVE  Translate(mem, PGD, v) = mapped[v]
    BY DEF MapsAsAsked
  <2>1. RAM \subseteq Nat /\ Tables /\ Mapped /\ Data
    BY UsedPages DEF IInv
  <2> QED BY <2>1, UserSees
<1> QED BY <1>1, Inductive, PTL

\* The kernel keeps its map of all memory, and no page that the user can get at
\* is a table or belongs to the kernel's image.
THEOREM AlwaysIsolated == Spec => []Isolated
<1>1. IInv => Isolated
  <2> SUFFICES ASSUME IInv, pc # "setup_vm" PROVE
               /\ \A f \in RAM : Translate(mem, PGD, phys_to_virt(f)) = Entry(f, "kernel")
               /\ \A v \in UserPages :
                    LET page == Translate(mem, PGD, v)
                    IN  page # NONE =>
                          /\ page.ppn \notin TablePages(mem, PGD)
                          /\ page.ppn * PAGE_SIZE >= END
    BY DEF Isolated
  <2>1. /\ RAM \subseteq Nat /\ Tables /\ Mapped /\ Data /\ KernelHalf /\ PGD \notin Used
        /\ Low \subseteq Indices
    BY UsedPages, Sizes DEF IInv
  <2>2. \A f \in RAM : Translate(mem, PGD, phys_to_virt(f)) = Entry(f, "kernel")
    BY <2>1, KernelSees
  <2>3. ASSUME NEW v \in UserPages, Translate(mem, PGD, v) # NONE
        PROVE  /\ Translate(mem, PGD, v).ppn \notin TablePages(mem, PGD)
               /\ Translate(mem, PGD, v).ppn * PAGE_SIZE >= END
    <3>1. UserEntry(mapped[v]) /\ Translate(mem, PGD, v) = mapped[v]
      BY <2>1, <2>3, UserSees DEF Data
    <3>2. PICK f : f = mapped[v].ppn
      OBVIOUS
    <3>3. IsData(f) /\ f \in Used
      BY <3>1, <3>2 DEF UserEntry, IsData
    <3>4. \A i \in Indices : E2(i) # NONE /\ E2(i).perm = "table" =>
            /\ i \in Low /\ Has1(i) /\ E2(i).ppn # f
      <4>1. \A i \in Indices \ Low : E2(i) = NONE \/ E2(i).perm # "table"
        BY <2>1 DEF KernelHalf, Entry
      <4> QED BY <3>3, <4>1 DEF IsData, Has1
    <3>5. \A i \in Low, j \in Indices : Has1(i) /\ E1(i, j) # NONE => E1(i, j).ppn # f
      BY <3>3 DEF IsData, Has0
    <3>6. f # PGD
      BY <2>1, <3>3
    <3> DEFINE Below(t) == {mem[t][i].ppn : i \in
                 {j \in Indices : mem[t][j] # NONE /\ mem[t][j].perm = "table"}}
    <3>7. TablePages(mem, PGD) = {PGD} \cup Below(PGD) \cup UNION {Below(t) : t \in Below(PGD)}
      BY DEF TablePages
    <3>8. f \notin Below(PGD)
      BY <3>4 DEF E2
    <3>9. ASSUME NEW t \in Below(PGD) PROVE f \notin Below(t)
      <4>1. PICK i \in Indices : E2(i) # NONE /\ E2(i).perm = "table" /\ t = E2(i).ppn
        BY <3>9 DEF E2
      <4>2. i \in Low /\ Has1(i)
        BY <3>4, <4>1
      <4>3. \A j \in Indices : mem[t][j] = E1(i, j)
        BY <4>1 DEF E1
      <4> QED BY <3>5, <4>2, <4>3
    <3>10. f \notin TablePages(mem, PGD)
      <4> HIDE DEF Below
      <4> QED BY <3>6, <3>7, <3>8, <3>9
    <3>11. f * PAGE_SIZE >= END
      BY <3>3 DEF Used
    <3> QED BY <3>1, <3>2, <3>10, <3>11
  <2> QED BY <2>2, <2>3
<1> QED BY <1>1, Inductive, PTL

\* A program that starts finds all of itself and a stack.
THEOREM AlwaysProgramLoaded == Spec => []ProgramLoaded
<1>1. IInv => ProgramLoaded
  <2> SUFFICES ASSUME IInv, pc = "user" PROVE
               /\ \A k \in DOMAIN program :
                    /\ Translate(mem, PGD, k) = Entry(program[k], "rx")
                    /\ mem[program[k]] = <<"prog.bin", k>>
               /\ LET stack == Translate(mem, PGD, STACK)
                  IN  stack # NONE /\ stack.perm = "rw"
    BY DEF ProgramLoaded
  <2>1. /\ RAM \subseteq Nat /\ Tables /\ Mapped /\ Data /\ Calls /\ Copied
        /\ 0 \in UserPages /\ STACK \in UserPages
    BY UsedPages, Sizes DEF IInv
  <2>2. ProgramThere /\ mapped[STACK] # NONE /\ mapped[STACK].perm = "rw"
    BY <2>1 DEF Calls
  <2>3. Translate(mem, PGD, 0) = mapped[0] /\ Translate(mem, PGD, STACK) = mapped[STACK]
    BY <2>1, UserSees
  <2> QED BY <2>1, <2>2, <2>3 DEF ProgramThere, Copied, AfterExec
<1> QED BY <1>1, Inductive, PTL

\* The first page asked for in each GiB is always mapped.
THEOREM FaultsOnlyInUsedGiB == Spec => []FaultOnlyInUsedGiB
<1>1. IInv => FaultOnlyInUsedGiB
  BY DEF IInv, Walk, InGiB, FaultOnlyInUsedGiB
<1> QED BY <1>1, Inductive, PTL

-----------------------------------------------------------------------------
(* The exercise's own run *)

\* start_kernel calls map_pages through exec only, and prog.bin takes one page.
OnePageProgram ==
  /\ CallPages = {}
  /\ ENTRIES > 2
  /\ \A size \in FileSizes : size <= PAGE_SIZE

\* The program's page is asked for first, then that of the stack, and nothing
\* else: each finds its entry of pgd empty.
ExecInv ==
  /\ pc # "fault"
  /\ pc \in {"setup_vm", "start_kernel", "echo"} => mapped[0] = NONE
  /\ \A v \in UserPages : mapped[v] # NONE => v = 0 \/ v = STACK
  /\ mapped[STACK] # NONE =>
       pc = "user" \/ (pc = "map_pages" /\ call.return = "user" /\ call.left = 0)
  /\ pc \in {"map_pages", "pagewalk"} =>
       /\ call.return # "start_kernel"
       /\ call.return = "exec_stack" =>
            \/ call.va = 0 /\ call.left <= PAGE_SIZE /\ mapped[0] = NONE
            \/ call.left <= 0

\* The program and its stack are in different entries of pgd.
LEMMA FarApart ==
  ASSUME ENTRIES > 2 PROVE Index(0, 2) # Index(STACK, 2)
<1> DEFINE e == ENTRIES
           s == e * e
           h == e \div 2
           i == Index(STACK, 2)
           j == Index(STACK, 1)
           k == Index(STACK, 0)
<1>1. /\ e \in Nat \ {0} /\ s \in Nat \ {0} /\ h \in Nat /\ e = 2 * h /\ h >= 2
      /\ Span(2) = s /\ STACK = h * s - 1 /\ STACK \in UserPages
  <2>1. /\ ENTRIES \in Nat \ {0} /\ ENTRIES \div 2 \in Nat /\ ENTRIES = 2 * (ENTRIES \div 2)
        /\ Span(2) = ENTRIES * ENTRIES /\ STACK \in UserPages
    BY Sizes
  <2>2. ENTRIES * ENTRIES \in Nat \ {0}
    BY <2>1
  <2> QED BY <2>1, <2>2, Sizes DEF STACK
<1>2. /\ i \in Nat /\ j \in 0 .. (e - 1) /\ k \in 0 .. (e - 1)
      /\ STACK = (i * e + j) * e + k
  <2>1. Low \subseteq Nat
    BY DEF Low
  <2> QED BY <1>1, <2>1, UserIndices DEF Indices
<1>3. Index(0, 2) = 0
  <2>1. 0 \div s = 0 /\ 0 = 0 * e + 0 /\ 0 \in 0 .. (e - 1)
    BY <1>1
  <2>2. (0 % e) = 0
    BY <1>1, <2>1, Quotient
  <2> QED BY <1>1, <2>1, <2>2 DEF Index
<1>4. ASSUME i = 0 PROVE FALSE
  <2> HIDE DEF i, j, k, h, e
  <2>1. i * e + j = j
    BY <1>1, <1>2, <1>4
  <2>2. STACK = j * e + k
    BY <1>2, <2>1
  <2>3. (j + 1) * e <= e * e /\ (j + 1) * e = j * e + e /\ j * e \in Nat
    <3>1. j + 1 \in Nat /\ e - (j + 1) \in Nat
      BY <1>1, <1>2
    <3>2. (e - (j + 1)) * e \in Nat
      BY <1>1, <3>1
    <3> QED BY <1>1, <1>2, <3>2
  <2>4. h * s >= 2 * s
    <3> HIDE DEF s
    <3>1. (h - 2) * s \in Nat
      BY <1>1
    <3> QED BY <1>1, <3>1
  <2> QED BY <1>1, <1>2, <2>2, <2>3, <2>4
<1> QED BY <1>3, <1>4

\* What a step does to the calls of exec
LEMMA ExecInvStep ==
  ASSUME OnePageProgram, IInv, IInv', ExecInv, [Next]_vars
  PROVE  ExecInv'
<1>1. 0 \in UserPages /\ STACK \in UserPages /\ STACK # 0 /\ PAGE_SIZE \in Nat \ {0}
  <2>1. 0 \in UserPages
    BY Sizes
  <2> QED BY <2>1, Sizes
<1>2. CASE setup_vm \/ exec_fails \/ UNCHANGED vars
  BY <1>2 DEF setup_vm, exec_fails, vars, ExecInv
<1>3. CASE exec
  <2>1. PICK size \in FileSizes : \E page : CallMapPages(0, size, page, "rx", "exec_stack")
    BY <1>3 DEF exec
  <2>2. /\ pc = "start_kernel" /\ pc' = "map_pages" /\ mapped' = mapped
        /\ call'.va = 0 /\ call'.left = size /\ call'.return = "exec_stack"
    BY <1>3, <2>1 DEF exec, CallMapPages
  <2>3. size <= PAGE_SIZE
    BY <2>1 DEF OnePageProgram
  <2> QED BY <1>1, <2>2, <2>3 DEF ExecInv
<1>4. CASE exec_stack
  <2>1. pc = "exec_stack" /\ pc' = "map_pages" /\ mapped' = mapped /\ call'.return = "user"
    BY <1>4 DEF exec_stack, CallMapPages
  <2> QED BY <2>1 DEF ExecInv
<1>5. CASE OtherCall
  BY <1>5 DEF OtherCall, OnePageProgram
<1>6. CASE map_pages
  <2>1. pc = "map_pages" /\ call.left > 0 /\ pc' = "pagewalk" /\ call' = call /\ mapped' = mapped
    BY <1>6 DEF map_pages
  <2> QED BY <2>1 DEF ExecInv
<1>7. CASE map_pages_returns
  <2>1. pc = "map_pages" /\ pc' = call.return /\ mapped' = mapped
    BY <1>7 DEF map_pages_returns
  <2>2. call.return \in {"start_kernel", "exec_stack", "user"}
    BY <2>1 DEF IInv, Calls
  <2> QED BY <2>1, <2>2 DEF ExecInv
<1>8. CASE Descend \/ NewTable
  <2>1. pc' = pc /\ call' = call /\ mapped' = mapped
    BY <1>8 DEF Descend, NewTable
  <2> QED BY <2>1 DEF ExecInv
<1>9. CASE EnterPage
  <2>1. /\ pc = "pagewalk" /\ pc' = "map_pages" /\ call.left > 0 /\ Calls
        /\ DOMAIN mapped = UserPages
        /\ mapped' = [mapped EXCEPT ![call.va] = Entry(call.pa, call.prot)]
        /\ call' = [call EXCEPT !.va = @ + 1, !.pa = @ + 1, !.left = @ - PAGE_SIZE]
    BY <1>9 DEF EnterPage, InTable, IInv, Walk, Data
  <2>2. /\ call'.return = call.return /\ call'.left = call.left - PAGE_SIZE /\ call.left \in Int
        /\ call.return \in {"exec_stack", "user"}
    <3>1. call = [va |-> call.va, left |-> call.left, pa |-> call.pa, prot |-> call.prot,
                  return |-> call.return]
      BY <2>1 DEF Calls
    <3>2. call.left \in Int /\ call.return \in {"exec_stack", "user"}
      BY <2>1 DEF Calls, ExecInv
    <3> QED BY <2>1, <3>1, <3>2
  <2>3. \A v \in UserPages : v # call.va => mapped'[v] = mapped[v]
    BY <2>1
  <2>4. mapped[STACK] = NONE
    BY <2>1 DEF ExecInv
  <2>5. CASE call.return = "exec_stack"
    <3>1. call.va = 0 /\ call.left <= PAGE_SIZE
      BY <2>1, <2>2, <2>5 DEF ExecInv
    <3>2. mapped'[STACK] = NONE /\ call'.left <= 0
      BY <1>1, <2>2, <2>3, <2>4, <3>1
    <3>3. \A v \in UserPages : mapped'[v] # NONE => v = 0 \/ v = STACK
      BY <2>3, <3>1 DEF ExecInv
    <3> QED BY <2>1, <2>2, <2>5, <3>2, <3>3 DEF ExecInv
  <2>6. CASE call.return = "user"
    <3>1. call.va = STACK /\ call.left = PAGE_SIZE
      BY <2>1, <2>6 DEF Calls, StackPage
    <3>2. call'.left = 0
      BY <1>1, <2>2, <3>1
    <3>3. \A v \in UserPages : mapped'[v] # NONE => v = 0 \/ v = STACK
      BY <2>3, <3>1 DEF ExecInv
    <3> QED BY <2>1, <2>2, <2>6, <3>2, <3>3 DEF ExecInv
  <2> QED BY <2>2, <2>5, <2>6
<1>10. ASSUME Fault PROVE FALSE
  <2>1. /\ pc = "pagewalk" /\ pc' = "fault" /\ call' = call /\ mapped' = mapped
    BY <1>10 DEF Fault
  <2>2. call.left > 0 /\ Calls
    BY <2>1 DEF IInv, Walk
  <2>3. PICK v \in UserPages : mapped[v] # NONE /\ Index(v, 2) = Index(call.va, 2)
    <3>1. InGiB(Index(call.va, 2))'
      BY <2>1 DEF IInv, Walk
    <3> QED BY <2>1, <3>1 DEF InGiB
  <2>4. v = 0 /\ mapped[0] # NONE
    BY <2>1, <2>3 DEF ExecInv
  <2>5. call.return = "user"
    <3>1. call.left \in Int
      BY <2>1, <2>2 DEF Calls
    <3> QED BY <2>1, <2>2, <2>4, <3>1 DEF Calls, ExecInv
  <2>6. call.va = STACK
    BY <2>1, <2>2, <2>5 DEF Calls, StackPage
  <2> QED BY <2>3, <2>4, <2>6, FarApart DEF OnePageProgram
<1> QED BY <1>2, <1>3, <1>4, <1>5, <1>6, <1>7, <1>8, <1>9, <1>10 DEF Next, pagewalk

\* The walk's defect is never met by a program of at most one page that exec
\* maps at 0, with a stack under another entry of pgd.
THEOREM OnePageNeverFaults ==
  ASSUME OnePageProgram PROVE Spec => []WalkNeverFaults
<1>1. Init => ExecInv
  BY Sizes DEF Init, ExecInv
<1>2. IInv /\ IInv' /\ ExecInv /\ [Next]_vars => ExecInv'
  BY ExecInvStep
<1>3. ExecInv => WalkNeverFaults
  BY DEF ExecInv, WalkNeverFaults
<1> QED BY <1>1, <1>2, <1>3, Inductive, PTL DEF Spec
=============================================================================
