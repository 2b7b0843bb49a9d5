--------------------------- MODULE BuddyPagesLemmas ---------------------------
(***************************************************************************)
(* Facts about blocks, buddies, tilings and lists that the proofs about    *)
(* both allocators use. None of them mentions a step of a program.         *)
(***************************************************************************)
EXTENDS BuddyPages, FiniteSetTheorems, WellFoundedInduction, TLAPS

-----------------------------------------------------------------------------
(* Arithmetic *)

\* Multiplying by a size keeps the order of two numbers.
LEMMA MulMono ==
  ASSUME NEW a \in Int, NEW b \in Int, NEW s \in Nat, a <= b
  PROVE  a * s <= b * s
<1>1. (b - a) * s >= 0
  OBVIOUS
<1>2. (b - a) * s = b * s - a * s
  OBVIOUS
<1> QED BY <1>1, <1>2

\* One more block of a size takes the size more.
LEMMA MulSucc ==
  ASSUME NEW a \in Int, NEW s \in Int
  PROVE  (a + 1) * s = a * s + s /\ (a - 1) * s = a * s - s
OBVIOUS

\* One block of a size: the 1 of 1 << k.
LEMMA MulOne ==
  ASSUME NEW a \in Nat, NEW s \in Nat \ {0}
  PROVE  a <= a * s
<1>1. a * 1 <= a * s \/ s = 1
  OBVIOUS
<1> QED BY <1>1

\* A multiple of a size divided by the size.
LEMMA DivMultiple ==
  ASSUME NEW q \in Nat, NEW s \in Nat \ {0}
  PROVE  (q * s) \div s = q
<1> DEFINE d == (q * s) \div s
<1>1. d \in Int /\ d * s <= q * s /\ q * s < (d + 1) * s
  OBVIOUS
<1>2. CASE d + 1 <= q
  BY <1>1, <1>2, MulMono
<1>3. CASE q + 1 <= d
  <2>1. (q + 1) * s <= d * s
    BY <1>1, <1>3, MulMono
  <2>2. (q + 1) * s = q * s + s
    OBVIOUS
  <2> QED BY <1>1, <2>1, <2>2
<1> QED BY <1>1, <1>2, <1>3

\* What / and % of C are to each other, for numbers that are not negative.
LEMMA DivMod ==
  ASSUME NEW p \in Nat, NEW s \in Nat \ {0}
  PROVE  /\ p \div s \in Nat /\ (p % s) \in 0 .. (s - 1)
         /\ (p \div s) * s \in Int /\ p = (p \div s) * s + (p % s)
OBVIOUS

\* A set of numbers has a least one: of the orders of some free blocks, say.
LEMMA LeastNat ==
  ASSUME NEW T \in SUBSET Nat, T # {}
  PROVE  \E n \in T : \A m \in T : n <= m
<1> DEFINE R == OpToRel(<, Nat)
<1>1. IsWellFoundedOn(R, Nat)
  BY NatLessThanWellFounded
<1>2. \A m, n \in Nat : m < n => <<m, n>> \in R
  BY DEF OpToRel
<1> HIDE DEF R
<1>3. PICK n \in T : \A m \in T : ~ (<<m, n>> \in R)
  BY <1>1, WFMin
<1>4. \A m \in T : ~ (m < n)
  BY <1>2, <1>3
<1> QED BY <1>3, <1>4

-----------------------------------------------------------------------------
(* Blocks and their buddies *)

\* 1 << k is a positive number for every order k.
LEMMA SizeType ==
  /\ MAX_ORDER \in Nat
  /\ NUM_PAGES \in Nat \ {0}
  /\ \A k \in Orders : BlockSize[k] \in Nat \ {0}
  /\ \A k \in 0 .. (MAX_ORDER - 1) :
       k \in Orders /\ k + 1 \in Orders /\ BlockSize[k + 1] = 2 * BlockSize[k]
<1>1. MAX_ORDER \in Nat /\ BlockSize \in [Orders -> Nat \ {0}]
  BY SizesAssumption
<1>2. \A k \in 0 .. (MAX_ORDER - 1) : BlockSize[k + 1] = 2 * BlockSize[k]
  BY SizesAssumption
<1>3. NUM_PAGES \in Nat \ {0}
  BY PagesAssumption
<1> QED BY <1>1, <1>2, <1>3 DEF Orders

\* Two aligned blocks of which the second is no larger than the first: they
\* are apart, or the first contains the second.
LEMMA NestedNumbers ==
  ASSUME NEW s \in Nat \ {0}, NEW m \in Nat \ {0}, NEW r \in Nat, NEW q \in Nat
  PROVE  LET a == r * (m * s)
             b == q * s
         IN  \/ b + s <= a
             \/ a + m * s <= b
             \/ a <= b /\ b + s <= a + m * s
<1> DEFINE a == r * (m * s)
           b == q * s
<1>1. /\ r * m \in Nat
      /\ (r * m) * s = a
      /\ (r * m + m) * s = a + m * s
      /\ (q + 1) * s = b + s
  OBVIOUS
<1>2. CASE q + 1 <= r * m
  BY <1>1, <1>2, MulMono
<1>3. CASE r * m + m <= q
  BY <1>1, <1>3, MulMono
<1>4. CASE r * m <= q /\ q + 1 <= r * m + m
  BY <1>1, <1>4, MulMono
<1> QED BY <1>1, <1>2, <1>3, <1>4

\* Two aligned blocks, the first no smaller than the second: they share no
\* page, or the second lies inside the first.
LEMMA NestedOrApart ==
  ASSUME NEW j \in Orders, NEW k \in Orders, j <= k,
         NEW a, NEW b, Aligned(a, k), Aligned(b, j)
  PROVE  \/ b + BlockSize[j] <= a
         \/ a + BlockSize[k] <= b
         \/ a <= b /\ b + BlockSize[j] <= a + BlockSize[k]
<1>1. PICK r \in Pages : a = r * BlockSize[k]
  BY DEF Aligned
<1>2. PICK q \in Pages : b = q * BlockSize[j]
  BY DEF Aligned
<1>3. PICK m \in 1 .. BlockSize[k] : BlockSize[k] = m * BlockSize[j]
  BY SizesAssumption DEF Orders
<1>4. r \in Nat /\ q \in Nat /\ m \in Nat \ {0} /\ BlockSize[j] \in Nat \ {0}
  BY SizeType DEF Pages
<1> QED BY <1>1, <1>2, <1>3, <1>4, NestedNumbers

\* An aligned block lies inside mem_map.
LEMMA BlockInside ==
  ASSUME NEW k \in Orders, NEW a \in Pages, Aligned(a, k)
  PROVE  a + BlockSize[k] <= NUM_PAGES
<1>1. PICK r \in Pages : a = r * BlockSize[k]
  BY DEF Aligned
<1>2. PICK m \in 1 .. BlockSize[MAX_ORDER] : BlockSize[MAX_ORDER] = m * BlockSize[k]
  BY SizesAssumption DEF Orders
<1>3. PICK n \in 1 .. NUM_PAGES : NUM_PAGES = n * BlockSize[MAX_ORDER]
  BY PagesAssumption
<1>4. /\ r \in Nat /\ m \in Nat /\ n \in Nat /\ BlockSize[k] \in Nat \ {0}
      /\ BlockSize[MAX_ORDER] \in Nat
  BY SizeType DEF Pages, Orders
<1>5. NUM_PAGES = (n * m) * BlockSize[k] /\ n * m \in Nat
  BY <1>2, <1>3, <1>4
<1>6. CASE r + 1 <= n * m
  <2>1. (r + 1) * BlockSize[k] <= (n * m) * BlockSize[k]
    BY <1>4, <1>5, <1>6, MulMono
  <2>2. (r + 1) * BlockSize[k] = r * BlockSize[k] + BlockSize[k]
    BY <1>4, MulSucc
  <2> QED BY <1>1, <1>5, <2>1, <2>2
<1>7. CASE n * m <= r
  <2>1. (n * m) * BlockSize[k] <= r * BlockSize[k]
    BY <1>4, <1>5, <1>7, MulMono
  <2> QED BY <1>1, <1>5, <2>1 DEF Pages
<1> QED BY <1>4, <1>5, <1>6, <1>7

\* The blocks of an order start at the multiples of its size.
LEMMA AlignedMod ==
  ASSUME NEW k \in Orders, NEW p \in Pages
  PROVE  Aligned(p, k) <=> p % BlockSize[k] = 0
<1> DEFINE s == BlockSize[k]
           q == p \div s
           r == p % s
           b == q * s
<1>1. p \in Nat /\ s \in Nat \ {0} /\ NUM_PAGES \in Nat
  BY SizeType DEF Pages
<1>2. q \in Nat /\ b \in Int /\ p = b + r /\ r \in 0 .. (s - 1)
  BY <1>1, DivMod, Zenon
<1>3. ASSUME Aligned(p, k) PROVE p = b
  <2>1. PICK t \in Pages : p = t * s
    BY <1>3 DEF Aligned
  <2>2. q = t
    BY <1>1, <2>1, DivMultiple DEF Pages
  <2> QED BY <2>1, <2>2
<1>4. ASSUME p = b PROVE Aligned(p, k)
  <2>1. q <= p
    BY <1>1, <1>2, <1>4, MulOne
  <2>2. q \in Pages
    BY <1>1, <1>2, <2>1 DEF Pages
  <2> QED BY <1>4, <2>2 DEF Aligned
<1> HIDE DEF b, r
<1>5. p = b <=> r = 0
  BY <1>1, <1>2
<1> QED BY <1>3, <1>4, <1>5 DEF r

\* Every page lies in a block of MAX_ORDER, as mem_map is whole such blocks.
LEMMA TopBlockOf ==
  ASSUME NEW p \in Pages
  PROVE  \E c \in Pages : Aligned(c, MAX_ORDER) /\ p \in Extent(<<c, MAX_ORDER>>)
<1> DEFINE s == BlockSize[MAX_ORDER]
           q == p \div s
           c == q * s
           r == p % s
<1>1. p \in Nat /\ s \in Nat \ {0} /\ NUM_PAGES \in Nat
  BY SizeType DEF Pages, Orders
<1>2. q \in Nat /\ q <= c
  BY <1>1, DivMod, MulOne
<1>3. c \in Int /\ p = c + r /\ r \in 0 .. (s - 1)
  BY <1>1, DivMod, Zenon
<1> HIDE DEF r
<1>4. c \in Pages /\ q \in Pages /\ c <= p /\ p < c + s
  <2> HIDE DEF c, q
  <2> QED BY <1>1, <1>2, <1>3 DEF Pages
<1>5. Aligned(c, MAX_ORDER)
  BY <1>4 DEF Aligned
<1>6. p \in Extent(<<c, MAX_ORDER>>)
  <2> HIDE DEF c
  <2> QED BY <1>1, <1>3, <1>4 DEF Extent
<1> QED BY <1>4, <1>5, <1>6

\* A list of all the blocks of MAX_ORDER, each once, accounts for all pages.
LEMMA TopBlocksCount ==
  ASSUME NEW list \in Seq(Pages), Distinct(list),
         \A p \in Pages : p \in Range(list) <=> Aligned(p, MAX_ORDER)
  PROVE  Len(list) * BlockSize[MAX_ORDER] = NUM_PAGES
<1> DEFINE s == BlockSize[MAX_ORDER]
<1>1. s \in Nat \ {0} /\ Len(list) \in Nat /\ DOMAIN list = 1 .. Len(list)
  BY SizeType DEF Orders
<1>2. PICK n \in 1 .. NUM_PAGES : NUM_PAGES = n * s
  BY PagesAssumption
<1>3. n \in Nat \ {0} /\ NUM_PAGES \in Nat
  BY <1>2, SizeType
<1> DEFINE f == [i \in 1 .. Len(list) |-> (list[i] \div s) + 1]
<1>4. ASSUME NEW i \in 1 .. Len(list)
      PROVE  f[i] \in 1 .. n /\ list[i] = (f[i] - 1) * s
  <2>1. list[i] \in Pages /\ Aligned(list[i], MAX_ORDER)
    BY <1>1 DEF Range
  <2>2. PICK q \in Pages : list[i] = q * s
    BY <2>1 DEF Aligned
  <2>3. q \in Nat /\ list[i] < n * s
    BY <1>2, <2>1 DEF Pages
  <2>4. q < n
    <3> SUFFICES ASSUME n <= q PROVE FALSE
      BY <1>3, <2>3
    <3>1. n * s <= q * s
      BY <1>1, <1>3, <2>3, MulMono
    <3>2. q * s \in Int /\ n * s \in Int
      BY <1>1, <1>3, <2>3
    <3> QED BY <2>2, <2>3, <3>1, <3>2
  <2>5. f[i] = q + 1
    BY <1>1, <2>2, <2>3, DivMultiple
  <2> HIDE DEF f
  <2>6. f[i] - 1 = q /\ f[i] \in 1 .. n
    BY <1>3, <2>3, <2>4, <2>5
  <2> QED BY <2>2, <2>6
<1>5. ASSUME NEW t \in 1 .. n PROVE \E i \in 1 .. Len(list) : f[i] = t
  <2>1. t - 1 \in Nat /\ t \in Nat
    BY <1>3
  <2>2. t * s <= n * s /\ (t - 1) * s = t * s - s /\ (t - 1) * s \in Nat /\ t * s \in Int
    BY <1>1, <1>3, <2>1, MulMono
  <2>3. t - 1 <= (t - 1) * s
    BY <1>1, <2>1, MulOne
  <2>4. (t - 1) * s \in Pages /\ t - 1 \in Pages
    BY <1>1, <1>2, <1>3, <2>1, <2>2, <2>3 DEF Pages
  <2>5. (t - 1) * s \in Range(list)
    BY <2>4 DEF Aligned
  <2>6. PICK i \in 1 .. Len(list) : list[i] = (t - 1) * s
    BY <1>1, <2>5 DEF Range
  <2>7. list[i] \div s = t - 1
    BY <1>1, <2>1, <2>6, DivMultiple
  <2> QED BY <2>1, <2>7
<1>6. f \in Bijection(1 .. Len(list), 1 .. n)
  <2>1. f \in [1 .. Len(list) -> 1 .. n]
    BY <1>4
  <2>2. ASSUME NEW i \in 1 .. Len(list), NEW j \in 1 .. Len(list), f[i] = f[j]
        PROVE  i = j
    <3>1. list[i] = list[j]
      <4> HIDE DEF f
      <4> QED BY <1>4, <2>2
    <3> QED BY <1>1, <3>1 DEF Distinct
  <2> HIDE DEF f
  <2>3. f \in Injection(1 .. Len(list), 1 .. n)
    BY <2>1, <2>2 DEF Injection, IsInjective
  <2>4. f \in Surjection(1 .. Len(list), 1 .. n)
    BY <1>5, <2>1 DEF Surjection
  <2> QED BY <2>3, <2>4 DEF Bijection
<1>7. Cardinality(1 .. n) = Len(list)
  BY <1>1, <1>6, FS_CountingElements DEF ExistsBijection
<1>8. Cardinality(1 .. n) = n
  BY <1>3, FS_Interval
<1> QED BY <1>2, <1>7, <1>8

\* Two aligned blocks of an order that share a page are the same block.
LEMMA SameBlock ==
  ASSUME NEW k \in Orders, NEW a \in Pages, NEW b \in Pages,
         Aligned(a, k), Aligned(b, k),
         NEW x, x \in Extent(<<a, k>>), x \in Extent(<<b, k>>)
  PROVE  a = b
<1>1. /\ a \in Nat /\ b \in Nat /\ BlockSize[k] \in Nat \ {0} /\ k \in Int
      /\ a <= x /\ x < a + BlockSize[k] /\ b <= x /\ x < b + BlockSize[k] /\ x \in Int
  BY SizeType DEF Extent, Pages, Orders
<1>2. \/ b + BlockSize[k] <= a
      \/ a + BlockSize[k] <= b
      \/ a <= b /\ b + BlockSize[k] <= a + BlockSize[k]
  BY <1>1, NestedOrApart
<1> QED BY <1>1, <1>2

\* If two aligned blocks share a page the larger one has all of the smaller.
LEMMA SharedMeansInside ==
  ASSUME NEW j \in Orders, NEW k \in Orders, j <= k, NEW a \in Pages, NEW b \in Pages,
         Aligned(a, k), Aligned(b, j),
         NEW x, x \in Extent(<<a, k>>), x \in Extent(<<b, j>>)
  PROVE  Extent(<<b, j>>) \subseteq Extent(<<a, k>>)
<1>1. /\ a \in Nat /\ b \in Nat /\ BlockSize[k] \in Nat \ {0} /\ BlockSize[j] \in Nat \ {0}
      /\ a <= x /\ x < a + BlockSize[k] /\ b <= x /\ x < b + BlockSize[j] /\ x \in Int
  BY SizeType DEF Extent, Pages, Orders
<1>2. \/ b + BlockSize[j] <= a
      \/ a + BlockSize[k] <= b
      \/ a <= b /\ b + BlockSize[j] <= a + BlockSize[k]
  BY NestedOrApart
<1> QED BY <1>1, <1>2 DEF Extent

\* The two halves of an aligned block are aligned, and buddies of each other.
LEMMA Halves ==
  ASSUME NEW k \in 0 .. (MAX_ORDER - 1), NEW a \in Pages, Aligned(a, k + 1)
  PROVE  /\ a + BlockSize[k] \in Pages
         /\ Aligned(a, k) /\ Aligned(a + BlockSize[k], k)
         /\ get_buddy(a, k) = a + BlockSize[k]
         /\ get_buddy(a + BlockSize[k], k) = a
<1> DEFINE s == BlockSize[k]
<1>0. /\ k \in Orders /\ k + 1 \in Orders
      /\ s \in Nat \ {0} /\ BlockSize[k + 1] = 2 * s
      /\ NUM_PAGES \in Nat
  BY SizeType
<1>1. PICK t \in Pages : a = t * BlockSize[k + 1]
  BY DEF Aligned
<1>2. t \in Nat /\ a \in Nat
  BY <1>0 DEF Pages
<1>3. a + 2 * s <= NUM_PAGES
  BY <1>0, BlockInside
<1>4. a = (2 * t) * s /\ a + s = (2 * t + 1) * s
  BY <1>0, <1>1, <1>2
<1>5. 2 * t <= (2 * t) * s /\ 2 * t + 1 <= (2 * t + 1) * s
  BY <1>0, <1>2, MulOne
<1>6. a + s \in Pages /\ 2 * t \in Pages /\ 2 * t + 1 \in Pages
  BY <1>0, <1>2, <1>3, <1>4, <1>5 DEF Pages
<1>7. Aligned(a, k) /\ Aligned(a + s, k)
  BY <1>4, <1>6 DEF Aligned
<1>8. a \div s = 2 * t /\ (a + s) \div s = 2 * t + 1
  <2>1. 2 * t \in Nat /\ 2 * t + 1 \in Nat /\ s \in Nat \ {0}
    BY <1>0, <1>2
  <2>2. ((2 * t) * s) \div s = 2 * t /\ ((2 * t + 1) * s) \div s = 2 * t + 1
    BY <2>1, DivMultiple
  <2> QED BY <1>4, <2>2
<1>9. (2 * t) % 2 = 0 /\ (2 * t + 1) % 2 # 0
  BY <1>2
<1>10. get_buddy(a, k) = a + s
  BY <1>8, <1>9 DEF get_buddy
<1>11. get_buddy(a + s, k) = a
  BY <1>0, <1>2, <1>8, <1>9 DEF get_buddy
<1> QED BY <1>6, <1>7, <1>10, <1>11

\* A block below MAX_ORDER is the left or the right half of an aligned block.
LEMMA HalfOf ==
  ASSUME NEW k \in 0 .. (MAX_ORDER - 1), NEW p \in Pages, Aligned(p, k)
  PROVE  \E a \in Pages : Aligned(a, k + 1) /\ (p = a \/ p = a + BlockSize[k])
<1> DEFINE s == BlockSize[k]
<1>0. /\ k \in Orders /\ k + 1 \in Orders
      /\ s \in Nat \ {0} /\ BlockSize[k + 1] = 2 * s
      /\ NUM_PAGES \in Nat
  BY SizeType
<1>1. PICK q \in Pages : p = q * s
  BY DEF Aligned
<1> DEFINE t == q \div 2
<1>2. t \in Nat /\ q \in Nat /\ t <= q /\ (q = 2 * t \/ q = 2 * t + 1)
  BY <1>0 DEF Pages
<1>3. t * (2 * s) = (2 * t) * s /\ (2 * t + 1) * s = (2 * t) * s + s
  BY <1>0, <1>2
<1>4. t * (2 * s) \in Nat
  BY <1>0, <1>2
<1>5. p = t * (2 * s) \/ p = t * (2 * s) + s
  BY <1>0, <1>1, <1>2, <1>3
<1>6. t * (2 * s) \in Pages /\ t \in Pages
  BY <1>0, <1>2, <1>4, <1>5 DEF Pages
<1>7. Aligned(t * (2 * s), k + 1)
  BY <1>0, <1>6 DEF Aligned
<1> QED BY <1>5, <1>6, <1>7

-----------------------------------------------------------------------------
(* Tilings *)

\* The pages of a block are those of its two halves, in which alloc_pages and
\* memory_reserve split it.
LEMMA HalfExtents ==
  ASSUME NEW k \in 0 .. (MAX_ORDER - 1), NEW a \in Pages
  PROVE  /\ Extent(<<a, k + 1>>) = Extent(<<a, k>>) \cup Extent(<<a + BlockSize[k], k>>)
         /\ Extent(<<a, k>>) \cap Extent(<<a + BlockSize[k], k>>) = {}
<1>1. /\ BlockSize[k] \in Nat \ {0} /\ BlockSize[k + 1] = 2 * BlockSize[k]
      /\ a \in Nat
  BY SizeType DEF Pages
<1> QED BY <1>1 DEF Extent

\* Every block has a page.
LEMMA HeadInExtent ==
  ASSUME NEW b \in Pages \X Orders
  PROVE  b[1] \in Extent(b)
BY SizeType DEF Extent, Pages

\* Cutting a block of a tiling in two leaves a tiling ...
LEMMA SplitTiles ==
  ASSUME NEW B \in SUBSET (Pages \X Orders), Tiles(B),
         NEW k \in 0 .. (MAX_ORDER - 1), NEW a \in Pages, <<a, k + 1>> \in B
  PROVE  Tiles((B \ {<<a, k + 1>>}) \cup {<<a, k>>, <<a + BlockSize[k], k>>})
<1> DEFINE whole == <<a, k + 1>>
           left  == <<a, k>>
           right == <<a + BlockSize[k], k>>
           C     == (B \ {whole}) \cup {left, right}
<1>1. Aligned(a, k + 1)
  BY DEF Tiles, AlignedAll
<1>2. AlignedAll(C)
  <2>1. Aligned(a, k) /\ Aligned(a + BlockSize[k], k)
    BY <1>1, Halves
  <2> QED BY <2>1 DEF Tiles, AlignedAll
<1>3. /\ Extent(whole) = Extent(left) \cup Extent(right)
      /\ Extent(left) \cap Extent(right) = {}
  BY HalfExtents
<1>4. DisjointAll(C)
  <2> HIDE DEF whole, left, right
  <2> SUFFICES ASSUME NEW b \in C, NEW c \in C, b # c
               PROVE  Extent(b) \cap Extent(c) = {}
    BY DEF DisjointAll
  <2>1. \A x \in B \ {whole} : Extent(x) \cap Extent(whole) = {}
    BY DEF Tiles, DisjointAll, whole
  <2>2. \A x, y \in B : x # y => Extent(x) \cap Extent(y) = {}
    BY DEF Tiles, DisjointAll
  <2>3. CASE b \in B \ {whole} /\ c \in B \ {whole}
    BY <2>2, <2>3
  <2>4. CASE b \in B \ {whole} /\ c \in {left, right}
    BY <1>3, <2>1, <2>4
  <2>5. CASE c \in B \ {whole} /\ b \in {left, right}
    BY <1>3, <2>1, <2>5
  <2>6. CASE b \in {left, right} /\ c \in {left, right}
    BY <1>3, <2>6
  <2> QED BY <2>3, <2>4, <2>5, <2>6
<1>5. CoversPages(C)
  <2> HIDE DEF whole, left, right
  <2> SUFFICES ASSUME NEW p \in Pages PROVE \E c \in C : p \in Extent(c)
    BY DEF CoversPages
  <2>1. PICK b \in B : p \in Extent(b)
    BY DEF Tiles, CoversPages
  <2> QED BY <1>3, <2>1
<1> QED BY <1>2, <1>4, <1>5 DEF Tiles

\* ... and so does putting two buddies together.
LEMMA MergeTiles ==
  ASSUME NEW B \in SUBSET (Pages \X Orders), Tiles(B),
         NEW k \in 0 .. (MAX_ORDER - 1), NEW a \in Pages, Aligned(a, k + 1),
         <<a, k>> \in B, <<a + BlockSize[k], k>> \in B
  PROVE  Tiles((B \ {<<a, k>>, <<a + BlockSize[k], k>>}) \cup {<<a, k + 1>>})
<1> DEFINE whole == <<a, k + 1>>
           left  == <<a, k>>
           right == <<a + BlockSize[k], k>>
           C     == (B \ {left, right}) \cup {whole}
<1>1. AlignedAll(C)
  BY DEF Tiles, AlignedAll
<1>2. Extent(whole) = Extent(left) \cup Extent(right)
  BY HalfExtents
<1>3. DisjointAll(C)
  <2>1. \A x \in B \ {left, right} :
           Extent(x) \cap Extent(left) = {} /\ Extent(x) \cap Extent(right) = {}
    BY DEF Tiles, DisjointAll
  <2>2. \A x, y \in B : x # y => Extent(x) \cap Extent(y) = {}
    BY DEF Tiles, DisjointAll
  <2> HIDE DEF whole, left, right
  <2> SUFFICES ASSUME NEW b \in C, NEW c \in C, b # c
               PROVE  Extent(b) \cap Extent(c) = {}
    BY DEF DisjointAll
  <2>3. CASE b \in B \ {left, right} /\ c \in B \ {left, right}
    BY <2>2, <2>3
  <2>4. CASE b \in B \ {left, right} /\ c = whole
    BY <1>2, <2>1, <2>4
  <2>5. CASE c \in B \ {left, right} /\ b = whole
    BY <1>2, <2>1, <2>5
  <2> QED BY <2>3, <2>4, <2>5
<1>4. CoversPages(C)
  <2> HIDE DEF whole, left, right
  <2> SUFFICES ASSUME NEW p \in Pages PROVE \E c \in C : p \in Extent(c)
    BY DEF CoversPages
  <2>1. PICK b \in B : p \in Extent(b)
    BY DEF Tiles, CoversPages
  <2> QED BY <1>2, <2>1
<1> QED BY <1>1, <1>3, <1>4 DEF Tiles

-----------------------------------------------------------------------------
(* Lists *)

\* push_front puts a page in front; into a list that did not hold it, it does
\* so without making a page occur twice.
LEMMA PushFront ==
  ASSUME NEW S, NEW list \in Seq(S), NEW x \in S
  PROVE  LET new == push_front(x, list)
         IN  /\ new \in Seq(S) /\ new # << >> /\ Head(new) = x
             /\ Range(new) = {x} \cup Range(list)
             /\ x \notin Range(list) /\ Distinct(list) => Distinct(new)
<1> DEFINE new == push_front(x, list)
<1>1. /\ new \in Seq(S) /\ Len(new) = Len(list) + 1 /\ Len(list) \in Nat
      /\ new[1] = x /\ \A i \in 1 .. Len(list) : new[i + 1] = list[i]
      /\ DOMAIN new = 1 .. (Len(list) + 1) /\ DOMAIN list = 1 .. Len(list)
  BY DEF push_front
<1> HIDE DEF new
<1>2. new # << >> /\ Head(new) = x
  BY <1>1
<1>3. \A i \in 2 .. (Len(list) + 1) : i - 1 \in 1 .. Len(list) /\ new[i] = list[i - 1]
  BY <1>1
<1>4. Range(new) = {x} \cup Range(list)
  BY <1>1, <1>3 DEF Range
<1>5. ASSUME x \notin Range(list), Distinct(list) PROVE Distinct(new)
  <2> SUFFICES ASSUME NEW i \in DOMAIN new, NEW j \in DOMAIN new, new[i] = new[j]
               PROVE  i = j
    BY DEF Distinct
  <2>1. CASE i = 1 \/ j = 1
    <3>1. \A a \in DOMAIN list : list[a] # x
      BY <1>5 DEF Range
    <3>2. \A a \in 2 .. (Len(list) + 1) : new[a] # x
      BY <1>1, <1>3, <3>1
    <3> QED BY <1>1, <2>1, <3>2
  <2>2. CASE i # 1 /\ j # 1
    <3>1. i \in 2 .. (Len(list) + 1) /\ j \in 2 .. (Len(list) + 1)
      BY <1>1, <2>2
    <3>2. i - 1 = j - 1
      BY <1>1, <1>3, <1>5, <3>1 DEF Distinct
    <3> QED BY <3>1, <3>2
  <2> QED BY <2>1, <2>2
<1> QED BY <1>1, <1>2, <1>4, <1>5 DEF new

\* front and pop_front: of a list of distinct pages the first, and only it, goes.
LEMMA PopFront ==
  ASSUME NEW S, NEW list \in Seq(S), list # << >>
  PROVE  /\ Tail(list) \in Seq(S)
         /\ Head(list) \in S /\ Head(list) \in Range(list)
         /\ Distinct(list) =>
              /\ Range(Tail(list)) = Range(list) \ {Head(list)}
              /\ Distinct(Tail(list))
<1> DEFINE t == Tail(list)
<1>1. /\ Len(list) \in Nat /\ Len(list) > 0 /\ Head(list) = list[1]
      /\ DOMAIN list = 1 .. Len(list)
  OBVIOUS
<1>2. /\ t \in Seq(S) /\ DOMAIN t = 1 .. (Len(list) - 1)
      /\ \A i \in 1 .. (Len(list) - 1) : t[i] = list[i + 1]
  OBVIOUS
<1> HIDE DEF t
<1>3. \A i \in 2 .. Len(list) : i - 1 \in 1 .. (Len(list) - 1) /\ list[i] = t[i - 1]
  BY <1>1, <1>2
<1>4. Head(list) \in S /\ Head(list) \in Range(list)
  BY <1>1 DEF Range
<1>5. ASSUME Distinct(list)
      PROVE  Range(t) = Range(list) \ {Head(list)} /\ Distinct(t)
  <2>1. Range(list) \ {Head(list)} \subseteq Range(t)
    <3> SUFFICES ASSUME NEW i \in DOMAIN list, list[i] # Head(list)
                 PROVE  list[i] \in Range(t)
      BY DEF Range
    <3>1. i \in 2 .. Len(list)
      BY <1>1
    <3>2. i - 1 \in DOMAIN t /\ list[i] = t[i - 1]
      BY <1>2, <1>3, <3>1
    <3> QED BY <3>2 DEF Range
  <2>2. Range(t) \subseteq Range(list) \ {Head(list)}
    <3> SUFFICES ASSUME NEW i \in DOMAIN t
                 PROVE  t[i] \in Range(list) /\ t[i] # Head(list)
      BY DEF Range
    <3>1. t[i] = list[i + 1] /\ i + 1 \in DOMAIN list /\ 1 \in DOMAIN list /\ i + 1 # 1
      BY <1>1, <1>2
    <3> QED BY <1>1, <1>5, <3>1 DEF Range, Distinct
  <2>3. Distinct(t)
    <3> SUFFICES ASSUME NEW i \in DOMAIN t, NEW j \in DOMAIN t, t[i] = t[j]
                 PROVE  i = j
      BY DEF Distinct
    <3> DEFINE a == i + 1
               b == j + 1
    <3>1. a \in DOMAIN list /\ b \in DOMAIN list /\ list[a] = list[b]
      BY <1>1, <1>2
    <3> HIDE DEF a, b
    <3>2. a = b
      BY <1>5, <3>1 DEF Distinct
    <3> QED BY <1>2, <3>2 DEF a, b
  <2> QED BY <2>1, <2>2, <2>3
<1> QED BY <1>2, <1>4, <1>5 DEF t

\* list.remove on a list of distinct pages: the page goes, and only it.
LEMMA Remove ==
  ASSUME NEW S, NEW list \in Seq(S), NEW x, Distinct(list)
  PROVE  /\ remove(x, list) \in Seq(S)
         /\ Range(remove(x, list)) = Range(list) \ {x}
         /\ Distinct(remove(x, list))
<1>1. CASE x \notin Range(list)
  BY <1>1 DEF remove
<1>2. CASE x \in Range(list)
  <2> DEFINE n == Len(list)
             i == CHOOSE i \in DOMAIN list : list[i] = x
             r == [j \in 1 .. (n - 1) |-> IF j < i THEN list[j] ELSE list[j + 1]]
  <2>1. i \in DOMAIN list /\ list[i] = x
    BY <1>2 DEF Range
  <2>2. n \in Nat /\ DOMAIN list = 1 .. n /\ i \in 1 .. n
    BY <2>1
  <2>3. remove(x, list) = r
    BY <1>2 DEF remove
  <2> HIDE DEF i
  <2>4. \A j \in 1 .. (n - 1) :
          /\ j < i => r[j] = list[j] /\ j \in 1 .. n
          /\ ~ (j < i) => r[j] = list[j + 1] /\ j + 1 \in 1 .. n
    BY <2>2
  <2>5. DOMAIN r = 1 .. (n - 1) /\ r \in Seq(S)
    <3>1. \A j \in 1 .. (n - 1) : r[j] \in S
      BY <2>2, <2>4
    <3>2. n - 1 \in Nat
      BY <2>2
    <3> QED BY <3>1, <3>2
  <2> HIDE DEF r, n
  <2>6. \A j \in 1 .. n : j # i =>
          /\ j < i => j \in 1 .. (n - 1) /\ list[j] = r[j]
          /\ ~ (j < i) => j - 1 \in 1 .. (n - 1) /\ list[j] = r[j - 1]
    BY <2>2, <2>4
  <2>7. Range(r) \subseteq Range(list) \ {x}
    <3> SUFFICES ASSUME NEW j \in 1 .. (n - 1)
                 PROVE  r[j] \in Range(list) /\ r[j] # x
      BY <2>5 DEF Range
    <3> QED BY <2>1, <2>2, <2>4 DEF Range, Distinct
  <2>8. Range(list) \ {x} \subseteq Range(r)
    <3> SUFFICES ASSUME NEW j \in 1 .. n, list[j] # x
                 PROVE  list[j] \in Range(r)
      BY <2>2 DEF Range
    <3>1. j # i
      BY <2>1
    <3>2. \E z \in 1 .. (n - 1) : list[j] = r[z]
      BY <2>2, <2>6, <3>1
    <3> QED BY <2>5, <3>2 DEF Range
  <2>9. Distinct(r)
    <3> SUFFICES ASSUME NEW a \in 1 .. (n - 1), NEW b \in 1 .. (n - 1), r[a] = r[b]
                 PROVE  a = b
      BY <2>5 DEF Distinct
    <3> DEFINE src(j) == IF j < i THEN j ELSE j + 1
    <3>1. src(a) \in 1 .. n /\ src(b) \in 1 .. n /\ list[src(a)] = list[src(b)]
      BY <2>4
    <3>2. src(a) = src(b)
      BY <2>2, <3>1 DEF Distinct
    <3> QED BY <2>2, <3>2
  <2> QED BY <2>3, <2>5, <2>7, <2>8, <2>9
<1> QED BY <1>1, <1>2

\* get_buddy is an involution on the aligned pages of an order.
LEMMA BuddyOfBuddy ==
  ASSUME NEW k \in 0 .. (MAX_ORDER - 1), NEW p \in Pages, Aligned(p, k)
  PROVE  /\ get_buddy(p, k) \in Pages /\ get_buddy(p, k) # p
         /\ Aligned(get_buddy(p, k), k)
         /\ get_buddy(get_buddy(p, k), k) = p
<1>1. PICK a \in Pages : Aligned(a, k + 1) /\ (p = a \/ p = a + BlockSize[k])
  BY HalfOf
<1>2. BlockSize[k] \in Nat \ {0} /\ a \in Nat
  BY SizeType DEF Pages
<1> QED BY <1>1, <1>2, Halves

-----------------------------------------------------------------------------
(* The initial lists *)

\* The free_area that main() and mm_init() build: whole blocks of MAX_ORDER, in
\* one list, that tile mem_map.
LEMMA InitPagesSound ==
  ASSUME InitPages
  PROVE  /\ PagesTypeOK /\ Tiles(FreeBlocks) /\ UsedBlocks = {}
         /\ \A k \in Orders :
              /\ Distinct(free_area[k])
              /\ \A p \in Range(free_area[k]) : refcount[p] = 0 /\ order[p] = k
         /\ \A k \in 0 .. (MAX_ORDER - 1) : Range(free_area[k]) = {}
<1> DEFINE s == BlockSize[MAX_ORDER]
<1>0. /\ MAX_ORDER \in Nat /\ NUM_PAGES \in Nat \ {0} /\ s \in Nat \ {0}
      /\ 0 \in Orders /\ MAX_ORDER \in Orders
  BY SizeType DEF Orders
<1>1. PICK n \in 1 .. NUM_PAGES : NUM_PAGES = n * s
  BY PagesAssumption
<1>2. NUM_PAGES \div s = n
  BY <1>0, <1>1, DivMultiple
<1> DEFINE tops == [i \in 1 .. n |-> (i - 1) * s]
<1>3. /\ order = [p \in Pages |-> IF Aligned(p, MAX_ORDER) THEN MAX_ORDER ELSE 0]
      /\ refcount = [p \in Pages |-> 0]
      /\ free_area = [k \in Orders |-> IF k = MAX_ORDER THEN tops ELSE << >>]
  BY <1>2 DEF InitPages
<1>4. \A i \in 1 .. n : /\ (i - 1) * s \in Pages /\ i - 1 \in Pages
                       /\ Aligned((i - 1) * s, MAX_ORDER)
  <2> SUFFICES ASSUME NEW i \in 1 .. n
               PROVE  (i - 1) * s \in Pages /\ i - 1 \in Pages
    BY DEF Aligned
  <2>1. i - 1 \in Nat /\ i \in Int /\ n \in Nat
    BY <1>0
  <2>2. i * s <= n * s
    BY <1>0, <2>1, MulMono
  <2>3. (i - 1) * s = i * s - s /\ (i - 1) * s \in Nat
    BY <1>0, <2>1, MulSucc
  <2>4. i - 1 <= (i - 1) * s
    BY <1>0, <2>1, MulOne
  <2> QED BY <1>0, <1>1, <2>1, <2>2, <2>3, <2>4 DEF Pages
<1>5. /\ tops \in Seq(Pages)
      /\ Range(tops) \subseteq Pages
      /\ \A p \in Range(tops) : Aligned(p, MAX_ORDER)
  <2>1. n \in Nat /\ tops \in [1 .. n -> Pages]
    BY <1>0, <1>4
  <2> QED BY <1>4, <2>1 DEF Range
<1>6. Distinct(tops)
  <2> SUFFICES ASSUME NEW i \in 1 .. n, NEW j \in 1 .. n, (i - 1) * s = (j - 1) * s
               PROVE  i = j
    BY DEF Distinct
  <2>1. ((i - 1) * s) \div s = i - 1 /\ ((j - 1) * s) \div s = j - 1
    <3>1. i - 1 \in Nat /\ j - 1 \in Nat
      BY <1>0
    <3> QED BY <1>0, <3>1, DivMultiple
  <2> QED BY <1>0, <2>1
<1> HIDE DEF tops
<1>7. PagesTypeOK
  <2>1. order \in [Pages -> Orders] /\ refcount \in [Pages -> {0, 1}]
    BY <1>0, <1>3
  <2>2. free_area \in [Orders -> Seq(Pages)]
    BY <1>3, <1>5
  <2> QED BY <2>1, <2>2 DEF PagesTypeOK
<1>8. FreeBlocks = Range(tops) \X {MAX_ORDER} /\ UsedBlocks = {}
  <2>1. UsedBlocks = {}
    BY <1>3 DEF UsedBlocks
  <2>2. \A k \in Orders : k # MAX_ORDER => Range(free_area[k]) = {}
    BY <1>3 DEF Range
  <2>3. Range(free_area[MAX_ORDER]) = Range(tops)
    BY <1>0, <1>3
  <2> QED BY <1>0, <1>5, <2>1, <2>2, <2>3 DEF FreeBlocks
<1>9. Tiles(FreeBlocks)
  <2>1. AlignedAll(FreeBlocks)
    BY <1>5, <1>8 DEF AlignedAll
  <2>2. DisjointAll(FreeBlocks)
    <3> SUFFICES ASSUME NEW p \in Range(tops), NEW q \in Range(tops), p # q
                 PROVE  Extent(<<p, MAX_ORDER>>) \cap Extent(<<q, MAX_ORDER>>) = {}
      BY <1>8 DEF DisjointAll
    <3>1. p \in Nat /\ q \in Nat /\ Aligned(p, MAX_ORDER) /\ Aligned(q, MAX_ORDER)
      BY <1>5 DEF Pages
    <3>2. p + s <= q \/ q + s <= p
      BY <1>0, <3>1, NestedOrApart
    <3> QED BY <1>0, <3>1, <3>2 DEF Extent
  <2>3. CoversPages(FreeBlocks)
    <3> SUFFICES ASSUME NEW p \in Pages
                 PROVE  \E q \in Range(tops) : p \in Extent(<<q, MAX_ORDER>>)
      BY <1>8 DEF CoversPages
    <3> DEFINE d == p \div s
    <3>1. d \in Nat /\ p \in Nat /\ p < NUM_PAGES /\ d * s <= p /\ p < d * s + s
      BY <1>0 DEF Pages
    <3> HIDE DEF d
    <3>2. CASE n <= d
      <4>1. n * s <= d * s
        BY <1>0, <3>1, <3>2, MulMono
      <4> QED BY <1>0, <1>1, <3>1, <4>1
    <3>3. CASE d + 1 <= n
      <4>1. d + 1 \in 1 .. n /\ (d + 1) - 1 = d
        BY <1>0, <3>1, <3>3
      <4>2. d * s \in Range(tops)
        BY <4>1 DEF Range, tops
      <4>3. p \in Extent(<<d * s, MAX_ORDER>>)
        BY <1>0, <3>1 DEF Extent
      <4> QED BY <4>2, <4>3
    <3>4. n <= d \/ d + 1 <= n
      BY <1>0, <3>1
    <3> QED BY <3>2, <3>3, <3>4
  <2> QED BY <2>1, <2>2, <2>3 DEF Tiles
<1>10. ASSUME NEW k \in Orders
       PROVE  /\ Distinct(free_area[k])
              /\ \A p \in Range(free_area[k]) : refcount[p] = 0 /\ order[p] = k
  <2>1. CASE k = MAX_ORDER
    <3>1. free_area[k] = tops
      BY <1>0, <1>3, <2>1
    <3>2. \A p \in Range(tops) : refcount[p] = 0 /\ order[p] = MAX_ORDER
      BY <1>3, <1>5
    <3> QED BY <1>6, <2>1, <3>1, <3>2
  <2>2. CASE k # MAX_ORDER
    <3>1. free_area[k] = << >>
      BY <1>3, <2>2
    <3> QED BY <3>1 DEF Distinct, Range
  <2> QED BY <2>1, <2>2
<1>11. ASSUME NEW k \in 0 .. (MAX_ORDER - 1) PROVE Range(free_area[k]) = {}
  BY <1>0, <1>3 DEF Range, Orders
<1> QED BY <1>7, <1>8, <1>9, <1>10, <1>11
=============================================================================
