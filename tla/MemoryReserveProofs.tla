-------------------------- MODULE MemoryReserveProofs --------------------------
(***************************************************************************)
(* memory_reserve keeps mem_map tiled and reserves exactly the pages it    *)
(* was asked for, for every NUM_PAGES, MAX_ORDER, PAGE_SIZE and any        *)
(* sequence of calls with non-empty ranges.                                *)
(***************************************************************************)
EXTENDS MemoryReserve, BuddyPagesLemmas

\* A call that has not ended has a page left, and all pages from start_pfn to
\* end_pfn were asked for.
CallSound ==
  /\ before \subseteq asked
  /\ pc = "idle" => Reserved = asked
  /\ pc # "idle" => /\ start_pfn <= end_pfn
                    /\ \A p \in Pages : p \in start_pfn .. end_pfn => p \in asked

\* The offset looked for lies between base and twice the next size above it.
InnerLoopSound ==
  pc = "order" => cur_base < Offset /\ Offset < cur_base + 2 * BlockSize[cur_order]

IInv ==
  /\ TypeOK
  /\ BlocksTilePages
  /\ FreeListsSound
  /\ ReservedExactly
  /\ CallSound
  /\ InnerLoopSound
  /\ pc # "error_order"

-----------------------------------------------------------------------------
(* Numbers *)

\* A larger number has no smaller quotient.
LEMMA DivMono ==
  ASSUME NEW a \in Nat, NEW b \in Nat, a <= b, NEW s \in Nat \ {0}
  PROVE  a \div s <= b \div s
<1> DEFINE x == a \div s
           y == b \div s
<1>1. /\ x \in Int /\ y \in Int /\ x * s <= a /\ b < (y + 1) * s
  OBVIOUS
<1> HIDE DEF x, y
<1>2. CASE y + 1 <= x
  <2>1. (y + 1) * s <= x * s
    BY <1>1, <1>2, MulMono
  <2>2. (y + 1) * s \in Int /\ x * s \in Int
    BY <1>1
  <2> QED BY <1>1, <2>1, <2>2
<1>3. CASE x <= y
  BY <1>3 DEF x, y
<1> QED BY <1>1, <1>2, <1>3

\* A page has a byte of a range just when it is between its first and last pfn.
LEMMA TouchedPages ==
  ASSUME NEW b \in Nat, NEW z \in Nat \ {0}, NEW p \in Nat, NEW s \in Nat \ {0}
  PROVE  (p * s < b + z /\ b < (p + 1) * s) <=> p \in (b \div s) .. ((b + z - 1) \div s)
<1> DEFINE x == b \div s
           y == (b + z - 1) \div s
<1>1. /\ x \in Int /\ x * s <= b /\ b < (x + 1) * s
      /\ y \in Int /\ y * s <= b + z - 1 /\ b + z - 1 < (y + 1) * s
  OBVIOUS
<1> HIDE DEF x, y
<1>2. /\ p * s \in Int /\ (p + 1) * s \in Int /\ x * s \in Int /\ (x + 1) * s \in Int
      /\ y * s \in Int /\ (y + 1) * s \in Int
  BY <1>1
<1>3. (p * s < b + z) <=> p <= y
  <2>1. CASE p <= y
    <3>1. p * s <= y * s
      BY <1>1, <2>1, MulMono
    <3> QED BY <1>1, <1>2, <2>1, <3>1
  <2>2. CASE y + 1 <= p
    <3>1. (y + 1) * s <= p * s
      BY <1>1, <2>2, MulMono
    <3> QED BY <1>1, <1>2, <2>2, <3>1
  <2> QED BY <1>1, <2>1, <2>2
<1>4. (b < (p + 1) * s) <=> x <= p
  <2>1. CASE x <= p
    <3>1. (x + 1) * s <= (p + 1) * s
      BY <1>1, <2>1, MulMono
    <3> QED BY <1>1, <1>2, <2>1, <3>1
  <2>2. CASE p + 1 <= x
    <3>1. (p + 1) * s <= x * s
      BY <1>1, <2>2, MulMono
    <3> QED BY <1>1, <1>2, <2>2, <3>1
  <2> QED BY <1>1, <2>1, <2>2
<1> QED BY <1>1, <1>3, <1>4 DEF x, y

-----------------------------------------------------------------------------
(* Blocks of a state *)

\* Blocks are pairs of a page and an order.
LEMMA BlocksType == Blocks \in SUBSET (Pages \X Orders)
BY DEF Blocks, FreeBlocks, UsedBlocks

\* A page lies in one block only.
LEMMA OneBlock ==
  ASSUME IInv, NEW b \in Blocks, NEW c \in Blocks, NEW x, x \in Extent(b), x \in Extent(c)
  PROVE  b = c
BY DEF IInv, BlocksTilePages, Tiles, DisjointAll

\* A listed page heads a free block and no other.
LEMMA FreeHead ==
  ASSUME IInv, NEW k \in Orders, NEW p \in Range(free_area[k])
  PROVE  /\ p \in Pages /\ refcount[p] = 0 /\ order[p] = k
         /\ <<p, k>> \in Blocks /\ Aligned(p, k) /\ p \in Extent(<<p, k>>)
         /\ \A j \in Orders \ {k} : p \notin Range(free_area[j])
<1>1. p \in Pages
  BY DEF IInv, TypeOK, PagesTypeOK, Range
<1>2. <<p, k>> \in Blocks
  BY <1>1 DEF Blocks, FreeBlocks
<1>3. Aligned(p, k)
  BY <1>2 DEF IInv, BlocksTilePages, Tiles, AlignedAll
<1>4. p \in Extent(<<p, k>>)
  BY <1>1, HeadInExtent
<1>5. refcount[p] = 0 /\ order[p] = k
  BY DEF IInv, FreeListsSound
<1>6. \A j \in Orders \ {k} : p \notin Range(free_area[j])
  BY <1>5 DEF IInv, FreeListsSound
<1> QED BY <1>1, <1>2, <1>3, <1>4, <1>5, <1>6

\* The block memory_reserve looks at holds start_pfn.
LEMMA HeadFacts ==
  ASSUME IInv
  PROVE  /\ cur_order \in Orders /\ BlockSize[cur_order] \in Nat \ {0}
         /\ start_pfn \in Nat /\ end_pfn \in Nat
         /\ Head_pfn \in Nat /\ Head_pfn <= start_pfn
         /\ start_pfn < Head_pfn + BlockSize[cur_order]
<1>1. /\ cur_order \in Orders /\ BlockSize[cur_order] \in Nat \ {0}
      /\ start_pfn \in Nat /\ end_pfn \in Nat
  BY SizeType DEF IInv, TypeOK
<1>2. /\ start_pfn % BlockSize[cur_order] \in Nat
      /\ start_pfn % BlockSize[cur_order] < BlockSize[cur_order]
      /\ start_pfn % BlockSize[cur_order] <= start_pfn
  <2>1. ASSUME NEW a \in Nat, NEW s \in Nat \ {0}
        PROVE  a % s \in Nat /\ a % s < s /\ a % s <= a
    <3>1. a % s \in Nat /\ a % s < s /\ a = s * (a \div s) + (a % s) /\ a \div s \in Nat
      OBVIOUS
    <3>2. s * (a \div s) \in Nat
      BY <3>1
    <3> QED BY <3>1, <3>2
  <2> QED BY <1>1, <2>1
<1> QED BY <1>1, <1>2 DEF Head_pfn

\* What depends on mem_map and the lists alone keeps its value.
LEMMA SamePages ==
  ASSUME IInv, UNCHANGED pageVars
  PROVE  /\ BlocksTilePages' /\ FreeListsSound' /\ PagesTypeOK'
         /\ Blocks' = Blocks /\ Reserved' = Reserved
<1>1. order' = order /\ refcount' = refcount /\ free_area' = free_area
  BY DEF pageVars
<1>2. Blocks' = Blocks /\ UsedBlocks' = UsedBlocks
  BY <1>1 DEF Blocks, FreeBlocks, UsedBlocks
<1>3. BlocksTilePages'
  BY <1>2 DEF IInv, BlocksTilePages, Tiles, AlignedAll, DisjointAll, CoversPages
<1>4. FreeListsSound' /\ PagesTypeOK'
  BY <1>1 DEF IInv, FreeListsSound, TypeOK, PagesTypeOK
<1>5. Reserved' = Reserved
  BY <1>2 DEF Reserved
<1> QED BY <1>2, <1>3, <1>4, <1>5

-----------------------------------------------------------------------------
(* Initial states *)

\* mm_init makes its call in a state of the invariant.
LEMMA InitSound == Init => IInv
<1> SUFFICES ASSUME Init PROVE IInv
  OBVIOUS
<1>1. /\ PagesTypeOK /\ Tiles(FreeBlocks) /\ UsedBlocks = {}
      /\ \A k \in Orders : /\ Distinct(free_area[k])
                           /\ \A p \in Range(free_area[k]) : refcount[p] = 0 /\ order[p] = k
  BY InitPagesSound DEF Init
<1>2. Blocks = FreeBlocks /\ Reserved = {}
  BY <1>1 DEF Blocks, Reserved
<1>3. TypeOK
  BY <1>1, SizeType DEF TypeOK, Init, Orders
<1>4. BlocksTilePages /\ FreeListsSound
  BY <1>1, <1>2 DEF BlocksTilePages, FreeListsSound
<1>5. ReservedExactly /\ CallSound
  BY <1>2 DEF ReservedExactly, CallSound, Remaining, Init
<1> QED BY <1>3, <1>4, <1>5 DEF IInv, InnerLoopSound, Init

-----------------------------------------------------------------------------
(* Steps *)

\* The beginning of memory_reserve: the range in bytes becomes one in pages.
LEMMA CallStep ==
  ASSUME IInv, NEW r \in Regions, Call(r)
  PROVE  IInv'
<1>1. /\ pc = "idle" /\ pc' = "scan" /\ UNCHANGED pageVars /\ cur_base' = cur_base
      /\ start_pfn' = r[1] \div PAGE_SIZE /\ end_pfn' = LastPfn(r)
      /\ cur_order' = MAX_ORDER /\ asked' = asked \cup Touched(r) /\ before' = asked
  BY DEF Call
<1>2. r[1] \in Nat /\ r[2] \in Nat \ {0} /\ PAGE_SIZE \in Nat \ {0}
  BY RegionsAssumption
<1>3. start_pfn' \in Nat /\ end_pfn' \in Nat /\ start_pfn' <= end_pfn'
  <2>1. r[1] + r[2] - 1 \in Nat /\ r[1] <= r[1] + r[2] - 1
    BY <1>2
  <2>2. r[1] \div PAGE_SIZE \in Nat /\ (r[1] + r[2] - 1) \div PAGE_SIZE \in Nat
    BY <1>2, <2>1
  <2> QED BY <1>1, <1>2, <2>1, <2>2, DivMono DEF LastPfn
<1>4. \A p \in Pages : p \in Touched(r) <=> p \in start_pfn' .. end_pfn'
  <2> SUFFICES ASSUME NEW p \in Pages
               PROVE  p \in Touched(r) <=> p \in start_pfn' .. end_pfn'
    OBVIOUS
  <2>1. p \in Nat
    BY DEF Pages
  <2> QED BY <1>1, <1>2, <2>1, TouchedPages DEF Touched, LastPfn
<1>5. Touched(r) \subseteq Pages
  BY DEF Touched
<1>6. TypeOK'
  BY <1>1, <1>3, <1>5, SamePages, SizeType DEF IInv, TypeOK, Orders
<1>7. Reserved' = asked /\ asked \subseteq Pages
  BY <1>1, SamePages DEF IInv, CallSound, TypeOK
<1>8. ReservedExactly'
  BY <1>1, <1>4, <1>5, <1>7 DEF ReservedExactly, Remaining
<1>9. CallSound'
  BY <1>1, <1>3, <1>4 DEF CallSound
<1> QED BY <1>1, <1>6, <1>8, <1>9, SamePages DEF IInv, InnerLoopSound

\* The steps that only move the loops on.
LEMMA NotFoundStep ==
  ASSUME IInv, NotFound
  PROVE  IInv'
<1>1. /\ pc = "scan" /\ pc' = "not_found" /\ UNCHANGED pageVars
      /\ start_pfn' = start_pfn /\ end_pfn' = end_pfn /\ cur_order' = cur_order
      /\ cur_base' = cur_base /\ asked' = asked /\ before' = before
  BY DEF NotFound
<1>2. TypeOK'
  BY <1>1, SamePages DEF IInv, TypeOK
<1>3. ReservedExactly'
  BY <1>1, SamePages DEF IInv, ReservedExactly, Remaining
<1>4. CallSound'
  BY <1>1 DEF IInv, CallSound
<1> QED BY <1>1, <1>2, <1>3, <1>4, SamePages DEF IInv, InnerLoopSound

\* The end of the inner search, with the order to go on with.
LEMMA FoundOrderStep ==
  ASSUME IInv, FoundOrder
  PROVE  IInv'
<1>1. /\ pc = "order" /\ pc' = "scan" /\ UNCHANGED pageVars
      /\ start_pfn' = start_pfn /\ end_pfn' = end_pfn /\ cur_order' = cur_order
      /\ cur_base' = cur_base /\ asked' = asked /\ before' = before
  BY DEF FoundOrder
<1>2. TypeOK'
  BY <1>1, SamePages DEF IInv, TypeOK
<1>3. ReservedExactly'
  BY <1>1, SamePages DEF IInv, ReservedExactly, Remaining
<1>4. CallSound'
  BY <1>1 DEF IInv, CallSound
<1> QED BY <1>1, <1>2, <1>3, <1>4, SamePages DEF IInv, InnerLoopSound

\* start_pfn's offset in its top block is below the size of one.
LEMMA OffsetType ==
  ASSUME IInv
  PROVE  Offset \in Nat /\ cur_base \in Nat
<1>1. start_pfn \in Nat /\ TopSize \in Nat \ {0} /\ cur_base \in Nat
  BY SizeType DEF IInv, TypeOK, TopSize, Orders
<1> QED BY <1>1 DEF Offset

\* At order 0 the offset is base + 1: the search never runs off the end.
LEMMA LowerOrderStep ==
  ASSUME IInv, LowerOrder
  PROVE  IInv'
<1>1. /\ pc = "order" /\ Offset # cur_base + BlockSize[cur_order] /\ UNCHANGED pageVars
      /\ cur_base' = NextBase /\ start_pfn' = start_pfn /\ end_pfn' = end_pfn
      /\ asked' = asked /\ before' = before
  BY DEF LowerOrder
<1>2. /\ Offset \in Nat /\ cur_base \in Nat /\ BlockSize[cur_order] \in Nat \ {0}
      /\ cur_order \in Orders /\ MAX_ORDER \in Nat
      /\ cur_base < Offset /\ Offset < cur_base + 2 * BlockSize[cur_order]
  BY <1>1, OffsetType, SizeType DEF IInv, InnerLoopSound, TypeOK
<1>3. cur_order # 0
  <2> SUFFICES ASSUME cur_order = 0 PROVE FALSE
    OBVIOUS
  <2>1. BlockSize[cur_order] = 1
    BY SizesAssumption
  <2> QED BY <1>1, <1>2, <2>1
<1>4. pc' = "order" /\ cur_order' = cur_order - 1
  BY <1>1, <1>3 DEF LowerOrder
<1>5. cur_order - 1 \in Orders /\ BlockSize[cur_order] = 2 * BlockSize[cur_order - 1]
  <2>1. cur_order - 1 \in 0 .. (MAX_ORDER - 1) /\ (cur_order - 1) + 1 = cur_order
    BY <1>2, <1>3 DEF Orders
  <2> QED BY <2>1, SizeType
<1>6. Offset' = Offset
  BY <1>1 DEF Offset
<1>7. /\ NextBase \in Nat /\ NextBase < Offset
      /\ Offset < NextBase + BlockSize[cur_order]
  BY <1>1, <1>2 DEF NextBase
<1>8. TypeOK'
  BY <1>1, <1>4, <1>5, <1>6, <1>7, <1>2, SamePages DEF IInv, TypeOK
<1>9. ReservedExactly'
  BY <1>1, <1>4, SamePages DEF IInv, ReservedExactly, Remaining
<1>10. CallSound'
  BY <1>1, <1>4 DEF IInv, CallSound
<1>11. InnerLoopSound'
  BY <1>1, <1>4, <1>5, <1>6, <1>7 DEF InnerLoopSound
<1> QED BY <1>1, <1>4, <1>8, <1>9, <1>10, <1>11, SamePages DEF IInv

\* A reserved block leaves its list; no other list changes.
LEMMA ReserveLists ==
  ASSUME IInv, ReserveBlock
  PROVE  /\ Head_pfn \in Pages /\ Aligned(Head_pfn, cur_order)
         /\ refcount[Head_pfn] = 0 /\ order[Head_pfn] = cur_order
         /\ <<Head_pfn, cur_order>> \in Blocks
         /\ \A j \in Orders :
              /\ free_area'[j] \in Seq(Pages) /\ Distinct(free_area'[j])
              /\ Range(free_area'[j]) = Range(free_area[j]) \ {Head_pfn}
<1> DEFINE h == Head_pfn
           k == cur_order
<1>1. /\ h \in Range(free_area[k])
      /\ free_area' = [free_area EXCEPT ![k] = remove(h, @)]
  BY DEF ReserveBlock, Listed
<1>2. k \in Orders
  BY HeadFacts
<1>3. /\ h \in Pages /\ refcount[h] = 0 /\ order[h] = k
      /\ <<h, k>> \in Blocks /\ Aligned(h, k)
      /\ \A j \in Orders \ {k} : h \notin Range(free_area[j])
  BY <1>1, <1>2, FreeHead
<1> HIDE DEF h, k
<1>4. Distinct(free_area[k]) /\ free_area[k] \in Seq(Pages)
  BY <1>2 DEF IInv, FreeListsSound, TypeOK, PagesTypeOK
<1>5. /\ free_area'[k] = remove(h, free_area[k])
      /\ \A j \in Orders \ {k} : free_area'[j] = free_area[j]
  BY <1>1, <1>2 DEF IInv, TypeOK, PagesTypeOK
<1>6. /\ free_area'[k] \in Seq(Pages) /\ Distinct(free_area'[k])
      /\ Range(free_area'[k]) = Range(free_area[k]) \ {h}
  BY <1>4, <1>5, Remove
<1>7. ASSUME NEW j \in Orders
      PROVE  /\ free_area'[j] \in Seq(Pages) /\ Distinct(free_area'[j])
             /\ Range(free_area'[j]) = Range(free_area[j]) \ {h}
  BY <1>3, <1>5, <1>6 DEF IInv, FreeListsSound, TypeOK, PagesTypeOK
<1> QED BY <1>3, <1>7 DEF h, k

\* One whole block from start_pfn on moves from its free list to the blocks
\* in use.
LEMMA ReserveBlockStep ==
  ASSUME IInv, ReserveBlock
  PROVE  IInv'
<1> DEFINE h    == Head_pfn
           k    == cur_order
           next == h + BlockSize[k]
           blk  == <<h, k>>
<1>1. /\ pc = "scan" /\ h \in Range(free_area[k]) /\ h = start_pfn
      /\ end_pfn >= h + BlockSize[k] - 1
      /\ refcount' = [refcount EXCEPT ![h] = 1]
      /\ order' = [order EXCEPT ![h] = k]
      /\ free_area' = [free_area EXCEPT ![k] = remove(h, @)]
      /\ start_pfn' = next /\ end_pfn' = end_pfn /\ asked' = asked /\ before' = before
  BY DEF ReserveBlock, Listed, FullOverlap
<1>2. AfterBlock(next)
  BY DEF ReserveBlock
<1>3. k \in Orders /\ BlockSize[k] \in Nat \ {0} /\ start_pfn \in Nat /\ end_pfn \in Nat
  BY HeadFacts
<1>4. /\ h \in Pages /\ refcount[h] = 0 /\ order[h] = k
      /\ blk \in Blocks /\ Aligned(h, k) /\ h \in Extent(blk)
      /\ \A j \in Orders \ {k} : h \notin Range(free_area[j])
  BY <1>1, <1>3, FreeHead
<1>5. \A j \in Orders :
        /\ free_area'[j] \in Seq(Pages) /\ Distinct(free_area'[j])
        /\ Range(free_area'[j]) = Range(free_area[j]) \ {h}
  BY ReserveLists
<1> HIDE DEF h, k
<1>9. PagesTypeOK'
  <2>1. order' \in [Pages -> Orders] /\ refcount' \in [Pages -> {0, 1}]
    BY <1>1, <1>3 DEF IInv, TypeOK, PagesTypeOK
  <2>2. free_area' \in [Orders -> Seq(Pages)]
    BY <1>1, <1>5 DEF IInv, TypeOK, PagesTypeOK
  <2> QED BY <2>1, <2>2 DEF PagesTypeOK
<1>10. UsedBlocks' = UsedBlocks \cup {blk}
  <2>1. \A q \in Pages, j \in Orders :
          <<q, j>> \in UsedBlocks' <=> <<q, j>> \in UsedBlocks \cup {blk}
    BY <1>1, <1>4 DEF UsedBlocks, IInv, TypeOK, PagesTypeOK
  <2>2. UsedBlocks' \subseteq Pages \X Orders /\ UsedBlocks \subseteq Pages \X Orders
    BY DEF UsedBlocks
  <2> QED BY <1>3, <1>4, <2>1, <2>2
<1>11. Blocks' = Blocks
  <2>1. FreeBlocks' = FreeBlocks \ {blk}
    <3>1. \A q \in Pages, j \in Orders :
            <<q, j>> \in FreeBlocks' <=> <<q, j>> \in FreeBlocks \ {blk}
      BY <1>4, <1>5 DEF FreeBlocks
    <3>2. FreeBlocks' \subseteq Pages \X Orders /\ FreeBlocks \subseteq Pages \X Orders
      BY DEF FreeBlocks
    <3> QED BY <3>1, <3>2
  <2>2. blk \in FreeBlocks
    BY <1>1, <1>3, <1>4 DEF FreeBlocks
  <2> QED BY <1>10, <2>1, <2>2 DEF Blocks
<1>12. BlocksTilePages'
  BY <1>11 DEF IInv, BlocksTilePages, Tiles, AlignedAll, DisjointAll, CoversPages
<1>13. FreeListsSound'
  <2> SUFFICES ASSUME NEW j \in Orders
               PROVE  /\ Distinct(free_area'[j])
                      /\ \A q \in Range(free_area'[j]) : refcount'[q] = 0 /\ order'[q] = j
    BY DEF FreeListsSound, Distinct
  <2>1. Distinct(free_area'[j])
    BY <1>5
  <2>2. ASSUME NEW q \in Range(free_area'[j]) PROVE refcount'[q] = 0 /\ order'[q] = j
    <3>1. q \in Range(free_area[j]) /\ q # h
      BY <1>5, <2>2
    <3>2. q \in Pages /\ refcount[q] = 0 /\ order[q] = j
      BY <3>1, FreeHead
    <3> QED BY <1>1, <3>1, <3>2 DEF IInv, TypeOK, PagesTypeOK
  <2> QED BY <2>1, <2>2
\* The reservation advances by exactly this block.
<1>14. h \in Nat /\ next \in Nat /\ next <= NUM_PAGES
  BY <1>3, <1>4, BlockInside DEF Pages
<1>15. Reserved' = Reserved \cup (start_pfn .. (next - 1))
  <2>1. Extent(blk) = start_pfn .. (next - 1) /\ Extent(blk) \subseteq Pages
    BY <1>1, <1>3, <1>14, SizeType DEF Extent, Pages
  <2> QED BY <1>10, <2>1 DEF Reserved
<1>16. Remaining' = next .. end_pfn /\ Remaining = start_pfn .. end_pfn
  <2>1. CASE next > end_pfn
    BY <1>1, <1>2, <1>3, <1>14, <2>1 DEF AfterBlock, Remaining
  <2>2. CASE next <= end_pfn
    BY <1>1, <1>2, <1>3, <1>14, <2>2 DEF AfterBlock, Remaining
  <2> QED BY <1>3, <1>14, <2>1, <2>2
<1>17. start_pfn .. (next - 1) \subseteq asked
  <2>1. \A p \in Pages : p \in start_pfn .. end_pfn => p \in asked
    BY <1>1 DEF IInv, CallSound
  <2> QED BY <1>1, <1>3, <1>14, <2>1, SizeType DEF Pages
<1>18. ReservedExactly'
  <2>1. start_pfn .. end_pfn = (start_pfn .. (next - 1)) \cup (next .. end_pfn)
    BY <1>1, <1>3, <1>14
  <2>2. (start_pfn .. (next - 1)) \cap (next .. end_pfn) = {}
    BY <1>3, <1>14
  <2> QED BY <1>1, <1>15, <1>16, <1>17, <2>1, <2>2 DEF IInv, ReservedExactly
<1>19. CallSound'
  <2>1. before' \subseteq asked'
    BY <1>1 DEF IInv, CallSound
  <2>2. ASSUME pc' = "idle" PROVE Reserved' = asked'
    BY <1>18, <2>1, <2>2 DEF ReservedExactly, Remaining
  <2>3. ASSUME pc' # "idle" PROVE next <= end_pfn
    BY <1>2, <2>3 DEF AfterBlock
  <2>4. \A p \in Pages : p \in next .. end_pfn => p \in asked
    BY <1>1, <1>3, <1>14 DEF IInv, CallSound, Pages
  <2> QED BY <1>1, <2>1, <2>2, <2>3, <2>4 DEF CallSound
\* Inside a top block MAX_ORDER is not 0, and the search starts below it.
<1>20. /\ pc' \in {"idle", "scan", "order"} /\ cur_order' \in Orders /\ cur_base' \in Nat
       /\ pc' = "order" => /\ cur_base' < Offset' /\ cur_base' <= Offset'
                           /\ Offset' < cur_base' + 2 * BlockSize[cur_order']
  <2>1. CASE next <= end_pfn /\ next % TopSize # 0
    <3>1. TopSize \in Nat \ {0} /\ MAX_ORDER \in Nat
      BY SizeType DEF TopSize, Orders
    <3>2. next % TopSize \in Nat /\ next % TopSize < TopSize
      BY <1>14, <3>1
    <3>3. MAX_ORDER # 0
      <4>1. TopSize # 1
        BY <2>1, <3>1, <3>2
      <4> QED BY <4>1, SizesAssumption DEF TopSize
    <3>4. MAX_ORDER - 1 \in 0 .. (MAX_ORDER - 1) /\ (MAX_ORDER - 1) + 1 = MAX_ORDER
      BY <3>1, <3>3
    <3>5. MAX_ORDER - 1 \in Orders /\ TopSize = 2 * BlockSize[MAX_ORDER - 1]
      BY <3>4, SizeType DEF TopSize
    <3>6. pc' = "order" /\ cur_order' = MAX_ORDER - 1 /\ cur_base' = 0
      BY <1>2, <1>3, <1>14, <2>1 DEF AfterBlock
    <3>7. Offset' = next % TopSize
      BY <1>1 DEF Offset
    <3> QED BY <2>1, <3>2, <3>5, <3>6, <3>7
  <2>2. CASE next <= end_pfn /\ next % TopSize = 0
    <3>1. pc' = "scan" /\ cur_order' = MAX_ORDER /\ cur_base' = cur_base
      BY <1>2, <1>3, <1>14, <2>2 DEF AfterBlock
    <3> QED BY <3>1, SizeType DEF IInv, TypeOK, Orders
  <2>3. CASE next > end_pfn
    <3>1. pc' = "idle" /\ cur_order' = cur_order /\ cur_base' = cur_base
      BY <1>2, <1>3, <1>14, <2>3 DEF AfterBlock
    <3> QED BY <3>1 DEF IInv, TypeOK
  <2> QED BY <1>3, <1>14, <2>1, <2>2, <2>3
<1>21. TypeOK'
  BY <1>1, <1>3, <1>9, <1>14, <1>20 DEF IInv, TypeOK
<1>22. InnerLoopSound' /\ pc' # "error_order"
  BY <1>20 DEF InnerLoopSound
<1> QED BY <1>12, <1>13, <1>18, <1>19, <1>21, <1>22 DEF IInv

\* Splitting a block puts its halves, neither of them listed before, into the
\* list below; no other list changes.
LEMMA SplitLists ==
  ASSUME IInv, SplitBlock
  PROVE  LET h == Head_pfn
             k == cur_order - 1
             b == get_buddy(h, k)
         IN  /\ k \in 0 .. (MAX_ORDER - 1)
             /\ h \in Pages /\ Aligned(h, k + 1) /\ h \in Range(free_area[k + 1])
             /\ refcount[h] = 0 /\ order[h] = k + 1
             /\ <<h, k + 1>> \in Blocks
             /\ b = h + BlockSize[k] /\ b \in Pages /\ b # h
             /\ refcount[b] = 0
             /\ \A j \in Orders : b \notin Range(free_area[j])
             /\ \A j \in Orders \ {k + 1} : h \notin Range(free_area[j])
             /\ free_area' = [j \in Orders |-> free_area'[j]]
             /\ \A j \in Orders :
                  /\ free_area'[j] \in Seq(Pages) /\ Distinct(free_area'[j])
                  /\ Range(free_area'[j]) =
                       IF j = k THEN {h, b} \cup Range(free_area[j])
                                ELSE Range(free_area[j]) \ {h}
<1> DEFINE h     == Head_pfn
           k     == cur_order - 1
           b     == get_buddy(h, k)
           whole == <<h, k + 1>>
<1>1. /\ pc = "scan" /\ h \in Range(free_area[cur_order])
      /\ h < start_pfn \/ end_pfn < h + BlockSize[cur_order] - 1
      /\ order' = [order EXCEPT ![h] = k, ![b] = k]
      /\ cur_order' = k /\ free_area' = Demote(h, cur_order)
      /\ pc' = IF start_pfn > end_pfn THEN "idle" ELSE "scan"
      /\ refcount' = refcount /\ start_pfn' = start_pfn /\ end_pfn' = end_pfn
      /\ cur_base' = cur_base /\ asked' = asked /\ before' = before
  BY DEF SplitBlock, Listed
<1>2. /\ cur_order \in Orders /\ BlockSize[cur_order] \in Nat \ {0}
      /\ start_pfn \in Nat /\ end_pfn \in Nat /\ MAX_ORDER \in Nat
      /\ h \in Nat /\ h <= start_pfn /\ start_pfn < h + BlockSize[cur_order]
      /\ start_pfn <= end_pfn
  BY <1>1, HeadFacts, SizeType DEF IInv, CallSound
\* A single page is never partly inside the range.
<1>3. cur_order # 0
  <2> SUFFICES ASSUME cur_order = 0 PROVE FALSE
    OBVIOUS
  <2>1. BlockSize[cur_order] = 1
    BY SizesAssumption
  <2> QED BY <1>1, <1>2, <2>1
<1>4. k \in 0 .. (MAX_ORDER - 1) /\ k \in Orders /\ k + 1 = cur_order
  BY <1>2, <1>3 DEF Orders
<1>5. /\ h \in Pages /\ refcount[h] = 0 /\ order[h] = k + 1
      /\ whole \in Blocks /\ Aligned(h, k + 1) /\ h \in Extent(whole)
      /\ \A j \in Orders \ {k + 1} : h \notin Range(free_area[j])
  BY <1>1, <1>2, <1>4, FreeHead
<1>6. b = h + BlockSize[k] /\ b \in Pages /\ b # h
  <2>1. BlockSize[k] \in Nat \ {0}
    BY <1>4, SizeType
  <2> QED BY <1>2, <1>4, <1>5, <2>1, Halves
<1>7. b \in Extent(whole)
  <2>1. b \in Extent(<<b, k>>)
    BY <1>4, <1>6, HeadInExtent
  <2>2. Extent(whole) = Extent(<<h, k>>) \cup Extent(<<h + BlockSize[k], k>>)
    BY <1>4, <1>5, HalfExtents
  <2> QED BY <1>6, <2>1, <2>2
<1> HIDE DEF h, k, b
\* No other block holds the right half's first page.
<1>8. refcount[b] = 0 /\ \A j \in Orders : b \notin Range(free_area[j])
  <2>1. ASSUME NEW j \in Orders, b \in Range(free_area[j]) PROVE FALSE
    <3>1. <<b, j>> \in Blocks /\ b \in Extent(<<b, j>>)
      BY <2>1, FreeHead
    <3>2. <<b, j>> = whole
      BY <1>5, <1>7, <3>1, OneBlock
    <3> QED BY <1>6, <3>2
  <2>2. ASSUME refcount[b] # 0 PROVE FALSE
    <3>1. refcount[b] = 1 /\ order[b] \in Orders
      BY <1>6, <2>2 DEF IInv, TypeOK, PagesTypeOK
    <3>2. <<b, order[b]>> \in Blocks /\ b \in Extent(<<b, order[b]>>)
      BY <1>6, <3>1, HeadInExtent DEF Blocks, UsedBlocks
    <3>3. <<b, order[b]>> = whole
      BY <1>5, <1>7, <3>2, OneBlock
    <3> QED BY <1>6, <3>3
  <2> QED BY <2>1, <2>2
<1> DEFINE mid == push_front(b, free_area[k])
           new == push_front(h, mid)
<1>9. /\ free_area'[k] = new
      /\ free_area'[k + 1] = remove(h, free_area[k + 1])
      /\ \A j \in Orders \ {k, k + 1} : free_area'[j] = free_area[j]
      /\ DOMAIN free_area' = Orders
  <2>1. free_area' = [free_area EXCEPT ![k + 1] = remove(h, @),
                                       ![k] = push_front(h, push_front(b, @))]
    <3>1. cur_order - 1 = k /\ get_buddy(h, cur_order - 1) = b
      BY DEF k, b
    <3> QED BY <1>1, <1>4, <3>1 DEF Demote
  <2>2. DOMAIN free_area = Orders /\ k # k + 1 /\ k \in Orders /\ k + 1 \in Orders
    BY <1>2, <1>4 DEF IInv, TypeOK, PagesTypeOK
  <2>3. free_area'[k] = new
    BY <2>1, <2>2
  <2>4. free_area'[k + 1] = remove(h, free_area[k + 1])
    BY <2>1, <2>2
  <2>5. \A j \in Orders \ {k, k + 1} : free_area'[j] = free_area[j]
    BY <2>1, <2>2
  <2> QED BY <2>1, <2>2, <2>3, <2>4, <2>5
<1>10. /\ Distinct(free_area[k]) /\ Distinct(free_area[k + 1])
       /\ free_area[k] \in Seq(Pages) /\ free_area[k + 1] \in Seq(Pages)
  BY <1>2, <1>4 DEF IInv, FreeListsSound, TypeOK, PagesTypeOK
<1>11. mid \in Seq(Pages) /\ Range(mid) = {b} \cup Range(free_area[k]) /\ Distinct(mid)
  <2>1. mid \in Seq(Pages) /\ Range(mid) = {b} \cup Range(free_area[k])
    BY <1>6, <1>10, PushFront
  <2>2. Distinct(mid)
    BY <1>4, <1>6, <1>8, <1>10, PushFront
  <2> QED BY <2>1, <2>2
<1>12. h \notin Range(mid)
  BY <1>4, <1>5, <1>6, <1>11
<1> HIDE DEF mid
<1>13. /\ free_area'[k] \in Seq(Pages)
       /\ Range(free_area'[k]) = {h, b} \cup Range(free_area[k])
       /\ Distinct(free_area'[k])
  <2>1. new \in Seq(Pages) /\ Range(new) = {h} \cup Range(mid)
    BY <1>5, <1>11, PushFront
  <2>2. Distinct(new)
    BY <1>5, <1>11, <1>12, PushFront
  <2> HIDE DEF new
  <2> QED BY <1>9, <1>11, <2>1, <2>2
<1> HIDE DEF new
<1>14. /\ free_area'[k + 1] \in Seq(Pages)
       /\ Range(free_area'[k + 1]) = Range(free_area[k + 1]) \ {h}
       /\ Distinct(free_area'[k + 1])
  BY <1>9, <1>10, Remove
<1>15. free_area' = [j \in Orders |-> free_area'[j]]
  BY <1>9 DEF k, h, Demote, SplitBlock
<1>16. ASSUME NEW j \in Orders
       PROVE  /\ free_area'[j] \in Seq(Pages) /\ Distinct(free_area'[j])
              /\ Range(free_area'[j]) = IF j = k THEN {h, b} \cup Range(free_area[j])
                                                 ELSE Range(free_area[j]) \ {h}
  <2>1. CASE j = k
    BY <1>4, <1>13, <2>1
  <2>2. CASE j = k + 1
    <3>1. k + 1 # k
      BY <1>4
    <3> QED BY <1>14, <2>2, <3>1, Zenon
  <2>3. CASE j # k /\ j # k + 1
    BY <1>5, <1>9, <2>3 DEF IInv, FreeListsSound, TypeOK, PagesTypeOK
  <2> QED BY <2>1, <2>2, <2>3
<1>17. h \in Range(free_area[k + 1])
  BY <1>1, <1>4
<1> QED BY <1>4, <1>5, <1>6, <1>8, <1>15, <1>16, <1>17 DEF h, k, b

\* A partly covered block is replaced by its halves, both listed one order below;
\* the half start_pfn lies in is listed for the next turn.
LEMMA SplitBlockStep ==
  ASSUME IInv, SplitBlock
  PROVE  IInv'
<1> DEFINE h     == Head_pfn
           k     == cur_order - 1
           b     == get_buddy(h, k)
           whole == <<h, k + 1>>
<1>1. /\ pc = "scan" /\ h \in Range(free_area[cur_order])
      /\ h < start_pfn \/ end_pfn < h + BlockSize[cur_order] - 1
      /\ order' = [order EXCEPT ![h] = k, ![b] = k]
      /\ cur_order' = k /\ free_area' = Demote(h, cur_order)
      /\ pc' = IF start_pfn > end_pfn THEN "idle" ELSE "scan"
      /\ refcount' = refcount /\ start_pfn' = start_pfn /\ end_pfn' = end_pfn
      /\ cur_base' = cur_base /\ asked' = asked /\ before' = before
  BY DEF SplitBlock, Listed
<1>2. /\ cur_order \in Orders /\ BlockSize[cur_order] \in Nat \ {0}
      /\ start_pfn \in Nat /\ end_pfn \in Nat /\ MAX_ORDER \in Nat
      /\ h \in Nat /\ h <= start_pfn /\ start_pfn < h + BlockSize[cur_order]
      /\ start_pfn <= end_pfn
  BY <1>1, HeadFacts, SizeType DEF IInv, CallSound
<1>3. /\ k \in 0 .. (MAX_ORDER - 1) /\ k \in Orders /\ k + 1 = cur_order
      /\ k + 1 \in Orders /\ k # k + 1
  BY <1>2, SplitLists DEF Orders
<1>4. /\ h \in Pages /\ Aligned(h, k + 1) /\ h \in Range(free_area[k + 1])
      /\ refcount[h] = 0 /\ order[h] = k + 1 /\ whole \in Blocks
      /\ b = h + BlockSize[k] /\ b \in Pages /\ b # h /\ refcount[b] = 0
      /\ \A j \in Orders : b \notin Range(free_area[j])
      /\ \A j \in Orders \ {k + 1} : h \notin Range(free_area[j])
  BY SplitLists
<1>5. free_area' = [j \in Orders |-> free_area'[j]]
  BY SplitLists
<1>6. \A j \in Orders :
        /\ free_area'[j] \in Seq(Pages) /\ Distinct(free_area'[j])
        /\ Range(free_area'[j]) = IF j = k THEN {h, b} \cup Range(free_area[j])
                                           ELSE Range(free_area[j]) \ {h}
  BY SplitLists
<1> HIDE DEF h, k, b
<1>15. PagesTypeOK'
  <2>1. order' \in [Pages -> Orders] /\ refcount' \in [Pages -> {0, 1}]
    BY <1>1, <1>3 DEF IInv, TypeOK, PagesTypeOK
  <2>2. free_area' \in [Orders -> Seq(Pages)]
    BY <1>5, <1>6
  <2> QED BY <2>1, <2>2 DEF PagesTypeOK
<1>16. UsedBlocks' = UsedBlocks
  BY <1>1, <1>4 DEF UsedBlocks, IInv, TypeOK, PagesTypeOK
<1>17. BlocksTilePages'
  <2> DEFINE left == <<h, k>>  right == <<b, k>>
  <2>1. FreeBlocks' = (FreeBlocks \ {whole}) \cup {left, right}
    <3>1. ASSUME NEW q \in Pages, NEW j \in Orders
          PROVE  q \in Range(free_area'[j]) <=>
                   \/ q \in Range(free_area[j]) /\ ~ (q = h /\ j = k + 1)
                   \/ j = k /\ q \in {h, b}
      BY <1>3, <1>4, <1>6
    <3>2. \A q \in Pages, j \in Orders :
            <<q, j>> \in FreeBlocks' <=> <<q, j>> \in (FreeBlocks \ {whole}) \cup {left, right}
      BY <3>1 DEF FreeBlocks
    <3>3. /\ FreeBlocks' \subseteq Pages \X Orders
          /\ (FreeBlocks \ {whole}) \cup {left, right} \subseteq Pages \X Orders
      BY <1>3, <1>4 DEF FreeBlocks
    <3> QED BY <3>2, <3>3
  <2>2. whole \notin UsedBlocks
    BY <1>4 DEF UsedBlocks
  <2>3. Blocks' = (Blocks \ {whole}) \cup {left, right}
    BY <1>16, <2>1, <2>2 DEF Blocks
  <2>4. Tiles(Blocks)
    BY DEF IInv, BlocksTilePages
  <2>5. Tiles(Blocks')
    BY <1>3, <1>4, <2>3, <2>4, BlocksType, SplitTiles
  <2> QED BY <2>5 DEF BlocksTilePages, Tiles, AlignedAll, DisjointAll, CoversPages
<1>18. FreeListsSound'
  <2> SUFFICES ASSUME NEW j \in Orders
               PROVE  /\ Distinct(free_area'[j])
                      /\ \A q \in Range(free_area'[j]) : refcount'[q] = 0 /\ order'[q] = j
    BY DEF FreeListsSound, Distinct
  <2>1. Distinct(free_area'[j])
    BY <1>6
  <2>2. ASSUME NEW q \in Range(free_area'[j]) PROVE refcount'[q] = 0 /\ order'[q] = j
    <3>1. CASE q = h \/ q = b
      <4>1. ASSUME j # k PROVE FALSE
        <5>1. q \in Range(free_area[j]) /\ q # h
          BY <1>6, <2>2, <4>1
        <5>2. b \notin Range(free_area[j])
          BY <1>4
        <5> QED BY <3>1, <5>1, <5>2, Zenon
      <4>2. j = k
        BY <4>1
      <4> QED BY <1>1, <1>3, <1>4, <3>1, <4>2 DEF IInv, TypeOK, PagesTypeOK
    <3>2. CASE q # h /\ q # b
      <4>1. q \in Range(free_area[j])
        BY <1>3, <1>6, <2>2, <3>2
      <4>2. q \in Pages /\ refcount[q] = 0 /\ order[q] = j
        BY <4>1, FreeHead
      <4> QED BY <1>1, <3>2, <4>2 DEF IInv, TypeOK, PagesTypeOK
    <3> QED BY <3>1, <3>2
  <2> QED BY <2>1, <2>2
<1>19. pc' = "scan"
  BY <1>1, <1>2
<1>20. TypeOK'
  BY <1>1, <1>3, <1>15, <1>19 DEF IInv, TypeOK
<1>21. ReservedExactly' /\ CallSound'
  <2>1. Reserved' = Reserved /\ Remaining' = Remaining
    BY <1>1, <1>16, <1>19 DEF Reserved, Remaining
  <2> QED BY <1>1, <1>19, <2>1 DEF IInv, ReservedExactly, CallSound
<1> QED BY <1>17, <1>18, <1>19, <1>20, <1>21 DEF IInv, InnerLoopSound

\* Nothing the invariant speaks of changes.
LEMMA StutterStep ==
  ASSUME IInv, UNCHANGED vars
  PROVE  IInv'
<1>1. /\ UNCHANGED pageVars /\ pc' = pc /\ start_pfn' = start_pfn /\ end_pfn' = end_pfn
      /\ cur_order' = cur_order /\ cur_base' = cur_base
      /\ asked' = asked /\ before' = before
  BY DEF vars, callVars
<1>2. TypeOK'
  BY <1>1, SamePages DEF IInv, TypeOK, Offset
<1>3. ReservedExactly' /\ CallSound' /\ InnerLoopSound'
  BY <1>1, SamePages DEF IInv, ReservedExactly, CallSound, InnerLoopSound, Remaining, Offset
<1> QED BY <1>1, <1>2, <1>3, SamePages DEF IInv

-----------------------------------------------------------------------------
(* The path of a call through a top block. What has been split of it and not *)
(* been reserved is free to the right of start_pfn, so that a call meets a   *)
(* block that is not listed only where an earlier call has been.             *)

TopExtent(t) == Extent(<<t, MAX_ORDER>>)

\* No earlier call has reserved a page of the top block start_pfn lies in.
Fresh == \A p \in before : ~ SameTop(p, start_pfn)

\* A top block without a reserved page is listed whole, unless it is just
\* being split.
UntouchedTops ==
  \A t \in Pages : Aligned(t, MAX_ORDER) /\ TopExtent(t) \cap Reserved = {} =>
    \/ t \in Range(free_area[MAX_ORDER])
    \/ /\ pc \in {"scan", "not_found"}
       /\ start_pfn \in TopExtent(t)
       /\ cur_order # MAX_ORDER

\* Every block of an order above c that has page x in its left half has its
\* right half listed.
RightHalvesFree(c, x) ==
  \A k \in c .. (MAX_ORDER - 1) : \A a \in Pages :
    Aligned(a, k + 1) /\ a <= x /\ x < a + BlockSize[k] =>
      a + BlockSize[k] \in Range(free_area[k])

\* Where no earlier call has been, the block looked at is listed.
ScanSound ==
  pc = "scan" /\ Fresh /\ start_pfn < NUM_PAGES =>
    Listed /\ RightHalvesFree(cur_order, start_pfn)

\* The search for the next order is for the size of a right half: the block
\* reserved last ends at start_pfn - 1. It narrows down the block of the next
\* order up in which start_pfn lies behind the head.
OrderSound ==
  pc = "order" =>
    /\ cur_order < MAX_ORDER
    /\ start_pfn < NUM_PAGES
    /\ Aligned(start_pfn - Offset + cur_base, cur_order + 1)
    /\ Fresh => RightHalvesFree(0, start_pfn - 1)

\* A call asks for nothing beyond end_pfn.
RangeEnds == pc # "idle" => \A p \in asked : p \in before \/ p <= end_pfn

\* The only free buddies are the halves of the block just split.
FreePairs ==
  \A k \in 0 .. (MAX_ORDER - 1) : \A p \in Range(free_area[k]) :
    get_buddy(p, k) \in Range(free_area[k]) =>
      pc = "scan" /\ k = cur_order /\ Head_pfn \in {p, get_buddy(p, k)}

PathInv ==
  /\ UntouchedTops
  /\ ScanSound
  /\ OrderSound
  /\ RangeEnds
  /\ FreePairs
  /\ AbortsOnlyOnTouched

\* A page lies in a top block when they have the same quotient by its size.
LEMMA TopExtentOf ==
  ASSUME NEW t \in Pages, Aligned(t, MAX_ORDER), NEW x \in Nat
  PROVE  x \in TopExtent(t) <=> SameTop(t, x)
<1> DEFINE s == TopSize
           d == x \div s
<1>1. s \in Nat \ {0}
  BY SizeType DEF TopSize, Orders
<1>2. PICK q \in Pages : t = q * s
  BY DEF Aligned, TopSize
<1>3. q \in Nat /\ t \div s = q
  BY <1>1, <1>2, SizeType, DivMultiple DEF Pages
<1>4. d \in Nat /\ x % s \in 0 .. (s - 1) /\ d * s \in Int /\ x = d * s + (x % s)
  BY <1>1, DivMod
<1>5. q * s \in Int /\ (q + 1) * s = q * s + s /\ (d + 1) * s = d * s + s
  BY <1>1, <1>3, <1>4, MulSucc
<1>6. x \in TopExtent(t) <=> q * s <= x /\ x < q * s + s
  BY <1>1, <1>2, <1>5 DEF TopExtent, Extent, TopSize
<1> HIDE DEF d
<1>7. CASE d = q
  BY <1>1, <1>3, <1>4, <1>6, <1>7 DEF SameTop, d
<1>8. CASE d + 1 <= q
  <2>1. (d + 1) * s <= q * s
    BY <1>1, <1>3, <1>4, <1>8, MulMono
  <2>2. x \notin TopExtent(t)
    BY <1>1, <1>4, <1>5, <1>6, <2>1
  <2> QED BY <1>3, <1>4, <1>8, <2>2 DEF SameTop, d
<1>9. CASE q + 1 <= d
  <2>1. (q + 1) * s <= d * s
    BY <1>1, <1>3, <1>4, <1>9, MulMono
  <2>2. x \notin TopExtent(t)
    BY <1>1, <1>4, <1>5, <1>6, <2>1
  <2> QED BY <1>3, <1>4, <1>9, <2>2 DEF SameTop, d
<1> QED BY <1>3, <1>4, <1>7, <1>8, <1>9

\* Two pages of a top block are in the same one, and no third is.
LEMMA TopOfTop ==
  ASSUME NEW t \in Pages, Aligned(t, MAX_ORDER), NEW x \in Nat, x \in TopExtent(t),
         NEW y \in Nat
  PROVE  SameTop(y, x) <=> y \in TopExtent(t)
BY TopExtentOf DEF SameTop

\* page_order_head_pfn is the head of the aligned block around a page, the
\* only one of its order.
LEMMA BlockAround ==
  ASSUME NEW k \in Orders, NEW p \in Pages
  PROVE  LET a == p - (p % BlockSize[k])
         IN  /\ a \in Pages /\ Aligned(a, k) /\ p \in Extent(<<a, k>>)
             /\ \A c \in Pages : Aligned(c, k) /\ p \in Extent(<<c, k>>) => c = a
<1> DEFINE s == BlockSize[k]
           q == p \div s
           a == p - (p % s)
<1>1. s \in Nat \ {0} /\ p \in Nat /\ NUM_PAGES \in Nat /\ p < NUM_PAGES
  BY SizeType DEF Pages
<1>2. /\ q \in Nat /\ (p % s) \in 0 .. (s - 1) /\ q * s \in Int /\ p = q * s + (p % s)
  BY <1>1, DivMod
<1> DEFINE r == p % s
           m == q * s
<1>3. a = p - r /\ r \in 0 .. (s - 1) /\ m \in Int /\ p = m + r /\ q \in Nat
  BY <1>2
<1>9. q <= m
  BY <1>1, <1>2, MulOne
<1> HIDE DEF q, r, m, a, s
<1>4. a = m /\ a \in Int /\ 0 <= a /\ a <= p /\ p < a + s
  BY <1>1, <1>3, <1>9
<1>5. q \in Pages /\ a \in Pages
  BY <1>1, <1>3, <1>9, <1>4 DEF Pages
<1>6. Aligned(a, k)
  BY <1>4, <1>5 DEF Aligned, m, s
<1>7. p \in Extent(<<a, k>>)
  BY <1>1, <1>4 DEF Extent, s
<1>8. \A c \in Pages : Aligned(c, k) /\ p \in Extent(<<c, k>>) => c = a
  BY <1>5, <1>6, <1>7, SameBlock
<1> QED BY <1>5, <1>6, <1>7, <1>8 DEF a, s

\* mem_map ends where a top block does.
LEMMA NumPagesTop == NUM_PAGES % TopSize = 0
<1>1. PICK n \in 1 .. NUM_PAGES : NUM_PAGES = n * TopSize
  BY PagesAssumption DEF TopSize
<1>2. n \in Nat /\ TopSize \in Nat \ {0} /\ NUM_PAGES \in Nat
  BY SizeType DEF TopSize, Orders
<1> DEFINE d == NUM_PAGES \div TopSize
<1>3. d = n
  BY <1>1, <1>2, DivMultiple
<1>4. d * TopSize \in Int /\ NUM_PAGES = d * TopSize + (NUM_PAGES % TopSize)
      /\ NUM_PAGES % TopSize \in 0 .. (TopSize - 1)
  BY <1>2, DivMod
<1> HIDE DEF d
<1> QED BY <1>1, <1>2, <1>3, <1>4

\* mm_init's call finds every top block listed.
LEMMA InitPath == Init => PathInv
<1> SUFFICES ASSUME Init PROVE PathInv
  OBVIOUS
<1>1. pc = "idle" /\ asked = {}
  BY DEF Init
<1>2. /\ IInv /\ Blocks = FreeBlocks
      /\ \A k \in 0 .. (MAX_ORDER - 1) : Range(free_area[k]) = {}
  BY InitPagesSound, InitSound DEF Init, Blocks
<1>3. ASSUME NEW t \in Pages, Aligned(t, MAX_ORDER) PROVE t \in Range(free_area[MAX_ORDER])
  <2>1. PICK c \in Blocks : t \in Extent(c)
    BY <1>2 DEF IInv, BlocksTilePages, Tiles, CoversPages
  <2>2. c \in Pages \X Orders /\ c[1] \in Range(free_area[c[2]])
    BY <1>2 DEF FreeBlocks
  <2>3. c[2] = MAX_ORDER
    <3>1. c[2] \notin 0 .. (MAX_ORDER - 1)
      BY <1>2, <2>2
    <3> QED BY <2>2, <3>1, SizeType DEF Orders
  <2>4. Aligned(c[1], MAX_ORDER) /\ t \in Extent(<<c[1], MAX_ORDER>>)
    BY <1>2, <2>1, <2>2, <2>3 DEF IInv, BlocksTilePages, Tiles, AlignedAll
  <2>5. t \in Extent(<<t, MAX_ORDER>>)
    BY SizeType, HeadInExtent DEF Orders
  <2>6. c[1] = t
    BY <1>3, <2>2, <2>4, <2>5, SizeType, SameBlock DEF Orders
  <2> QED BY <2>2, <2>3, <2>6
<1> QED BY <1>1, <1>2, <1>3 DEF PathInv, UntouchedTops, ScanSound, OrderSound, RangeEnds,
                                 FreePairs, AbortsOnlyOnTouched

\* A call starts at a top block that is whole, or has been used before.
LEMMA CallPath ==
  ASSUME IInv, IInv', PathInv, NEW r \in Regions, Call(r)
  PROVE  PathInv'
<1>1. /\ pc = "idle" /\ pc' = "scan" /\ cur_order' = MAX_ORDER
      /\ order' = order /\ refcount' = refcount /\ free_area' = free_area
      /\ start_pfn' = r[1] \div PAGE_SIZE /\ end_pfn' = LastPfn(r)
      /\ asked' = asked \cup Touched(r) /\ before' = asked
  BY DEF Call, pageVars
<1>2. Reserved' = Reserved /\ Reserved = asked /\ asked \subseteq Pages
  BY <1>1, SamePages DEF IInv, CallSound, pageVars, TypeOK
<1>3. \A t \in Pages : Aligned(t, MAX_ORDER) /\ TopExtent(t) \cap asked = {} =>
        t \in Range(free_area[MAX_ORDER])
  BY <1>1, <1>2 DEF PathInv, UntouchedTops
<1>4. UntouchedTops'
  BY <1>1, <1>2, <1>3 DEF UntouchedTops, TopExtent, Extent
<1>5. ASSUME Fresh', start_pfn' < NUM_PAGES
      PROVE  Listed' /\ RightHalvesFree(cur_order, start_pfn)'
  <2> DEFINE t == start_pfn' - (start_pfn' % BlockSize[MAX_ORDER])
  <2>1. start_pfn' \in Pages /\ MAX_ORDER \in Orders /\ MAX_ORDER \in Nat
    BY <1>5, SizeType DEF IInv, TypeOK, Pages, Orders
  <2>2. t \in Pages /\ Aligned(t, MAX_ORDER) /\ start_pfn' \in TopExtent(t)
    BY <2>1, BlockAround DEF TopExtent
  <2>3. Head_pfn' = t
    BY <1>1 DEF Head_pfn
  <2> HIDE DEF t
  <2>4. TopExtent(t) \cap asked = {}
    <3> SUFFICES ASSUME NEW p \in asked, p \in TopExtent(t) PROVE FALSE
      OBVIOUS
    <3>1. p \in Nat /\ start_pfn' \in Nat
      BY <1>2, <2>1 DEF Pages
    <3>2. SameTop(p, start_pfn')
      BY <2>2, <3>1, TopOfTop
    <3> QED BY <1>1, <1>5, <3>2 DEF Fresh, SameTop
  <2>5. Listed'
    BY <1>1, <1>3, <2>2, <2>3, <2>4 DEF Listed
  <2>6. RightHalvesFree(cur_order, start_pfn)'
    BY <1>1, <2>1 DEF RightHalvesFree
  <2> QED BY <2>5, <2>6
<1>6. ScanSound'
  BY <1>5 DEF ScanSound
<1>7. RangeEnds'
  <2> SUFFICES ASSUME NEW p \in Touched(r) PROVE p <= end_pfn'
    BY <1>1 DEF RangeEnds
  <2>1. r[1] \in Nat /\ r[2] \in Nat \ {0} /\ PAGE_SIZE \in Nat \ {0} /\ p \in Nat
    BY RegionsAssumption DEF Touched, Pages
  <2>2. p \in (r[1] \div PAGE_SIZE) .. end_pfn'
    BY <1>1, <2>1, TouchedPages DEF Touched, LastPfn
  <2> QED BY <2>2
<1>8. FreePairs'
  BY <1>1 DEF PathInv, FreePairs
<1>9. OrderSound' /\ AbortsOnlyOnTouched'
  BY <1>1 DEF OrderSound, AbortsOnlyOnTouched
<1> QED BY <1>4, <1>6, <1>7, <1>8, <1>9 DEF PathInv

\* A block that is not listed ends the call: it has been taken from a top
\* block an earlier call was in, as no free buddies can be left then.
LEMMA NotFoundPath ==
  ASSUME IInv, IInv', PathInv, NotFound
  PROVE  PathInv'
<1>1. /\ pc = "scan" /\ pc' = "not_found" /\ ~ Listed
      /\ order' = order /\ refcount' = refcount /\ free_area' = free_area
      /\ start_pfn' = start_pfn /\ end_pfn' = end_pfn /\ cur_order' = cur_order
      /\ asked' = asked /\ before' = before
  BY DEF NotFound, pageVars
<1>2. Reserved' = Reserved
  BY <1>1, SamePages DEF pageVars
<1>3. UntouchedTops'
  BY <1>1, <1>2 DEF PathInv, UntouchedTops, TopExtent, Extent
<1>4. FreePairs'
  BY <1>1 DEF PathInv, FreePairs, Listed
<1>5. AbortsOnlyOnTouched'
  <2>1. ~ Fresh \/ ~ (start_pfn < NUM_PAGES)
    BY <1>1 DEF PathInv, ScanSound
  <2>2. start_pfn \in Nat /\ NUM_PAGES \in Nat
    BY SizeType DEF IInv, TypeOK
  <2> QED BY <1>1, <2>1, <2>2 DEF AbortsOnlyOnTouched, Fresh, SameTop
<1>6. RangeEnds'
  BY <1>1 DEF PathInv, RangeEnds
<1> QED BY <1>1, <1>3, <1>4, <1>5, <1>6 DEF PathInv, ScanSound, OrderSound

\* The halves of the block start_pfn lies in are both listed, and start_pfn
\* goes on in one of them.
LEMMA SplitBlockPath ==
  ASSUME IInv, IInv', PathInv, SplitBlock
  PROVE  PathInv'
<1> DEFINE h == Head_pfn
           k == cur_order - 1
           b == get_buddy(h, k)
<1>1. /\ pc = "scan" /\ cur_order' = k /\ start_pfn' = start_pfn /\ end_pfn' = end_pfn
      /\ asked' = asked /\ before' = before
      /\ pc' = IF start_pfn > end_pfn THEN "idle" ELSE "scan"
  BY DEF SplitBlock
<1>2. /\ cur_order \in Orders /\ start_pfn \in Nat /\ end_pfn \in Nat /\ MAX_ORDER \in Nat
      /\ h <= start_pfn /\ start_pfn < h + BlockSize[cur_order] /\ start_pfn <= end_pfn
  BY <1>1, HeadFacts, SizeType DEF IInv, CallSound
<1>3. /\ k \in 0 .. (MAX_ORDER - 1) /\ k \in Orders /\ k + 1 = cur_order
      /\ k + 1 \in Orders /\ k # k + 1
  BY <1>2, SplitLists DEF Orders
<1>4. /\ h \in Pages /\ Aligned(h, k + 1) /\ h \in Range(free_area[k + 1])
      /\ b = h + BlockSize[k] /\ b \in Pages /\ b # h
      /\ \A j \in Orders : b \notin Range(free_area[j])
      /\ \A j \in Orders \ {k + 1} : h \notin Range(free_area[j])
  BY SplitLists
<1>5. \A j \in Orders :
        Range(free_area'[j]) = IF j = k THEN {h, b} \cup Range(free_area[j])
                                        ELSE Range(free_area[j]) \ {h}
  BY SplitLists
<1>6. get_buddy(b, k) = h /\ Aligned(h, k) /\ Aligned(b, k)
  BY <1>3, <1>4, Halves
<1>7. pc' = "scan" /\ Reserved' = Reserved
  <2>1. pc' = "scan"
    BY <1>1, <1>2
  <2> QED BY <1>1, <2>1 DEF IInv, ReservedExactly, Remaining
<1>8. /\ BlockSize[k] \in Nat \ {0} /\ BlockSize[k + 1] = 2 * BlockSize[k]
      /\ h \in Nat /\ start_pfn \in Pages /\ start_pfn \in Extent(<<h, k + 1>>)
  <2>1. h + BlockSize[k + 1] <= NUM_PAGES
    BY <1>3, <1>4, BlockInside
  <2> HIDE DEF h, k
  <2>2. BlockSize[k] \in Nat \ {0} /\ BlockSize[k + 1] = 2 * BlockSize[k] /\ NUM_PAGES \in Nat
    BY <1>3, SizeType
  <2> QED BY <1>2, <1>3, <1>4, <2>1, <2>2 DEF Pages, Extent
<1>9. Head_pfn' \in {h, b}
  <2>1. start_pfn \in Extent(<<h, k>>) \/ start_pfn \in Extent(<<b, k>>)
    BY <1>3, <1>4, <1>8, HalfExtents
  <2>2. Head_pfn' = start_pfn - (start_pfn % BlockSize[k])
    BY <1>1 DEF Head_pfn
  <2> HIDE DEF h, k, b
  <2> QED BY <1>3, <1>4, <1>6, <1>8, <2>1, <2>2, BlockAround
<1> HIDE DEF h, k, b
<1>10. UntouchedTops'
  <2> SUFFICES ASSUME NEW t \in Pages, Aligned(t, MAX_ORDER), TopExtent(t) \cap Reserved = {}
               PROVE  t \in Range(free_area'[MAX_ORDER]) \/ start_pfn \in TopExtent(t)
    BY <1>1, <1>2, <1>3, <1>7 DEF UntouchedTops, TopExtent, Extent
  <2>1. t \in Range(free_area[MAX_ORDER]) \/ start_pfn \in TopExtent(t)
    BY DEF PathInv, UntouchedTops
  <2>2. CASE t \in Range(free_area[MAX_ORDER]) /\ t # h
    <3>1. MAX_ORDER \in Orders /\ MAX_ORDER # k
      BY <1>2, <1>3 DEF Orders
    <3> QED BY <1>5, <2>2, <3>1
  <2>3. CASE t \in Range(free_area[MAX_ORDER]) /\ t = h
    <3>1. MAX_ORDER = k + 1
      BY <1>2, <1>4, <2>3 DEF Orders
    <3> QED BY <1>8, <2>3, <3>1 DEF TopExtent
  <2> QED BY <2>1, <2>2, <2>3
<1>11. ScanSound'
  <2> SUFFICES ASSUME Fresh', start_pfn < NUM_PAGES
               PROVE  Listed' /\ RightHalvesFree(cur_order, start_pfn)'
    BY <1>1 DEF ScanSound
  <2>1. RightHalvesFree(k + 1, start_pfn)
    BY <1>1, <1>3 DEF Fresh, SameTop, PathInv, ScanSound
  <2>2. Listed'
    BY <1>1, <1>3, <1>5, <1>9 DEF Listed
  <2>3. ASSUME NEW j \in k .. (MAX_ORDER - 1), NEW a \in Pages, Aligned(a, j + 1),
               a <= start_pfn, start_pfn < a + BlockSize[j]
        PROVE  a + BlockSize[j] \in Range(free_area'[j])
    <3>1. j \in Orders /\ j \in 0 .. (MAX_ORDER - 1)
      BY <1>2, <1>3 DEF Orders
    <3>2. CASE j = k
      <4>1. start_pfn \in Extent(<<a, k + 1>>)
        BY <1>3, <1>8, <2>3, <3>2 DEF Extent, Pages
      <4>2. a = h
        BY <1>3, <1>4, <1>8, <2>3, <3>2, <4>1, SameBlock
      <4> QED BY <1>3, <1>4, <1>5, <3>2, <4>2
    <3>3. CASE j # k
      <4>1. j \in (k + 1) .. (MAX_ORDER - 1)
        BY <1>2, <1>3, <3>3
      <4>2. a + BlockSize[j] \in Range(free_area[j])
        BY <2>1, <2>3, <4>1 DEF RightHalvesFree
      <4>3. a + BlockSize[j] # h
        BY <1>2, <1>8, <2>3
      <4> QED BY <1>5, <3>1, <3>3, <4>2, <4>3
    <3> QED BY <3>2, <3>3
  <2>4. RightHalvesFree(cur_order, start_pfn)'
    BY <1>1, <2>3 DEF RightHalvesFree, Aligned
  <2> QED BY <2>2, <2>4
<1>12. FreePairs'
  <2> SUFFICES ASSUME NEW j \in 0 .. (MAX_ORDER - 1), NEW p \in Range(free_area'[j]),
                      get_buddy(p, j) \in Range(free_area'[j])
               PROVE  j = k /\ Head_pfn' \in {p, get_buddy(p, j)}
    BY <1>1, <1>7 DEF FreePairs, get_buddy
  <2>1. j \in Orders
    BY SizeType
  <2>2. CASE j # k
    <3>1. /\ p \in Range(free_area[j]) /\ get_buddy(p, j) \in Range(free_area[j])
          /\ p # h /\ get_buddy(p, j) # h
      BY <1>5, <2>1, <2>2
    <3>2. h \in {p, get_buddy(p, j)}
      BY <3>1 DEF PathInv, FreePairs, h
    <3> QED BY <3>1, <3>2
  <2>3. CASE j = k /\ p \in {h, b}
    <3>1. get_buddy(h, k) = b
      BY DEF b
    <3> QED BY <1>6, <1>9, <2>3, <3>1
  <2>4. CASE j = k /\ p \notin {h, b}
    <3>1. p \in Range(free_area[k])
      BY <1>3, <1>5, <2>4
    <3>2. p \in Pages /\ Aligned(p, k)
      BY <1>3, <3>1, FreeHead
    <3>3. get_buddy(get_buddy(p, k), k) = p
      BY <1>3, <3>2, BuddyOfBuddy
    <3>4. get_buddy(p, k) \notin {h, b}
      <4>1. get_buddy(h, k) = b
        BY DEF b
      <4> QED BY <1>6, <2>4, <3>3, <4>1
    <3>5. get_buddy(p, k) \in Range(free_area[k])
      BY <1>3, <1>5, <2>4, <3>4
    <3>6. k = cur_order
      BY <1>3, <3>1, <3>5 DEF PathInv, FreePairs
    <3> QED BY <1>3, <3>6
  <2> QED BY <2>2, <2>3, <2>4
<1>13. RangeEnds'
  BY <1>1 DEF PathInv, RangeEnds
<1> QED BY <1>7, <1>10, <1>11, <1>12, <1>13 DEF PathInv, OrderSound, AbortsOnlyOnTouched

\* After a reservation the next page is a right half of a block just split, or
\* the head of the next top block, or past the end of the range.
LEMMA ReserveBlockPath ==
  ASSUME IInv, IInv', PathInv, ReserveBlock
  PROVE  PathInv'
<1> DEFINE h    == Head_pfn
           k    == cur_order
           next == h + BlockSize[k]
<1>1. /\ pc = "scan" /\ h = start_pfn /\ h \in Range(free_area[k])
      /\ end_pfn >= next - 1
      /\ start_pfn' = next /\ end_pfn' = end_pfn /\ asked' = asked /\ before' = before
  <2>1. BlockSize[k] \in Nat \ {0} /\ h \in Nat
    BY HeadFacts
  <2> QED BY <2>1 DEF ReserveBlock, Listed, FullOverlap
<1>2. AfterBlock(next)
  BY DEF ReserveBlock
<1>3. /\ k \in Orders /\ BlockSize[k] \in Nat \ {0} /\ end_pfn \in Nat
      /\ MAX_ORDER \in Nat /\ MAX_ORDER \in Orders /\ NUM_PAGES \in Nat
  BY HeadFacts, SizeType DEF Orders
<1>4. h \in Pages /\ Aligned(h, k)
  BY ReserveLists
<1>5. \A j \in Orders : Range(free_area'[j]) = Range(free_area[j]) \ {h}
  BY ReserveLists
<1> HIDE DEF h, k
<1>6. h \in Nat /\ h < NUM_PAGES /\ next \in Nat /\ next <= NUM_PAGES /\ h < next
  BY <1>3, <1>4, BlockInside DEF Pages
<1>7. next - 1 \in Nat /\ next - 1 \in Extent(<<h, k>>) /\ h \in Extent(<<h, k>>)
  BY <1>3, <1>6 DEF Extent
<1> HIDE DEF next
<1>8. h \in asked /\ h \in Remaining
  <2>1. h <= end_pfn
    BY <1>1, <1>3, <1>6
  <2> QED BY <1>1, <1>3, <1>4, <1>6, <2>1 DEF IInv, CallSound, Remaining
<1>9. /\ pc' # "idle" => Remaining' = next .. end_pfn
      /\ Remaining' \subseteq Remaining \ {h}
  <2>1. (pc' # "idle" => Remaining' = next .. end_pfn) /\ (pc' = "idle" => Remaining' = {})
    BY <1>1 DEF Remaining
  <2>2. Remaining = h .. end_pfn
    BY <1>1 DEF Remaining
  <2> QED BY <1>3, <1>6, <2>1, <2>2
<1>10. Reserved \subseteq Reserved' /\ h \in Reserved'
  BY <1>1, <1>8, <1>9 DEF IInv, ReservedExactly
<1>11. UntouchedTops'
  <2> SUFFICES ASSUME NEW t \in Pages, Aligned(t, MAX_ORDER), TopExtent(t) \cap Reserved' = {}
               PROVE  t \in Range(free_area'[MAX_ORDER])
    BY DEF UntouchedTops, TopExtent, Extent, Aligned
  <2>1. h \notin TopExtent(t) /\ TopExtent(t) \cap Reserved = {}
    BY <1>10
  <2>2. t \in Range(free_area[MAX_ORDER])
    BY <1>1, <2>1 DEF PathInv, UntouchedTops
  <2>3. t # h
    BY <1>3, <2>1, HeadInExtent DEF TopExtent
  <2> QED BY <1>3, <1>5, <2>2, <2>3
<1>12. ASSUME pc' = "scan", Fresh', next < NUM_PAGES
       PROVE  Listed' /\ RightHalvesFree(cur_order, start_pfn)'
  <2>1. next <= end_pfn /\ next % TopSize = 0 /\ cur_order' = MAX_ORDER
    BY <1>2, <1>12 DEF AfterBlock
  <2>2. next \in Pages
    BY <1>3, <1>6, <1>12 DEF Pages
  <2>3. Aligned(next, MAX_ORDER)
    BY <1>3, <2>1, <2>2, AlignedMod DEF TopSize
  <2>4. TopExtent(next) \cap Reserved' = {}
    <3> SUFFICES ASSUME NEW p \in Reserved', p \in TopExtent(next) PROVE FALSE
      OBVIOUS
    <3>1. p \in Nat /\ next <= p
      BY <1>3, <1>6, <3>1 DEF TopExtent, Extent
    <3>2. p \notin before
      <4>1. SameTop(p, next) <=> p \in TopExtent(next)
        BY <1>3, <1>6, <2>2, <2>3, <3>1, HeadInExtent, TopOfTop DEF TopExtent
      <4> QED BY <1>1, <1>12, <4>1 DEF Fresh, SameTop
    <3>3. p \in asked /\ p \notin Remaining'
      BY <1>1, <3>2 DEF IInv, ReservedExactly
    <3>4. p <= end_pfn
      BY <1>1, <3>2, <3>3 DEF PathInv, RangeEnds
    <3> QED BY <1>3, <1>6, <1>9, <1>12, <3>1, <3>3, <3>4
  <2>5. next \in Range(free_area'[MAX_ORDER])
    BY <1>11, <2>1, <2>2, <2>3, <2>4 DEF UntouchedTops, TopExtent, Extent, Aligned
  <2>6. Head_pfn' = next
    <3>1. Head_pfn' = next - (next % TopSize)
      BY <1>1, <2>1 DEF Head_pfn, TopSize
    <3> QED BY <1>6, <2>1, <3>1
  <2>7. Listed'
    BY <2>1, <2>5, <2>6 DEF Listed
  <2>8. RightHalvesFree(cur_order, start_pfn)'
    BY <1>3, <2>1 DEF RightHalvesFree
  <2> QED BY <2>7, <2>8
<1>13. ASSUME pc' = "order"
       PROVE  /\ cur_order' < MAX_ORDER
              /\ next < NUM_PAGES
              /\ Aligned(next - Offset' + cur_base', cur_order' + 1)
              /\ Fresh' => RightHalvesFree(0, start_pfn - 1)'
  <2>1. next % TopSize # 0 /\ cur_order' = MAX_ORDER - 1 /\ cur_base' = 0
    BY <1>2, <1>13 DEF AfterBlock
  <2>2. next < NUM_PAGES /\ next \in Pages
    <3>1. next # NUM_PAGES
      BY <2>1, NumPagesTop
    <3> QED BY <1>3, <1>6, <3>1 DEF Pages
  <2> DEFINE c == next - (next % TopSize)
  <2>3. /\ c \in Pages /\ Aligned(c, MAX_ORDER) /\ next \in TopExtent(c)
        /\ c # next
    <3>1. next % TopSize \in Nat
      BY <1>6, SizeType, DivMod DEF TopSize, Orders
    <3> QED BY <1>3, <1>6, <2>1, <2>2, <3>1, BlockAround DEF TopExtent, TopSize
  <2>4. Aligned(next - Offset' + cur_base', cur_order' + 1)
    <3>1. Offset' = next % TopSize
      BY <1>1 DEF Offset
    <3>2. next - Offset' + cur_base' = c
      BY <2>1, <2>3, <3>1 DEF Pages
    <3>3. cur_order' + 1 = MAX_ORDER
      BY <1>3, <2>1
    <3> QED BY <2>3, <3>2, <3>3
  <2> HIDE DEF c
  <2>5. h \in TopExtent(c)
    <3>1. TopExtent(c) \subseteq Int /\ c <= next - 1 /\ next - 1 \in TopExtent(c)
      BY <1>3, <1>6, <1>7, <2>3, SizeType DEF TopExtent, Extent, Pages
    <3>2. Extent(<<h, k>>) \subseteq TopExtent(c)
      BY <1>3, <1>4, <1>7, <2>3, <3>1, SharedMeansInside DEF TopExtent, Orders
    <3> QED BY <1>7, <3>2
  <2>6. ASSUME Fresh' PROVE RightHalvesFree(k, h)
    <3>1. \A p \in before : SameTop(p, next) <=> SameTop(p, h)
      <4>1. \A p \in before : p \in Nat
        BY DEF IInv, TypeOK, Pages
      <4> QED BY <1>6, <2>3, <2>5, <4>1, TopOfTop
    <3>2. Fresh
      BY <1>1, <2>6, <3>1 DEF Fresh, SameTop
    <3> QED BY <1>1, <1>6, <3>2 DEF PathInv, ScanSound, k
  <2>7. ASSUME Fresh', NEW j \in 0 .. (MAX_ORDER - 1), NEW a \in Pages, Aligned(a, j + 1),
               a <= next - 1, next - 1 < a + BlockSize[j]
        PROVE  a + BlockSize[j] \in Range(free_area'[j])
    <3>1. /\ j \in Orders /\ j + 1 \in Orders /\ BlockSize[j] \in Nat \ {0}
          /\ BlockSize[j + 1] = 2 * BlockSize[j] /\ a \in Nat /\ j \in Nat /\ k \in Nat
      BY <1>3, SizeType DEF Pages, Orders
    <3>2. next - 1 \in Extent(<<a, j + 1>>)
      BY <1>7, <2>7, <3>1 DEF Extent
    <3>3. CASE j + 1 <= k
      <4>1. Extent(<<a, j + 1>>) \subseteq Extent(<<h, k>>)
        BY <1>3, <1>4, <1>7, <2>7, <3>1, <3>2, <3>3, SharedMeansInside
      <4>2. a + BlockSize[j] \in Extent(<<a, j + 1>>)
        BY <3>1 DEF Extent
      <4>3. a + BlockSize[j] < next
        BY <1>3, <1>6, <4>1, <4>2 DEF Extent, next
      <4> QED BY <1>6, <2>7, <3>1, <4>3
    <3>4. CASE k <= j
      <4>1. Extent(<<h, k>>) \subseteq Extent(<<a, j + 1>>)
        BY <1>3, <1>4, <1>7, <2>7, <3>1, <3>2, <3>4, SharedMeansInside
      <4>2. a <= h
        BY <1>7, <3>1, <4>1 DEF Extent
      <4>3. h < a + BlockSize[j] /\ a + BlockSize[j] # h
        BY <1>6, <2>7, <3>1
      <4>4. j \in k .. (MAX_ORDER - 1)
        BY <1>3, <3>1, <3>4
      <4>5. a + BlockSize[j] \in Range(free_area[j])
        BY <2>6, <2>7, <4>2, <4>3, <4>4 DEF RightHalvesFree
      <4> QED BY <1>5, <3>1, <4>3, <4>5
    <3> QED BY <3>1, <3>3, <3>4
  <2>8. Fresh' => RightHalvesFree(0, start_pfn - 1)'
    BY <1>1, <2>7 DEF RightHalvesFree, Aligned
  <2>9. cur_order' < MAX_ORDER
    BY <1>3, <2>1
  <2> QED BY <2>2, <2>4, <2>8, <2>9
<1>14. ScanSound' /\ OrderSound'
  <2>1. ScanSound'
    BY <1>1, <1>12 DEF ScanSound
  <2>2. OrderSound'
    BY <1>1, <1>13 DEF OrderSound
  <2> QED BY <2>1, <2>2
<1>15. FreePairs'
  <2> SUFFICES ASSUME NEW j \in 0 .. (MAX_ORDER - 1), NEW p \in Range(free_area'[j]),
                      get_buddy(p, j) \in Range(free_area'[j])
               PROVE  FALSE
    BY DEF FreePairs, get_buddy
  <2>1. j \in Orders
    BY SizeType
  <2>2. /\ p \in Range(free_area[j]) /\ get_buddy(p, j) \in Range(free_area[j])
        /\ p # h /\ get_buddy(p, j) # h
    BY <1>5, <2>1
  <2> QED BY <2>2 DEF PathInv, FreePairs, h
<1>16. RangeEnds'
  BY <1>1 DEF PathInv, RangeEnds
<1>17. AbortsOnlyOnTouched'
  BY <1>2 DEF AfterBlock, AbortsOnlyOnTouched
<1> QED BY <1>11, <1>14, <1>15, <1>16, <1>17 DEF PathInv

\* The order found is that of the right half start_pfn heads.
LEMMA FoundOrderPath ==
  ASSUME IInv, IInv', PathInv, FoundOrder
  PROVE  PathInv'
<1> DEFINE k == cur_order
           a == start_pfn - Offset + cur_base
<1>1. /\ pc = "order" /\ pc' = "scan" /\ Offset = cur_base + BlockSize[k]
      /\ order' = order /\ refcount' = refcount /\ free_area' = free_area
      /\ start_pfn' = start_pfn /\ end_pfn' = end_pfn /\ cur_order' = cur_order
      /\ asked' = asked /\ before' = before
  BY DEF FoundOrder, pageVars
<1>2. Reserved' = Reserved
  BY <1>1, SamePages DEF pageVars
<1>3. UntouchedTops'
  BY <1>1, <1>2 DEF PathInv, UntouchedTops, TopExtent, Extent
<1>4. FreePairs'
  BY <1>1 DEF PathInv, FreePairs
<1>5. /\ k \in 0 .. (MAX_ORDER - 1) /\ k \in Orders /\ k + 1 \in Orders
      /\ BlockSize[k] \in Nat \ {0} /\ BlockSize[k + 1] = 2 * BlockSize[k]
      /\ MAX_ORDER \in Nat
  <2>1. k \in 0 .. (MAX_ORDER - 1)
    BY <1>1, SizeType DEF PathInv, OrderSound, IInv, TypeOK, Orders
  <2> QED BY <2>1, SizeType
<1>6. /\ start_pfn \in Nat /\ start_pfn \in Pages /\ Offset \in Nat /\ cur_base \in Nat
      /\ Aligned(a, k + 1)
  <2>1. start_pfn < NUM_PAGES /\ Aligned(a, k + 1)
    BY <1>1 DEF PathInv, OrderSound
  <2> QED BY <2>1, OffsetType, SizeType DEF IInv, TypeOK, Pages
<1>7. a + BlockSize[k] = start_pfn
  BY <1>1, <1>5, <1>6
<1>8. a \in Pages
  <2>1. PICK q \in Pages : a = q * BlockSize[k + 1]
    BY <1>6 DEF Aligned
  <2> DEFINE m == q * BlockSize[k + 1]
  <2>2. 0 <= m /\ m \in Int
    BY <1>5, <2>1, SizeType DEF Pages
  <2> HIDE DEF m, a
  <2>3. a = m
    BY <2>1 DEF m
  <2> QED BY <1>5, <1>6, <1>7, <2>2, <2>3, SizeType DEF Pages
<1> HIDE DEF a
<1>9. Aligned(start_pfn, k)
  BY <1>5, <1>6, <1>7, <1>8, Halves
<1>10. ASSUME Fresh'
       PROVE  Listed' /\ RightHalvesFree(cur_order, start_pfn)'
  <2>1. RightHalvesFree(0, start_pfn - 1)
    BY <1>1, <1>10 DEF Fresh, SameTop, PathInv, OrderSound
  <2>2. a \in Nat /\ a <= start_pfn - 1 /\ start_pfn - 1 < a + BlockSize[k]
    BY <1>5, <1>7, <1>8 DEF Pages
  <2>3. start_pfn \in Range(free_area[k])
    BY <1>5, <1>6, <1>7, <1>8, <2>1, <2>2 DEF RightHalvesFree
  <2>4. Head_pfn = start_pfn
    <3>1. start_pfn \in Extent(<<start_pfn, k>>)
      BY <1>5, <1>6 DEF Extent
    <3> QED BY <1>5, <1>6, <1>9, <3>1, BlockAround DEF Head_pfn
  <2>5. Listed'
    BY <1>1, <2>3, <2>4 DEF Listed, Head_pfn
  <2>6. ASSUME NEW j \in k .. (MAX_ORDER - 1), NEW c \in Pages, Aligned(c, j + 1),
               c <= start_pfn, start_pfn < c + BlockSize[j]
        PROVE  c + BlockSize[j] \in Range(free_area[j])
    <3>1. /\ j \in 0 .. (MAX_ORDER - 1) /\ j + 1 \in Orders /\ k + 1 <= j + 1
          /\ BlockSize[j] \in Nat \ {0} /\ BlockSize[j + 1] = 2 * BlockSize[j] /\ c \in Nat
      BY <1>5, SizeType DEF Pages, Orders
    <3>2. c # start_pfn
      <4> SUFFICES ASSUME c = start_pfn PROVE FALSE
        OBVIOUS
      <4>1. \/ a + BlockSize[k + 1] <= c
            \/ c + BlockSize[j + 1] <= a
            \/ c <= a /\ a + BlockSize[k + 1] <= c + BlockSize[j + 1]
        BY <1>5, <1>6, <2>6, <3>1, NestedOrApart DEF a
      <4> QED BY <1>5, <1>6, <1>7, <2>2, <3>1, <4>1
    <3>3. c <= start_pfn - 1 /\ start_pfn - 1 < c + BlockSize[j]
      BY <1>6, <2>6, <3>1, <3>2
    <3> QED BY <2>1, <2>6, <3>1, <3>3 DEF RightHalvesFree
  <2>7. RightHalvesFree(cur_order, start_pfn)'
    BY <1>1, <2>6 DEF RightHalvesFree, Aligned
  <2> QED BY <2>5, <2>7
<1>11. ScanSound'
  BY <1>1, <1>10 DEF ScanSound
<1>12. RangeEnds'
  BY <1>1 DEF PathInv, RangeEnds
<1> QED BY <1>1, <1>3, <1>4, <1>11, <1>12 DEF PathInv, OrderSound, AbortsOnlyOnTouched

\* The search goes down to the half of the block at hand that start_pfn is in.
LEMMA LowerOrderPath ==
  ASSUME IInv, IInv', PathInv, LowerOrder
  PROVE  PathInv'
<1> DEFINE k == cur_order
           a == start_pfn - Offset + cur_base
<1>1. /\ pc = "order" /\ cur_base' = NextBase
      /\ IF k = 0 THEN pc' = "error_order" /\ cur_order' = k
                  ELSE pc' = pc /\ cur_order' = k - 1
      /\ order' = order /\ refcount' = refcount /\ free_area' = free_area
      /\ start_pfn' = start_pfn /\ end_pfn' = end_pfn
      /\ asked' = asked /\ before' = before
  BY DEF LowerOrder, pageVars
<1>2. pc' = "order" /\ cur_order' = k - 1
  BY <1>1 DEF IInv
<1>3. Reserved' = Reserved /\ Offset' = Offset
  BY <1>1, SamePages DEF pageVars, Offset
<1>4. UntouchedTops'
  BY <1>1, <1>2, <1>3 DEF PathInv, UntouchedTops, TopExtent, Extent
<1>5. FreePairs'
  BY <1>1 DEF PathInv, FreePairs
<1>6. /\ k \in 0 .. (MAX_ORDER - 1) /\ k \in Orders /\ k + 1 \in Orders
      /\ BlockSize[k] \in Nat \ {0} /\ BlockSize[k + 1] = 2 * BlockSize[k]
      /\ MAX_ORDER \in Nat
  <2>1. k \in 0 .. (MAX_ORDER - 1)
    BY <1>1, SizeType DEF PathInv, OrderSound, IInv, TypeOK, Orders
  <2> QED BY <2>1, SizeType
<1>7. /\ start_pfn \in Nat /\ start_pfn < NUM_PAGES /\ Offset \in Nat /\ cur_base \in Nat
      /\ Aligned(a, k + 1) /\ NUM_PAGES \in Nat /\ cur_base < Offset
  <2>1. start_pfn < NUM_PAGES /\ Aligned(a, k + 1)
    BY <1>1 DEF PathInv, OrderSound
  <2> QED BY <1>1, <2>1, OffsetType, SizeType DEF IInv, TypeOK, InnerLoopSound
<1>8. a \in Pages
  <2>1. PICK q \in Pages : a = q * BlockSize[k + 1]
    BY <1>7 DEF Aligned
  <2> DEFINE m == q * BlockSize[k + 1]
  <2>2. 0 <= m /\ m \in Int
    BY <1>6, <2>1, SizeType DEF Pages
  <2>3. a <= start_pfn /\ a \in Int
    BY <1>7
  <2> HIDE DEF m, a
  <2>4. a = m
    BY <2>1 DEF m
  <2> QED BY <1>7, <2>2, <2>3, <2>4 DEF Pages
<1>9. Aligned(a, k) /\ Aligned(a + BlockSize[k], k)
  BY <1>6, <1>7, <1>8, Halves
<1>10. start_pfn' - Offset' + cur_base' \in {a, a + BlockSize[k]}
  BY <1>1, <1>3, <1>6, <1>7 DEF NextBase
<1>11. cur_order' + 1 = k /\ cur_order' < MAX_ORDER
  BY <1>2, <1>6
<1>12. OrderSound'
  <2>1. Aligned(start_pfn' - Offset' + cur_base', cur_order' + 1)
    <3> HIDE DEF a
    <3> QED BY <1>9, <1>10, <1>11
  <2>2. Fresh' => RightHalvesFree(0, start_pfn - 1)'
    BY <1>1 DEF PathInv, OrderSound, Fresh, SameTop, RightHalvesFree, Aligned
  <2> QED BY <1>1, <1>7, <1>11, <2>1, <2>2 DEF OrderSound, Aligned
<1>13. RangeEnds'
  BY <1>1 DEF PathInv, RangeEnds
<1> QED BY <1>2, <1>4, <1>5, <1>12, <1>13 DEF PathInv, ScanSound, AbortsOnlyOnTouched

\* Nothing the invariant speaks of changes.
LEMMA StutterPath ==
  ASSUME IInv, PathInv, UNCHANGED vars
  PROVE  PathInv'
<1>1. /\ order' = order /\ refcount' = refcount /\ free_area' = free_area
      /\ pc' = pc /\ start_pfn' = start_pfn /\ end_pfn' = end_pfn
      /\ cur_order' = cur_order /\ cur_base' = cur_base
      /\ asked' = asked /\ before' = before
  BY DEF vars, callVars, pageVars
<1>2. Reserved' = Reserved
  BY <1>1, SamePages DEF pageVars
<1>3. UntouchedTops' /\ FreePairs' /\ RangeEnds' /\ AbortsOnlyOnTouched'
  BY <1>1, <1>2 DEF PathInv, UntouchedTops, TopExtent, Extent, FreePairs, Head_pfn,
                    RangeEnds, AbortsOnlyOnTouched, SameTop
<1>4. ScanSound' /\ OrderSound'
  BY <1>1 DEF PathInv, ScanSound, OrderSound, Fresh, SameTop, Listed, Head_pfn,
              RightHalvesFree, Aligned, Offset
<1> QED BY <1>3, <1>4 DEF PathInv

-----------------------------------------------------------------------------
(* Theorems *)

\* The inductive invariant holds after every turn of memory_reserve's loops.
THEOREM Inductive == Spec => []IInv
<1>1. IInv /\ [Next]_vars => IInv'
  <2> SUFFICES ASSUME IInv, [Next]_vars PROVE IInv'
    OBVIOUS
  <2>1. ASSUME NEW r \in Regions, Call(r) PROVE IInv'
    BY <2>1, CallStep
  <2>2. CASE ReserveBlock
    BY <2>2, ReserveBlockStep
  <2>3. CASE SplitBlock
    BY <2>3, SplitBlockStep
  <2>4. CASE NotFound
    BY <2>4, NotFoundStep
  <2>5. CASE FoundOrder
    BY <2>5, FoundOrderStep
  <2>6. CASE LowerOrder
    BY <2>6, LowerOrderStep
  <2>7. CASE UNCHANGED vars
    BY <2>7, StutterStep
  <2> QED BY <2>1, <2>2, <2>3, <2>4, <2>5, <2>6, <2>7 DEF Next, Running
<1> QED BY <1>1, InitSound, PTL DEF Spec

\* memory_reserve's locals and all of mem_map keep their types; the order it
\* splits or searches at never falls below 0.
THEOREM TypeCorrect == Spec => []TypeOK
<1>1. IInv => TypeOK
  BY DEF IInv
<1> QED BY <1>1, Inductive, PTL

\* Free and reserved blocks tile mem_map, also where the program gives up.
THEOREM TilesAlways == Spec => []BlocksTilePages
<1>1. IInv => BlocksTilePages
  BY DEF IInv
<1> QED BY <1>1, Inductive, PTL

\* The free lists memory_reserve leaves behind are as alloc_pages wants them.
THEOREM ListsAlwaysSound == Spec => []FreeListsSound
<1>1. IInv => FreeListsSound
  BY DEF IInv
<1> QED BY <1>1, Inductive, PTL

\* The reserved pages are those asked for, no more and no fewer.
THEOREM AlwaysReservedExactly == Spec => []ReservedExactly
<1>1. IInv => ReservedExactly
  BY DEF IInv
<1> QED BY <1>1, Inductive, PTL

\* The search for the next order always ends with one: "ERROR ORDER" is dead.
THEOREM OrderAlwaysFound == Spec => [](pc # "error_order")
<1>1. IInv => pc # "error_order"
  BY DEF IInv
<1> QED BY <1>1, Inductive, PTL

\* The invariant of a call's path holds as well.
THEOREM PathInductive == Spec => []PathInv
<1>1. IInv /\ IInv' /\ PathInv /\ [Next]_vars => PathInv'
  <2> SUFFICES ASSUME IInv, IInv', PathInv, [Next]_vars PROVE PathInv'
    OBVIOUS
  <2>1. ASSUME NEW r \in Regions, Call(r) PROVE PathInv'
    BY <2>1, CallPath
  <2>2. CASE ReserveBlock
    BY <2>2, ReserveBlockPath
  <2>3. CASE SplitBlock
    BY <2>3, SplitBlockPath
  <2>4. CASE NotFound
    BY <2>4, NotFoundPath
  <2>5. CASE FoundOrder
    BY <2>5, FoundOrderPath
  <2>6. CASE LowerOrder
    BY <2>6, LowerOrderPath
  <2>7. CASE UNCHANGED vars
    BY <2>7, StutterPath
  <2> QED BY <2>1, <2>2, <2>3, <2>4, <2>5, <2>6, <2>7 DEF Next, Running
<1> QED BY <1>1, InitPath, Inductive, PTL DEF Spec

\* No call leaves both halves of a block free: a block is split only on the way
\* to one that is reserved.
THEOREM NeverSplitsNeedlessly == Spec => []NoNeedlessSplit
<1>1. PathInv => NoNeedlessSplit
  BY DEF PathInv, FreePairs, NoNeedlessSplit
<1> QED BY <1>1, PathInductive, PTL

\* memory_reserve exits only past the end of mem_map or in a top block that an
\* earlier call has reserved a page of; mm_init's first call never does inside
\* mem_map, whatever range it is given.
THEOREM AbortsAreExplained == Spec => []AbortsOnlyOnTouched
<1>1. PathInv => AbortsOnlyOnTouched
  BY DEF PathInv
<1> QED BY <1>1, PathInductive, PTL
=============================================================================
