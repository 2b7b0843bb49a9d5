------------------------- MODULE BuddyAllocatorProofs -------------------------
(***************************************************************************)
(* alloc_pages and free_pages keep mem_map tiled, their lists true and     *)
(* free buddies merged, for every NUM_PAGES and MAX_ORDER. The proof is by *)
(* one inductive invariant, IInv, and has a lemma for every action.        *)
(***************************************************************************)
EXTENDS BuddyAllocator, BuddyPagesLemmas

-----------------------------------------------------------------------------
(* The inductive invariant *)

\* alloc_pages splits a list it has found not empty, down to its argument.
SplitSound == pc = "split" => req \in 0 .. tmp_i /\ free_area[tmp_i] # << >>

\* The block in free_pages' hand is neither in use nor in a list.
MergeSound ==
  pc = "merge" => /\ page \in Pages
                  /\ refcount[page] = 0
                  /\ page \notin Range(free_area[order[page]])

IInv ==
  /\ TypeOK
  /\ BlocksTilePages
  /\ FreeListsSound
  /\ FreeBuddiesMerged
  /\ SplitSound
  /\ MergeSound

\* Blocks are pairs of a page and an order.
LEMMA BlocksType == Blocks \in SUBSET (Pages \X Orders)
BY DEF Blocks, FreeBlocks, UsedBlocks, InHand

\* A page lies in one block only.
LEMMA OneBlock ==
  ASSUME IInv, NEW b \in Blocks, NEW c \in Blocks, NEW x, x \in Extent(b), x \in Extent(c)
  PROVE  b = c
BY DEF IInv, BlocksTilePages, Tiles, DisjointAll

\* A listed page heads the free block of its list and no other block.
LEMMA FreeHead ==
  ASSUME IInv, NEW k \in Orders, NEW p \in Range(free_area[k])
  PROVE  /\ p \in Pages /\ refcount[p] = 0
         /\ <<p, k>> \in Blocks /\ Aligned(p, k) /\ p \in Extent(<<p, k>>)
         /\ pc # "split" => order[p] = k
<1>1. p \in Pages
  BY DEF IInv, TypeOK, PagesTypeOK, Range
<1>2. <<p, k>> \in Blocks
  BY <1>1 DEF Blocks, FreeBlocks
<1>3. Aligned(p, k)
  BY <1>2 DEF IInv, BlocksTilePages, Tiles, AlignedAll
<1>4. p \in Extent(<<p, k>>)
  BY <1>1, HeadInExtent
<1>5. refcount[p] = 0 /\ (pc # "split" => order[p] = k)
  BY DEF IInv, FreeListsSound, StaleTop
<1> QED BY <1>1, <1>2, <1>3, <1>4, <1>5

\* A page alloc_pages handed out heads a used block and no other block.
LEMMA UsedHead ==
  ASSUME IInv, NEW p \in Pages, refcount[p] # 0
  PROVE  /\ order[p] \in Orders
         /\ <<p, order[p]>> \in Blocks /\ p \in Extent(<<p, order[p]>>)
         /\ \A k \in Orders : p \notin Range(free_area[k])
<1>1. order[p] \in Orders /\ refcount[p] = 1
  BY DEF IInv, TypeOK, PagesTypeOK
<1>2. <<p, order[p]>> \in Blocks
  BY <1>1 DEF Blocks, UsedBlocks
<1>3. p \in Extent(<<p, order[p]>>)
  BY <1>1, HeadInExtent
<1> QED BY <1>1, <1>2, <1>3, FreeHead

-----------------------------------------------------------------------------
(* Initial states *)

\* main() starts the allocator in a state of the invariant.
LEMMA InitSound == Init => IInv
<1> SUFFICES ASSUME Init PROVE IInv
  OBVIOUS
<1>1. /\ PagesTypeOK /\ Tiles(FreeBlocks) /\ UsedBlocks = {}
      /\ \A k \in Orders : /\ Distinct(free_area[k])
                           /\ \A p \in Range(free_area[k]) : refcount[p] = 0 /\ order[p] = k
      /\ \A k \in 0 .. (MAX_ORDER - 1) : Range(free_area[k]) = {}
  BY InitPagesSound DEF Init
<1>2. Blocks = FreeBlocks
  BY <1>1 DEF Blocks, InHand, Init
<1>3. TypeOK
  BY <1>1, SizeType DEF TypeOK, Init, Requests, Orders
<1>4. BlocksTilePages
  BY <1>1, <1>2 DEF BlocksTilePages
<1>5. FreeListsSound /\ FreeBuddiesMerged
  BY <1>1 DEF FreeListsSound, FreeBuddiesMerged
<1> QED BY <1>3, <1>4, <1>5 DEF IInv, SplitSound, MergeSound, Init

-----------------------------------------------------------------------------
(* alloc_pages *)

\* The for loop of alloc_pages finding a list keeps the invariant.
LEMMA AllocFoundStep ==
  ASSUME IInv, NEW o \in Requests, AllocFound(o)
  PROVE  IInv'
<1>1. PICK i \in Orders : FirstNonEmpty(o, i) /\ tmp_i' = i
  BY DEF AllocFound
<1>2. /\ pc = "idle" /\ pc' = "split" /\ req' = o
      /\ order' = order /\ refcount' = refcount /\ free_area' = free_area
      /\ page' = page /\ ret' = ret
  BY DEF AllocFound, pageVars
<1>3. Blocks' = Blocks
  BY <1>2 DEF Blocks, FreeBlocks, UsedBlocks, InHand
<1>4. TypeOK'
  BY <1>1, <1>2 DEF IInv, TypeOK, PagesTypeOK
<1>5. BlocksTilePages'
  BY <1>3 DEF IInv, BlocksTilePages, Tiles, AlignedAll, DisjointAll, CoversPages
<1>6. FreeListsSound'
  BY <1>2 DEF IInv, FreeListsSound, StaleTop
<1>7. FreeBuddiesMerged'
  BY <1>2 DEF IInv, FreeBuddiesMerged, StaleTop
<1>8. SplitSound'
  BY <1>1, <1>2, SizeType DEF FirstNonEmpty, SplitSound, Requests, Orders
<1>9. MergeSound'
  BY <1>2 DEF MergeSound
<1> QED BY <1>4, <1>5, <1>6, <1>7, <1>8, <1>9 DEF IInv

\* So does its running off the end, which returns NULL.
LEMMA AllocFailsStep ==
  ASSUME IInv, NEW o \in Requests, AllocFails(o)
  PROVE  IInv'
<1>1. /\ pc = "idle" /\ pc' = pc /\ req' = req /\ tmp_i' = tmp_i /\ page' = page
      /\ order' = order /\ refcount' = refcount /\ free_area' = free_area
      /\ ret' = [order |-> o, page |-> NULL]
  BY DEF AllocFails, pageVars, callVars
<1>2. TypeOK'
  BY <1>1 DEF IInv, TypeOK, PagesTypeOK
<1>3. Blocks' = Blocks
  BY <1>1 DEF Blocks, FreeBlocks, UsedBlocks, InHand
<1>4. BlocksTilePages'
  BY <1>3 DEF IInv, BlocksTilePages, Tiles, AlignedAll, DisjointAll, CoversPages
<1>5. FreeListsSound' /\ FreeBuddiesMerged'
  BY <1>1 DEF IInv, FreeListsSound, FreeBuddiesMerged, StaleTop
<1> QED BY <1>1, <1>2, <1>4, <1>5 DEF IInv, SplitSound, MergeSound

\* A turn of the split loop: the block is replaced by its halves, and the stale
\* order stays confined to the half on top of the next list.
LEMMA SplitStep ==
  ASSUME IInv, Split
  PROVE  IInv'
<1> DEFINE k     == tmp_i - 1
           p     == Head(free_area[tmp_i])
           b     == get_buddy(p, k)
           whole == <<p, k + 1>>
<1>1. /\ pc = "split" /\ pc' = "split" /\ tmp_i \in Orders /\ req \in 0 .. k
      /\ k \in 0 .. (MAX_ORDER - 1) /\ k \in Orders /\ k + 1 = tmp_i
      /\ free_area[tmp_i] # << >> /\ free_area[tmp_i] \in Seq(Pages)
      /\ free_area[k] \in Seq(Pages)
  BY SizeType DEF Split, IInv, TypeOK, PagesTypeOK, SplitSound, Orders, Requests
<1>2. /\ order' = [order EXCEPT ![b] = k]
      /\ refcount' = [refcount EXCEPT ![b] = 0]
      /\ free_area' = [free_area EXCEPT ![tmp_i] = Tail(@), ![k] = PushHalves(p, b, @)]
      /\ tmp_i' = k /\ req' = req /\ page' = page /\ ret' = ret
  BY DEF Split
<1>3. p \in Pages /\ p \in Range(free_area[k + 1])
  BY <1>1, PopFront
<1>4. /\ refcount[p] = 0 /\ whole \in Blocks /\ Aligned(p, k + 1) /\ p \in Extent(whole)
  BY <1>1, <1>3, FreeHead
<1>5. /\ b = p + BlockSize[k] /\ b \in Pages /\ b # p
      /\ get_buddy(p, k) = b /\ get_buddy(b, k) = p
  <2>1. BlockSize[k] \in Nat \ {0} /\ p \in Nat
    BY <1>1, <1>3, SizeType DEF Pages
  <2> QED BY <1>1, <1>3, <1>4, <2>1, Halves
<1>6. b \in Extent(whole)
  <2>1. b \in Extent(<<b, k>>)
    BY <1>1, <1>5, HeadInExtent
  <2>2. Extent(whole) = Extent(<<p, k>>) \cup Extent(<<p + BlockSize[k], k>>)
    BY <1>1, <1>3, HalfExtents
  <2> QED BY <1>5, <2>1, <2>2
<1> HIDE DEF k, p, b
\* No block but the one being split holds p or b.
<1>7. refcount[b] = 0 /\ \A j \in Orders : b \notin Range(free_area[j])
  <2>1. ASSUME NEW j \in Orders, b \in Range(free_area[j]) PROVE FALSE
    <3>1. <<b, j>> \in Blocks /\ b \in Extent(<<b, j>>)
      BY <2>1, FreeHead
    <3>2. <<b, j>> = whole
      BY <1>4, <1>6, <3>1, OneBlock
    <3> QED BY <1>5, <3>2
  <2>2. ASSUME refcount[b] # 0 PROVE FALSE
    <3>1. <<b, order[b]>> \in Blocks /\ b \in Extent(<<b, order[b]>>)
      BY <1>5, <2>2, UsedHead
    <3>2. <<b, order[b]>> = whole
      BY <1>4, <1>6, <3>1, OneBlock
    <3> QED BY <1>5, <3>2
  <2> QED BY <2>1, <2>2
<1>8. ASSUME NEW j \in Orders, j # k + 1 PROVE p \notin Range(free_area[j])
  <2> SUFFICES ASSUME p \in Range(free_area[j]) PROVE FALSE
    OBVIOUS
  <2>1. <<p, j>> \in Blocks /\ p \in Extent(<<p, j>>)
    BY FreeHead
  <2>2. <<p, j>> = whole
    BY <1>4, <2>1, OneBlock
  <2> QED BY <1>8, <2>2
\* The two lists that change.
<1> DEFINE mid == push_front(b, free_area[k])
<1>9. /\ free_area'[k] = push_front(p, mid)
      /\ free_area'[k + 1] = Tail(free_area[k + 1])
      /\ \A j \in Orders \ {k, k + 1} : free_area'[j] = free_area[j]
  <2>1. DOMAIN free_area = Orders /\ k # tmp_i
    BY <1>1 DEF IInv, TypeOK, PagesTypeOK
  <2>2. free_area'[k] = PushHalves(p, b, free_area[k])
    BY <1>1, <1>2, <2>1
  <2>3. free_area'[tmp_i] = Tail(free_area[tmp_i])
    BY <1>1, <1>2, <2>1
  <2>4. \A j \in Orders \ {k, tmp_i} : free_area'[j] = free_area[j]
    BY <1>1, <1>2, <2>1
  <2> QED BY <1>1, <2>2, <2>3, <2>4 DEF PushHalves
<1>10. Distinct(free_area[k]) /\ Distinct(free_area[k + 1])
  BY <1>1 DEF IInv, FreeListsSound
<1>11. /\ mid \in Seq(Pages) /\ Range(mid) = {b} \cup Range(free_area[k]) /\ Distinct(mid)
  BY <1>1, <1>5, <1>7, <1>10, PushFront
<1>12. p \notin Range(mid)
  BY <1>1, <1>5, <1>8, <1>11
<1>13. /\ free_area'[k] \in Seq(Pages) /\ free_area'[k] # << >> /\ Head(free_area'[k]) = p
       /\ Range(free_area'[k]) = {p, b} \cup Range(free_area[k])
       /\ Distinct(free_area'[k])
  <2> HIDE DEF mid
  <2> DEFINE new == push_front(p, mid)
  <2>1. new \in Seq(Pages) /\ Range(new) = {p} \cup Range(mid) /\ Distinct(new)
    BY <1>3, <1>11, <1>12, PushFront
  <2>2. new # << >>
    BY <1>3, <1>11, PushFront
  <2>3. Head(new) = p
    BY <1>3, <1>11, PushFront
  <2> HIDE DEF new
  <2>4. free_area'[k] = new
    BY <1>9 DEF new
  <2> QED BY <1>11, <2>1, <2>2, <2>3, <2>4
<1>14. /\ free_area'[k + 1] \in Seq(Pages)
       /\ Range(free_area'[k + 1]) = Range(free_area[k + 1]) \ {p}
       /\ Distinct(free_area'[k + 1])
  BY <1>1, <1>9, <1>10, PopFront DEF p
<1> HIDE DEF mid
<1>15. refcount' = refcount
  BY <1>2, <1>7 DEF IInv, TypeOK, PagesTypeOK
<1>16. TypeOK'
  <2>1. order' \in [Pages -> Orders]
    BY <1>1, <1>2 DEF IInv, TypeOK, PagesTypeOK
  <2>2. free_area' \in [Orders -> Seq(Pages)]
    BY <1>1, <1>2, <1>9, <1>13, <1>14 DEF IInv, TypeOK, PagesTypeOK
  <2> QED BY <1>1, <1>2, <1>15, <2>1, <2>2 DEF IInv, TypeOK, PagesTypeOK
<1>17. BlocksTilePages'
  <2> DEFINE left == <<p, k>>  right == <<b, k>>
  <2>1. FreeBlocks' = (FreeBlocks \ {whole}) \cup {left, right}
    <3>1. ASSUME NEW q \in Pages, NEW j \in Orders
          PROVE  q \in Range(free_area'[j]) <=>
                   \/ q \in Range(free_area[j]) /\ ~ (q = p /\ j = k + 1)
                   \/ j = k /\ q \in {p, b}
      BY <1>1, <1>9, <1>13, <1>14
    <3>2. \A q \in Pages, j \in Orders :
            <<q, j>> \in FreeBlocks' <=> <<q, j>> \in (FreeBlocks \ {whole}) \cup {left, right}
      BY <3>1 DEF FreeBlocks
    <3>3. /\ FreeBlocks' \subseteq Pages \X Orders
          /\ (FreeBlocks \ {whole}) \cup {left, right} \subseteq Pages \X Orders
      BY <1>1, <1>3, <1>5 DEF FreeBlocks
    <3> QED BY <3>2, <3>3
  <2>2. UsedBlocks' = UsedBlocks
    BY <1>2, <1>7, <1>15 DEF UsedBlocks, IInv, TypeOK, PagesTypeOK
  <2>3. InHand = {} /\ InHand' = {}
    BY <1>1 DEF InHand
  <2>4. whole \notin UsedBlocks
    BY <1>4 DEF UsedBlocks
  <2>5. Blocks' = (Blocks \ {whole}) \cup {left, right}
    BY <2>1, <2>2, <2>3, <2>4 DEF Blocks
  <2>6. Tiles(Blocks)
    BY DEF IInv, BlocksTilePages
  <2>7. Tiles(Blocks')
    BY <1>1, <1>3, <1>4, <1>5, <2>5, <2>6, BlocksType, SplitTiles
  <2> QED BY <2>7 DEF BlocksTilePages, Tiles, AlignedAll, DisjointAll, CoversPages
<1>18. FreeListsSound'
  <2> SUFFICES ASSUME NEW j \in Orders
               PROVE  /\ Distinct(free_area'[j])
                      /\ \A q \in Range(free_area'[j]) :
                           refcount'[q] = 0 /\ (order'[q] = j \/ StaleTop(q, j)')
    BY DEF FreeListsSound, Distinct
  <2>1. Distinct(free_area'[j])
    BY <1>9, <1>13, <1>14 DEF IInv, FreeListsSound
  <2>2. ASSUME NEW q \in Range(free_area'[j])
        PROVE  refcount'[q] = 0 /\ (order'[q] = j \/ StaleTop(q, j)')
    <3>1. CASE q = p /\ j = k
      BY <1>1, <1>2, <1>4, <1>13, <1>15, <3>1 DEF StaleTop
    <3>2. CASE q = b
      <4>1. j = k
        BY <1>7, <1>9, <1>14, <2>2, <3>2
      <4> QED BY <1>2, <1>5, <1>7, <1>15, <3>2, <4>1 DEF IInv, TypeOK, PagesTypeOK
    <3>3. CASE q # b /\ ~ (q = p /\ j = k)
      <4>1. q \in Range(free_area[j]) /\ ~ (j = k + 1 /\ q = p)
        BY <1>9, <1>13, <1>14, <2>2, <3>3
      <4>2. q \in Pages /\ refcount[q] = 0 /\ order[q] = j
        BY <1>1, <4>1, FreeHead DEF IInv, FreeListsSound, StaleTop, p
      <4> QED BY <1>2, <1>15, <3>3, <4>2 DEF IInv, TypeOK, PagesTypeOK
    <3> QED BY <3>1, <3>2, <3>3
  <2> QED BY <2>1, <2>2
<1>19. FreeBuddiesMerged'
  <2> SUFFICES ASSUME NEW j \in 0 .. (MAX_ORDER - 1), NEW q \in Range(free_area'[j]),
                      get_buddy(q, j) \in Range(free_area'[j])
               PROVE  StaleTop(q, j)' \/ StaleTop(get_buddy(q, j), j)'
    BY DEF FreeBuddiesMerged, get_buddy
  <2>0. j \in Orders
    BY SizeType
  <2>1. CASE j = k /\ (q = p \/ get_buddy(q, j) = p)
    BY <1>1, <1>2, <1>13, <2>1 DEF StaleTop
  <2>2. CASE ~ (j = k /\ (q = p \/ get_buddy(q, j) = p))
    <3>1. q \in Range(free_area[j]) /\ ~ (j = k + 1 /\ q = p)
      BY <1>5, <1>9, <1>13, <1>14, <2>0, <2>2
    <3>2. q \in Pages /\ Aligned(q, j)
      BY <2>0, <3>1, FreeHead
    <3>3. get_buddy(get_buddy(q, j), j) = q
      BY <3>2, BuddyOfBuddy
    <3>4. /\ get_buddy(q, j) \in Range(free_area[j])
          /\ ~ (j = k + 1 /\ get_buddy(q, j) = p)
      BY <1>5, <1>9, <1>13, <1>14, <2>0, <2>2, <3>3
    <3>5. StaleTop(q, j) \/ StaleTop(get_buddy(q, j), j)
      BY <3>1, <3>4 DEF IInv, FreeBuddiesMerged
    <3> QED BY <1>1, <3>1, <3>4, <3>5 DEF StaleTop, p
  <2> QED BY <2>1, <2>2
<1>20. SplitSound' /\ MergeSound'
  BY <1>1, <1>2, <1>13 DEF SplitSound, MergeSound
<1> QED BY <1>16, <1>17, <1>18, <1>19, <1>20 DEF IInv

\* Handing out the front block, the stale one after a split.
LEMMA AllocReturnStep ==
  ASSUME IInv, AllocReturn
  PROVE  IInv'
<1> DEFINE p   == Head(free_area[req])
           blk == <<p, req>>
<1>1. /\ pc = "split" /\ pc' = "idle" /\ tmp_i = req /\ req \in Orders
      /\ free_area[req] # << >> /\ free_area[req] \in Seq(Pages)
  BY DEF AllocReturn, IInv, TypeOK, PagesTypeOK, SplitSound
<1>2. /\ order' = [order EXCEPT ![p] = req]
      /\ refcount' = [refcount EXCEPT ![p] = 1]
      /\ free_area' = [free_area EXCEPT ![req] = Tail(@)]
      /\ ret' = [order |-> req, page |-> p]
      /\ req' = req /\ tmp_i' = tmp_i /\ page' = page
  BY DEF AllocReturn, TakeFront
<1>3. p \in Pages /\ p \in Range(free_area[req])
  BY <1>1, PopFront
<1>4. refcount[p] = 0 /\ blk \in Blocks /\ Aligned(p, req) /\ p \in Extent(blk)
  BY <1>1, <1>3, FreeHead
<1> HIDE DEF p
<1>5. ASSUME NEW j \in Orders, j # req PROVE p \notin Range(free_area[j])
  <2> SUFFICES ASSUME p \in Range(free_area[j]) PROVE FALSE
    OBVIOUS
  <2>1. <<p, j>> \in Blocks /\ p \in Extent(<<p, j>>)
    BY FreeHead
  <2>2. <<p, j>> = blk
    BY <1>4, <2>1, OneBlock
  <2> QED BY <1>5, <2>2
<1>6. Distinct(free_area[req])
  BY <1>1 DEF IInv, FreeListsSound
<1>7. /\ free_area'[req] = Tail(free_area[req])
      /\ \A j \in Orders \ {req} : free_area'[j] = free_area[j]
  BY <1>1, <1>2 DEF IInv, TypeOK, PagesTypeOK
<1>8. /\ free_area'[req] \in Seq(Pages)
      /\ Range(free_area'[req]) = Range(free_area[req]) \ {p}
      /\ Distinct(free_area'[req])
  BY <1>1, <1>6, <1>7, PopFront DEF p
\* A page left in a list was there before, and is not p.
<1>9. ASSUME NEW j \in Orders
      PROVE  Range(free_area'[j]) = Range(free_area[j]) \ {p}
  BY <1>5, <1>7, <1>8
<1>10. TypeOK'
  <2>1. order' \in [Pages -> Orders] /\ refcount' \in [Pages -> {0, 1}]
    BY <1>1, <1>2 DEF IInv, TypeOK, PagesTypeOK
  <2>2. free_area' \in [Orders -> Seq(Pages)]
    BY <1>2, <1>7, <1>8 DEF IInv, TypeOK, PagesTypeOK
  <2> QED BY <1>1, <1>2, <1>3, <2>1, <2>2 DEF IInv, TypeOK, PagesTypeOK
<1>11. Blocks' = Blocks
  <2>1. FreeBlocks' = FreeBlocks \ {blk}
    <3>1. \A q \in Pages, j \in Orders :
            <<q, j>> \in FreeBlocks' <=> <<q, j>> \in FreeBlocks \ {blk}
      BY <1>5, <1>9 DEF FreeBlocks
    <3>2. FreeBlocks' \subseteq Pages \X Orders /\ FreeBlocks \subseteq Pages \X Orders
      BY DEF FreeBlocks
    <3> QED BY <3>1, <3>2
  <2>2. UsedBlocks' = UsedBlocks \cup {blk}
    <3>1. \A q \in Pages, j \in Orders :
            <<q, j>> \in UsedBlocks' <=> <<q, j>> \in UsedBlocks \cup {blk}
      BY <1>1, <1>2, <1>4 DEF UsedBlocks, IInv, TypeOK, PagesTypeOK
    <3>2. UsedBlocks' \subseteq Pages \X Orders /\ UsedBlocks \subseteq Pages \X Orders
      BY DEF UsedBlocks
    <3> QED BY <1>1, <1>3, <3>1, <3>2
  <2>3. InHand = {} /\ InHand' = {}
    BY <1>1 DEF InHand
  <2>4. blk \in FreeBlocks
    BY <1>1, <1>3 DEF FreeBlocks
  <2> QED BY <2>1, <2>2, <2>3, <2>4 DEF Blocks
<1>12. BlocksTilePages'
  BY <1>11 DEF IInv, BlocksTilePages, Tiles, AlignedAll, DisjointAll, CoversPages
<1>13. FreeListsSound'
  <2> SUFFICES ASSUME NEW j \in Orders
               PROVE  /\ Distinct(free_area'[j])
                      /\ \A q \in Range(free_area'[j]) : refcount'[q] = 0 /\ order'[q] = j
    BY DEF FreeListsSound, Distinct
  <2>1. Distinct(free_area'[j])
    BY <1>7, <1>8 DEF IInv, FreeListsSound
  <2>2. ASSUME NEW q \in Range(free_area'[j])
        PROVE  refcount'[q] = 0 /\ order'[q] = j
    <3>1. q \in Range(free_area[j]) /\ q # p
      BY <1>9, <2>2
    <3>2. q \in Pages /\ refcount[q] = 0 /\ order[q] = j
      BY <1>1, <3>1, FreeHead DEF IInv, FreeListsSound, StaleTop, p
    <3> QED BY <1>2, <3>1, <3>2 DEF IInv, TypeOK, PagesTypeOK
  <2> QED BY <2>1, <2>2
<1>14. FreeBuddiesMerged'
  <2> SUFFICES ASSUME NEW j \in 0 .. (MAX_ORDER - 1), NEW q \in Range(free_area'[j]),
                      get_buddy(q, j) \in Range(free_area'[j])
               PROVE  FALSE
    BY DEF FreeBuddiesMerged, get_buddy
  <2>1. j \in Orders
    BY SizeType
  <2>2. /\ q \in Range(free_area[j]) /\ q # p
        /\ get_buddy(q, j) \in Range(free_area[j]) /\ get_buddy(q, j) # p
    BY <1>9, <2>1
  <2> QED BY <1>1, <2>2 DEF IInv, FreeBuddiesMerged, StaleTop, p
<1> QED BY <1>1, <1>10, <1>12, <1>13, <1>14 DEF IInv, SplitSound, MergeSound

-----------------------------------------------------------------------------
(* free_pages *)

\* free_pages past its early return: a used block becomes the one in hand.
LEMMA FreeCallStep ==
  ASSUME IInv, NEW p \in Pages, FreeCall(p)
  PROVE  IInv'
<1>1. /\ pc = "idle" /\ pc' = "merge" /\ page' = p /\ refcount[p] # 0
      /\ refcount' = [refcount EXCEPT ![p] = 0]
      /\ order' = order /\ free_area' = free_area
      /\ req' = req /\ tmp_i' = tmp_i /\ ret' = ret
  BY DEF FreeCall
<1>2. /\ order[p] \in Orders /\ refcount[p] = 1 /\ refcount' \in [Pages -> {0, 1}]
      /\ \A k \in Orders : p \notin Range(free_area[k])
  BY <1>1, UsedHead DEF IInv, TypeOK, PagesTypeOK
<1>3. TypeOK'
  BY <1>1, <1>2 DEF IInv, TypeOK, PagesTypeOK
<1>4. Blocks' = Blocks
  <2>1. FreeBlocks' = FreeBlocks
    BY <1>1 DEF FreeBlocks
  <2>2. InHand = {} /\ InHand' = {<<p, order[p]>>}
    BY <1>1, <1>2 DEF InHand
  <2>3. UsedBlocks' = UsedBlocks \ {<<p, order[p]>>}
    <3>1. \A q \in Pages, j \in Orders :
            <<q, j>> \in UsedBlocks' <=> <<q, j>> \in UsedBlocks \ {<<p, order[p]>>}
      BY <1>1, <1>2 DEF UsedBlocks, IInv, TypeOK, PagesTypeOK
    <3>2. UsedBlocks' \subseteq Pages \X Orders /\ UsedBlocks \subseteq Pages \X Orders
      BY DEF UsedBlocks
    <3> QED BY <3>1, <3>2
  <2>4. <<p, order[p]>> \in UsedBlocks
    BY <1>2 DEF UsedBlocks
  <2> QED BY <2>1, <2>2, <2>3, <2>4 DEF Blocks
<1>5. BlocksTilePages'
  BY <1>4 DEF IInv, BlocksTilePages, Tiles, AlignedAll, DisjointAll, CoversPages
<1>6. FreeListsSound'
  <2> SUFFICES ASSUME NEW j \in Orders
               PROVE  /\ Distinct(free_area[j])
                      /\ \A q \in Range(free_area[j]) : refcount'[q] = 0 /\ order[q] = j
    BY <1>1 DEF FreeListsSound, Distinct
  <2>1. Distinct(free_area[j])
    BY DEF IInv, FreeListsSound
  <2>2. ASSUME NEW q \in Range(free_area[j]) PROVE refcount'[q] = 0 /\ order[q] = j
    <3>1. q \in Pages /\ refcount[q] = 0 /\ order[q] = j
      BY <1>1, FreeHead
    <3> QED BY <1>1, <3>1 DEF IInv, TypeOK, PagesTypeOK
  <2> QED BY <2>1, <2>2
<1>7. FreeBuddiesMerged'
  BY <1>1 DEF IInv, FreeBuddiesMerged, StaleTop
<1>8. SplitSound' /\ MergeSound'
  BY <1>1, <1>2 DEF SplitSound, MergeSound, IInv, TypeOK, PagesTypeOK
<1> QED BY <1>3, <1>5, <1>6, <1>7, <1>8 DEF IInv

\* The block in free_pages' hand.
LEMMA BlockInHand ==
  ASSUME IInv, pc = "merge"
  PROVE  /\ page \in Pages /\ order[page] \in Orders /\ refcount[page] = 0
         /\ InHand = {<<page, order[page]>>} /\ <<page, order[page]>> \in Blocks
         /\ Aligned(page, order[page]) /\ page \in Extent(<<page, order[page]>>)
         /\ \A j \in Orders : page \notin Range(free_area[j])
<1>1. page \in Pages /\ order[page] \in Orders /\ refcount[page] = 0
  BY DEF IInv, MergeSound, TypeOK, PagesTypeOK
<1>2. InHand = {<<page, order[page]>>}
  BY <1>1 DEF InHand
<1>3. <<page, order[page]>> \in Blocks
  BY <1>2 DEF Blocks
<1>4. Aligned(page, order[page])
  BY <1>3 DEF IInv, BlocksTilePages, Tiles, AlignedAll
<1>5. page \in Extent(<<page, order[page]>>)
  BY <1>1, HeadInExtent
<1>6. ASSUME NEW j \in Orders, page \in Range(free_area[j]) PROVE FALSE
  <2>1. order[page] = j
    BY <1>6, FreeHead
  <2> QED BY <1>6, <2>1 DEF IInv, MergeSound
<1> QED BY <1>1, <1>2, <1>3, <1>4, <1>5, <1>6

\* What free_pages relies on without looking: a buddy of the same order with
\* refcount 0 heads a free block, even though order and refcount of pages
\* inside larger blocks are leftovers nobody resets.
LEMMA BuddyIsListed ==
  ASSUME IInv, pc = "merge", Mergeable(page)
  PROVE  LET k == order[page]
         IN  /\ k \in 0 .. (MAX_ORDER - 1)
             /\ get_buddy(page, k) \in Range(free_area[k])
<1> DEFINE k == order[page]
           b == get_buddy(page, k)
<1>1. /\ page \in Pages /\ k \in Orders /\ Aligned(page, k)
      /\ <<page, k>> \in Blocks /\ page \in Extent(<<page, k>>)
      /\ InHand = {<<page, k>>}
  BY BlockInHand
<1>2. k \in 0 .. (MAX_ORDER - 1) /\ order[b] = k /\ refcount[b] = 0
  BY <1>1, SizeType DEF Mergeable, Orders
<1>3. b \in Pages /\ b # page /\ Aligned(b, k)
  BY <1>1, <1>2, BuddyOfBuddy
<1>4. PICK a \in Pages : Aligned(a, k + 1) /\ (page = a \/ page = a + BlockSize[k])
  BY <1>1, <1>2, HalfOf
<1>5. /\ k + 1 \in Orders /\ BlockSize[k] \in Nat \ {0} /\ BlockSize[k + 1] = 2 * BlockSize[k]
      /\ a \in Nat /\ page \in Nat /\ b \in Nat
  BY <1>1, <1>2, <1>3, <1>4, SizeType DEF Pages
<1>6. /\ a <= page /\ page < a + BlockSize[k + 1]
      /\ a <= b /\ b < a + BlockSize[k + 1]
  <2>1. b = a \/ b = a + BlockSize[k]
    BY <1>2, <1>4, Halves
  <2> QED BY <1>4, <1>5, <2>1
<1> HIDE DEF k, b
<1>7. PICK h \in Pages, o \in Orders : <<h, o>> \in Blocks /\ b \in Extent(<<h, o>>)
  <2>1. PICK blk \in Blocks : b \in Extent(blk)
    BY <1>3 DEF IInv, BlocksTilePages, Tiles, CoversPages
  <2> QED BY <2>1, BlocksType
<1>8. /\ Aligned(h, o) /\ h \in Nat /\ o \in Int /\ k \in Int /\ BlockSize[o] \in Nat \ {0}
      /\ h <= b /\ b < h + BlockSize[o]
  <2>1. Aligned(h, o)
    BY <1>7 DEF IInv, BlocksTilePages, Tiles, AlignedAll
  <2>2. BlockSize[o] \in Nat \ {0} /\ h \in Nat /\ o \in Int /\ k \in Int
    BY <1>1, <1>7, SizeType DEF Pages, Orders
  <2> QED BY <1>5, <1>7, <2>1, <2>2 DEF Extent
\* The block that holds b is not larger: it would hold page too.
<1>9. o <= k
  <2> SUFFICES ASSUME k + 1 <= o PROVE FALSE
    BY <1>8
  <2>1. h <= a /\ a + BlockSize[k + 1] <= h + BlockSize[o]
    <3>1. BlockSize[k + 1] \in Nat
      BY <1>5
    <3>2. \/ a + BlockSize[k + 1] <= h
          \/ h + BlockSize[o] <= a
          \/ h <= a /\ a + BlockSize[k + 1] <= h + BlockSize[o]
      BY <1>4, <1>5, <1>8, NestedOrApart
    <3> QED BY <1>5, <1>6, <1>8, <3>1, <3>2
  <2>2. page \in Extent(<<h, o>>)
    BY <1>5, <1>6, <1>8, <2>1 DEF Extent
  <2>3. <<h, o>> = <<page, k>>
    BY <1>1, <1>7, <2>2, OneBlock
  <2> QED BY <1>8, <2>3
\* It is not smaller with another head, b being aligned: it starts at b.
<1>10. h = b
  <2>1. \/ h + BlockSize[o] <= b
        \/ b + BlockSize[k] <= h
        \/ b <= h /\ h + BlockSize[o] <= b + BlockSize[k]
    BY <1>1, <1>3, <1>8, <1>9, NestedOrApart
  <2> QED BY <1>5, <1>8, <2>1
<1>11. <<b, o>> \notin UsedBlocks /\ <<b, o>> \notin InHand
  BY <1>1, <1>2, <1>3 DEF UsedBlocks
<1>12. b \in Range(free_area[o])
  BY <1>7, <1>10, <1>11 DEF Blocks, FreeBlocks
<1>13. o = k
  BY <1>2, <1>12, FreeHead
<1> QED BY <1>2, <1>12, <1>13 DEF k, b

\* A turn of the merge loop: the block in hand and its free buddy become one.
LEMMA MergeStep ==
  ASSUME IInv, Merge
  PROVE  IInv'
<1> DEFINE k    == order[page]
           b    == get_buddy(page, k)
           head == IF page > b THEN b ELSE page
<1>1. /\ pc = "merge" /\ Mergeable(page) /\ pc' = "merge" /\ page' = head
      /\ free_area' = [free_area EXCEPT ![k] = remove(b, @)]
      /\ order' = [order EXCEPT ![head] = @ + 1]
      /\ refcount' = refcount /\ req' = req /\ tmp_i' = tmp_i /\ ret' = ret
  BY DEF Merge, Grow
<1>2. /\ page \in Pages /\ k \in Orders /\ refcount[page] = 0
      /\ InHand = {<<page, k>>} /\ <<page, k>> \in Blocks
      /\ Aligned(page, k) /\ page \in Extent(<<page, k>>)
      /\ \A j \in Orders : page \notin Range(free_area[j])
  BY <1>1, BlockInHand
<1>3. k \in 0 .. (MAX_ORDER - 1) /\ b \in Range(free_area[k]) /\ k + 1 \in Orders
  BY <1>1, BuddyIsListed, SizeType
<1>4. /\ b \in Pages /\ b # page /\ refcount[b] = 0 /\ order[b] = k
      /\ <<b, k>> \in Blocks /\ b \in Extent(<<b, k>>)
  BY <1>1, <1>2, <1>3, FreeHead, BuddyOfBuddy
<1>5. /\ head \in Pages /\ Aligned(head, k + 1)
      /\ {page, b} = {head, head + BlockSize[k]}
  <2>1. PICK a \in Pages : Aligned(a, k + 1) /\ (page = a \/ page = a + BlockSize[k])
    BY <1>2, <1>3, HalfOf
  <2>2. BlockSize[k] \in Nat \ {0} /\ a \in Nat
    BY <1>2, SizeType DEF Pages
  <2>3. \/ page = a /\ b = a + BlockSize[k]
        \/ b = a /\ page = a + BlockSize[k]
    BY <1>3, <2>1, Halves
  <2>4. head = a
    BY <2>2, <2>3
  <2> QED BY <2>1, <2>3, <2>4
<1>6. head \in {page, b} /\ order[head] = k /\ refcount[head] = 0
  BY <1>2, <1>4
<1> HIDE DEF k, b, head
<1>7. Distinct(free_area[k]) /\ free_area[k] \in Seq(Pages)
  BY <1>2 DEF IInv, FreeListsSound, TypeOK, PagesTypeOK
<1>8. /\ free_area'[k] = remove(b, free_area[k])
      /\ \A j \in Orders \ {k} : free_area'[j] = free_area[j]
  BY <1>1, <1>2 DEF IInv, TypeOK, PagesTypeOK
<1>9. /\ free_area'[k] \in Seq(Pages) /\ Distinct(free_area'[k])
      /\ Range(free_area'[k]) = Range(free_area[k]) \ {b}
  BY <1>7, <1>8, Remove
<1>10. ASSUME NEW j \in Orders, j # k PROVE b \notin Range(free_area[j])
  BY <1>1, <1>4, <1>10, FreeHead
<1>11. ASSUME NEW j \in Orders
       PROVE  /\ Range(free_area'[j]) = Range(free_area[j]) \ {b}
              /\ page \notin Range(free_area'[j])
  BY <1>2, <1>8, <1>9, <1>10
<1>12. TypeOK'
  <2>1. order' \in [Pages -> Orders]
    BY <1>1, <1>3, <1>5, <1>6 DEF IInv, TypeOK, PagesTypeOK
  <2>2. free_area' \in [Orders -> Seq(Pages)]
    BY <1>1, <1>8, <1>9 DEF IInv, TypeOK, PagesTypeOK
  <2> QED BY <1>1, <1>5, <2>1, <2>2 DEF IInv, TypeOK, PagesTypeOK
<1>13. BlocksTilePages'
  <2> DEFINE left  == <<head, k>>
             right == <<head + BlockSize[k], k>>
             whole == <<head, k + 1>>
  <2>1. {left, right} = {<<page, k>>, <<b, k>>}
    BY <1>5
  <2>2. FreeBlocks' = FreeBlocks \ {<<b, k>>}
    <3>1. \A q \in Pages, j \in Orders :
            <<q, j>> \in FreeBlocks' <=> <<q, j>> \in FreeBlocks \ {<<b, k>>}
      BY <1>10, <1>11 DEF FreeBlocks
    <3>2. FreeBlocks' \subseteq Pages \X Orders /\ FreeBlocks \subseteq Pages \X Orders
      BY DEF FreeBlocks
    <3> QED BY <3>1, <3>2
  <2>3. UsedBlocks' = UsedBlocks
    BY <1>1, <1>6 DEF UsedBlocks, IInv, TypeOK, PagesTypeOK
  <2>4. InHand' = {whole}
    BY <1>1, <1>3, <1>5, <1>6 DEF InHand, IInv, TypeOK, PagesTypeOK
  <2>5. <<page, k>> \notin FreeBlocks \cup UsedBlocks /\ <<b, k>> \notin UsedBlocks
    BY <1>2, <1>4 DEF FreeBlocks, UsedBlocks
  <2>6. Blocks' = (Blocks \ {left, right}) \cup {whole}
    BY <1>2, <2>1, <2>2, <2>3, <2>4, <2>5 DEF Blocks
  <2>7. left \in Blocks /\ right \in Blocks
    BY <1>2, <1>4, <2>1
  <2>8. Tiles(Blocks)
    BY DEF IInv, BlocksTilePages
  <2>9. Tiles(Blocks')
    BY <1>3, <1>5, <2>6, <2>7, <2>8, BlocksType, MergeTiles
  <2> QED BY <2>9 DEF BlocksTilePages, Tiles, AlignedAll, DisjointAll, CoversPages
<1>14. FreeListsSound'
  <2> SUFFICES ASSUME NEW j \in Orders
               PROVE  /\ Distinct(free_area'[j])
                      /\ \A q \in Range(free_area'[j]) : refcount'[q] = 0 /\ order'[q] = j
    BY DEF FreeListsSound, Distinct
  <2>1. Distinct(free_area'[j])
    BY <1>8, <1>9 DEF IInv, FreeListsSound
  <2>2. ASSUME NEW q \in Range(free_area'[j]) PROVE refcount'[q] = 0 /\ order'[q] = j
    <3>1. q \in Range(free_area[j]) /\ q # head
      BY <1>6, <1>11, <2>2
    <3>2. q \in Pages /\ refcount[q] = 0 /\ order[q] = j
      BY <1>1, <3>1, FreeHead
    <3> QED BY <1>1, <3>1, <3>2 DEF IInv, TypeOK, PagesTypeOK
  <2> QED BY <2>1, <2>2
<1>15. FreeBuddiesMerged'
  <2> SUFFICES ASSUME NEW j \in 0 .. (MAX_ORDER - 1), NEW q \in Range(free_area'[j]),
                      get_buddy(q, j) \in Range(free_area'[j])
               PROVE  FALSE
    BY DEF FreeBuddiesMerged, get_buddy
  <2>1. j \in Orders
    BY SizeType
  <2>2. q \in Range(free_area[j]) /\ get_buddy(q, j) \in Range(free_area[j])
    BY <1>11, <2>1
  <2> QED BY <1>1, <2>2 DEF IInv, FreeBuddiesMerged, StaleTop
<1>16. MergeSound'
  <2>1. order'[head] = k + 1
    BY <1>1, <1>5, <1>6 DEF IInv, TypeOK, PagesTypeOK
  <2>2. head \notin Range(free_area'[k + 1])
    BY <1>3, <1>6, <1>11
  <2> QED BY <1>1, <1>5, <1>6, <2>1, <2>2 DEF MergeSound
<1> QED BY <1>1, <1>12, <1>13, <1>14, <1>15, <1>16 DEF IInv, SplitSound

\* The end of free_pages: the block in hand, whose buddy is not free, is listed.
LEMMA FreeReturnStep ==
  ASSUME IInv, FreeReturn
  PROVE  IInv'
<1> DEFINE k == order[page]
<1>1. /\ pc = "merge" /\ ~ Mergeable(page) /\ pc' = "idle" /\ page' = NULL
      /\ free_area' = [free_area EXCEPT ![k] = push_front(page, @)]
      /\ order' = order /\ refcount' = refcount
      /\ req' = req /\ tmp_i' = tmp_i /\ ret' = ret
  BY DEF FreeReturn
<1>2. /\ page \in Pages /\ k \in Orders /\ refcount[page] = 0
      /\ InHand = {<<page, k>>} /\ Aligned(page, k)
      /\ \A j \in Orders : page \notin Range(free_area[j])
  BY <1>1, BlockInHand
<1> HIDE DEF k
<1>3. Distinct(free_area[k]) /\ free_area[k] \in Seq(Pages)
  BY <1>2 DEF IInv, FreeListsSound, TypeOK, PagesTypeOK
<1>4. /\ free_area'[k] = push_front(page, free_area[k])
      /\ \A j \in Orders \ {k} : free_area'[j] = free_area[j]
  BY <1>1, <1>2 DEF IInv, TypeOK, PagesTypeOK
<1>5. /\ free_area'[k] \in Seq(Pages) /\ Distinct(free_area'[k])
      /\ Range(free_area'[k]) = {page} \cup Range(free_area[k])
  <2> DEFINE new == push_front(page, free_area[k])
  <2>1. new \in Seq(Pages) /\ Range(new) = {page} \cup Range(free_area[k])
    BY <1>2, <1>3, PushFront
  <2>2. Distinct(new)
    BY <1>2, <1>3, PushFront
  <2> QED BY <1>4, <2>1, <2>2
<1>6. TypeOK'
  <2>1. free_area' \in [Orders -> Seq(Pages)]
    BY <1>1, <1>4, <1>5 DEF IInv, TypeOK, PagesTypeOK
  <2> QED BY <1>1, <2>1 DEF IInv, TypeOK, PagesTypeOK
<1>7. Blocks' = Blocks
  <2>1. FreeBlocks' = FreeBlocks \cup {<<page, k>>}
    <3>1. \A q \in Pages, j \in Orders :
            <<q, j>> \in FreeBlocks' <=> <<q, j>> \in FreeBlocks \cup {<<page, k>>}
      BY <1>4, <1>5 DEF FreeBlocks
    <3>2. FreeBlocks' \subseteq Pages \X Orders /\ FreeBlocks \subseteq Pages \X Orders
      BY DEF FreeBlocks
    <3> QED BY <1>2, <3>1, <3>2
  <2>2. UsedBlocks' = UsedBlocks /\ InHand' = {}
    BY <1>1 DEF UsedBlocks, InHand
  <2> QED BY <1>2, <2>1, <2>2 DEF Blocks
<1>8. BlocksTilePages'
  BY <1>7 DEF IInv, BlocksTilePages, Tiles, AlignedAll, DisjointAll, CoversPages
<1>9. FreeListsSound'
  <2> SUFFICES ASSUME NEW j \in Orders
               PROVE  /\ Distinct(free_area'[j])
                      /\ \A q \in Range(free_area'[j]) : refcount[q] = 0 /\ order[q] = j
    BY <1>1 DEF FreeListsSound, Distinct
  <2>1. Distinct(free_area'[j])
    BY <1>4, <1>5 DEF IInv, FreeListsSound
  <2>2. ASSUME NEW q \in Range(free_area'[j]) PROVE refcount[q] = 0 /\ order[q] = j
    <3>1. CASE q = page
      BY <1>2, <1>4, <2>2, <3>1 DEF k
    <3>2. CASE q \in Range(free_area[j])
      BY <1>1, <3>2, FreeHead
    <3> QED BY <1>4, <1>5, <2>2, <3>1, <3>2
  <2> QED BY <2>1, <2>2
\* Were its buddy listed too, the loop would not have ended.
<1>10. FreeBuddiesMerged'
  <2> SUFFICES ASSUME NEW j \in 0 .. (MAX_ORDER - 1), NEW q \in Range(free_area'[j]),
                      get_buddy(q, j) \in Range(free_area'[j])
               PROVE  FALSE
    BY DEF FreeBuddiesMerged, get_buddy
  <2>0. j \in Orders /\ j < MAX_ORDER
    BY SizeType
  <2>1. q \in Pages /\ Aligned(q, j)
    BY <1>2, <1>4, <1>5, <2>0, FreeHead
  <2>2. get_buddy(q, j) # q /\ get_buddy(get_buddy(q, j), j) = q
    BY <2>1, BuddyOfBuddy
  <2>3. CASE q # page /\ get_buddy(q, j) # page
    <3>1. q \in Range(free_area[j]) /\ get_buddy(q, j) \in Range(free_area[j])
      BY <1>4, <1>5, <2>0, <2>3
    <3> QED BY <1>1, <3>1 DEF IInv, FreeBuddiesMerged, StaleTop
  <2>4. ASSUME NEW c \in Range(free_area[j]), j = k, c = get_buddy(page, k) PROVE FALSE
    <3>1. order[c] = k /\ refcount[c] = 0
      BY <1>1, <2>0, <2>4, FreeHead
    <3> QED BY <1>1, <2>0, <2>4, <3>1 DEF Mergeable, k
  <2>5. CASE q = page
    <3>1. j = k
      BY <1>2, <1>4, <2>0, <2>5
    <3>2. get_buddy(q, j) \in Range(free_area[j])
      BY <1>5, <2>2, <2>5, <3>1
    <3> QED BY <2>4, <2>5, <3>1, <3>2
  <2>6. CASE get_buddy(q, j) = page
    <3>1. j = k
      BY <1>2, <1>4, <2>0, <2>6
    <3>2. q \in Range(free_area[j])
      BY <1>5, <2>2, <2>6, <3>1
    <3> QED BY <2>2, <2>4, <2>6, <3>1, <3>2
  <2> QED BY <2>3, <2>5, <2>6
<1> QED BY <1>1, <1>6, <1>8, <1>9, <1>10 DEF IInv, SplitSound, MergeSound

-----------------------------------------------------------------------------
(* Theorems *)

\* Nothing the invariant speaks of changes.
LEMMA StutterStep ==
  ASSUME IInv, UNCHANGED vars
  PROVE  IInv'
<1>1. /\ order' = order /\ refcount' = refcount /\ free_area' = free_area
      /\ pc' = pc /\ req' = req /\ tmp_i' = tmp_i /\ page' = page /\ ret' = ret
  BY DEF vars, pageVars, callVars
<1>2. TypeOK' /\ FreeListsSound' /\ FreeBuddiesMerged' /\ SplitSound' /\ MergeSound'
  BY <1>1 DEF IInv, TypeOK, PagesTypeOK, FreeListsSound, FreeBuddiesMerged, StaleTop,
              SplitSound, MergeSound
<1>3. Blocks' = Blocks
  BY <1>1 DEF Blocks, FreeBlocks, UsedBlocks, InHand
<1>4. BlocksTilePages'
  BY <1>3 DEF IInv, BlocksTilePages, Tiles, AlignedAll, DisjointAll, CoversPages
<1> QED BY <1>2, <1>4 DEF IInv

\* The inductive invariant holds in every state of alloc_pages and free_pages.
THEOREM Inductive == Spec => []IInv
<1>1. IInv /\ [Next]_vars => IInv'
  <2> SUFFICES ASSUME IInv, [Next]_vars PROVE IInv'
    OBVIOUS
  <2>1. ASSUME NEW o \in Requests, AllocFound(o) PROVE IInv'
    BY <2>1, AllocFoundStep
  <2>2. ASSUME NEW o \in Requests, AllocFails(o) PROVE IInv'
    BY <2>2, AllocFailsStep
  <2>3. ASSUME NEW p \in Pages, FreeCall(p) PROVE IInv'
    BY <2>3, FreeCallStep
  <2>4. CASE Split
    BY <2>4, SplitStep
  <2>5. CASE AllocReturn
    BY <2>5, AllocReturnStep
  <2>6. CASE Merge
    BY <2>6, MergeStep
  <2>7. CASE FreeReturn
    BY <2>7, FreeReturnStep
  <2>8. CASE UNCHANGED vars
    BY <2>8, StutterStep
  <2> QED BY <2>1, <2>2, <2>3, <2>4, <2>5, <2>6, <2>7, <2>8 DEF Next, Running
<1> QED BY <1>1, InitSound, PTL DEF Spec

\* Every field of every struct page, every list and every local of the two
\* calls keeps its type.
THEOREM TypeCorrect == Spec => []TypeOK
<1>1. IInv => TypeOK
  BY DEF IInv
<1> QED BY <1>1, Inductive, PTL

\* No page is lost or handed out twice: whatever the calls, the blocks in use,
\* the free blocks and the block being freed tile mem_map.
THEOREM TilesAlways == Spec => []BlocksTilePages
<1>1. IInv => BlocksTilePages
  BY DEF IInv
<1> QED BY <1>1, Inductive, PTL

\* What free_pages reads off a listed page is true of it.
THEOREM ListsAlwaysSound == Spec => []FreeListsSound
<1>1. IInv => FreeListsSound
  BY DEF IInv
<1> QED BY <1>1, Inductive, PTL

\* Two free buddies are never left unmerged.
THEOREM BuddiesAlwaysMerged == Spec => []FreeBuddiesMerged
<1>1. IInv => FreeBuddiesMerged
  BY DEF IInv
<1> QED BY <1>1, Inductive, PTL

-----------------------------------------------------------------------------
(* What callers see *)

\* Between two calls every block is free or in use.
LEMMA IdleBlocks == ASSUME pc = "idle" PROVE Blocks = FreeBlocks \cup UsedBlocks
BY DEF Blocks, InHand

\* An aligned run of pages none of which is in use lies in one free block.
\* Suppose not: only smaller free blocks cover the run, and one of the least
\* order among them has its buddy in the run. The block that covers the buddy
\* is no smaller, so it is the buddy itself, and two free buddies are apart.
LEMMA RunIsListed ==
  ASSUME IInv, pc = "idle", NEW k \in Orders, NEW a \in Pages, Aligned(a, k),
         \A b \in UsedBlocks : Extent(<<a, k>>) \cap Extent(b) = {}
  PROVE  \E h \in Pages, o \in k .. MAX_ORDER :
           /\ <<h, o>> \in FreeBlocks
           /\ Extent(<<a, k>>) \subseteq Extent(<<h, o>>)
<1> DEFINE run == Extent(<<a, k>>)
           Meets(o) == \E h \in Pages : <<h, o>> \in FreeBlocks /\ Extent(<<h, o>>) \cap run # {}
           T == {o \in Orders : Meets(o)}
<1>1. \A h \in Pages, o \in Orders : <<h, o>> \in FreeBlocks => Aligned(h, o)
  BY DEF IInv, BlocksTilePages, Tiles, AlignedAll, Blocks
<1>2. ASSUME NEW x \in run, x \in Pages
      PROVE  \E h \in Pages, o \in Orders : <<h, o>> \in FreeBlocks /\ x \in Extent(<<h, o>>)
  <2>1. PICK b \in Blocks : x \in Extent(b)
    BY <1>2 DEF IInv, BlocksTilePages, Tiles, CoversPages
  <2>2. b \in FreeBlocks
    BY <2>1, IdleBlocks
  <2>3. PICK h \in Pages, o \in Orders : b = <<h, o>>
    BY <2>2 DEF FreeBlocks
  <2> QED BY <2>1, <2>2, <2>3
<1>3. a \in run
  BY HeadInExtent
<1>4. T \in SUBSET Nat /\ T # {}
  <2>1. PICK h \in Pages, o \in Orders : <<h, o>> \in FreeBlocks /\ a \in Extent(<<h, o>>)
    BY <1>2, <1>3
  <2>2. o \in T
    BY <1>3, <2>1
  <2>3. T \subseteq Orders /\ Orders \subseteq Nat
    BY SizeType DEF Orders
  <2> QED BY <2>2, <2>3
<1>5. PICK j \in T : \A m \in T : j <= m
  BY <1>4, LeastNat
<1>6. PICK p \in Pages : <<p, j>> \in FreeBlocks /\ Extent(<<p, j>>) \cap run # {}
  BY <1>5
<1>7. j \in Orders /\ j \in Int /\ k \in Int /\ MAX_ORDER \in Nat /\ Aligned(p, j)
  BY <1>1, <1>5, <1>6, SizeType DEF Orders
<1> HIDE DEF T
<1>8. CASE k <= j
  <2>1. run \subseteq Extent(<<p, j>>)
    BY <1>6, <1>7, <1>8, SharedMeansInside
  <2>2. j \in k .. MAX_ORDER
    BY <1>7, <1>8 DEF Orders
  <2> QED BY <1>6, <2>1, <2>2
<1>9. CASE j < k
  <2>1. j \in 0 .. (MAX_ORDER - 1) /\ j + 1 \in Orders /\ j + 1 <= k
    BY <1>7, <1>9 DEF Orders
  <2>2. PICK c \in Pages : Aligned(c, j + 1) /\ (p = c \/ p = c + BlockSize[j])
    BY <1>7, <2>1, HalfOf
  <2> DEFINE b     == get_buddy(p, j)
             whole == Extent(<<c, j + 1>>)
  <2>3. b \in Pages /\ b # p /\ Aligned(b, j)
    BY <1>7, <2>1, BuddyOfBuddy
  <2>4. b = c \/ b = c + BlockSize[j]
    BY <2>1, <2>2, Halves
  <2>5. whole = Extent(<<c, j>>) \cup Extent(<<c + BlockSize[j], j>>)
    BY <2>1, HalfExtents
  <2>6. Extent(<<p, j>>) \subseteq whole /\ Extent(<<b, j>>) \subseteq whole
    BY <2>2, <2>4, <2>5
  <2>7. whole \subseteq run
    <3>1. PICK x \in run : x \in Extent(<<p, j>>)
      BY <1>6
    <3> QED BY <2>1, <2>2, <2>6, <3>1, SharedMeansInside
  <2>8. b \in Extent(<<b, j>>) /\ p \in Extent(<<p, j>>) /\ b \in run
    BY <1>7, <2>3, <2>6, <2>7, HeadInExtent
  <2> HIDE DEF b
  <2>9. PICK h \in Pages, o \in Orders : <<h, o>> \in FreeBlocks /\ b \in Extent(<<h, o>>)
    BY <1>2, <2>3, <2>8
  <2>10. Aligned(h, o) /\ o \in T /\ j <= o /\ o \in Int
    BY <1>1, <1>5, <2>8, <2>9 DEF T, Orders
  <2>11. CASE o = j
    <3>1. h = b
      BY <2>3, <2>8, <2>9, <2>10, <2>11, SameBlock
    <3>2. b \in Range(free_area[j]) /\ p \in Range(free_area[j])
      BY <1>6, <2>9, <2>11, <3>1 DEF FreeBlocks
    <3> QED BY <2>1, <3>2 DEF IInv, FreeBuddiesMerged, StaleTop, b
  <2>12. CASE o # j
    <3>1. whole \subseteq Extent(<<h, o>>)
      <4>1. j + 1 <= o
        BY <1>7, <2>10, <2>12
      <4>2. b \in whole
        BY <2>6, <2>8
      <4> QED BY <2>1, <2>2, <2>9, <2>10, <4>1, <4>2, SharedMeansInside
    <3>2. p \in Extent(<<h, o>>)
      BY <2>6, <2>8, <3>1
    <3>3. <<h, o>> = <<p, j>>
      BY <1>6, <2>8, <2>9, <3>2, OneBlock DEF Blocks
    <3> QED BY <2>12, <3>3
  <2> QED BY <2>11, <2>12
<1> QED BY <1>7, <1>8, <1>9

\* With nothing in use the blocks of MAX_ORDER are all free, and cover whatever
\* a smaller block could start at.
LEMMA AllFreed ==
  ASSUME IInv, pc = "idle", \A p \in Pages : refcount[p] = 0
  PROVE  /\ \A k \in 0 .. (MAX_ORDER - 1) : free_area[k] = << >>
         /\ Len(free_area[MAX_ORDER]) * BlockSize[MAX_ORDER] = NUM_PAGES
<1>1. UsedBlocks = {} /\ MAX_ORDER \in Orders /\ MAX_ORDER \in Nat
  BY SizeType DEF UsedBlocks, Orders
<1>2. ASSUME NEW a \in Pages, Aligned(a, MAX_ORDER) PROVE a \in Range(free_area[MAX_ORDER])
  <2>1. PICK h \in Pages, o \in MAX_ORDER .. MAX_ORDER :
          <<h, o>> \in FreeBlocks /\ Extent(<<a, MAX_ORDER>>) \subseteq Extent(<<h, o>>)
    BY <1>1, <1>2, RunIsListed
  <2>2. o = MAX_ORDER /\ a \in Extent(<<a, MAX_ORDER>>)
    BY <1>1, <2>1, HeadInExtent
  <2>3. h \in Range(free_area[MAX_ORDER]) /\ Aligned(h, MAX_ORDER)
    BY <1>1, <2>1, <2>2, FreeHead DEF FreeBlocks
  <2>4. h = a
    BY <1>1, <1>2, <2>1, <2>2, <2>3, SameBlock
  <2> QED BY <2>3, <2>4
<1>3. ASSUME NEW k \in 0 .. (MAX_ORDER - 1), free_area[k] # << >> PROVE FALSE
  <2>1. k \in Orders /\ k # MAX_ORDER
    BY SizeType
  <2>2. PICK p : p \in Range(free_area[k])
    BY <1>3, <2>1, PopFront DEF IInv, TypeOK, PagesTypeOK
  <2>3. p \in Pages /\ <<p, k>> \in Blocks /\ p \in Extent(<<p, k>>)
    BY <2>1, <2>2, FreeHead
  <2>4. PICK c \in Pages : Aligned(c, MAX_ORDER) /\ p \in Extent(<<c, MAX_ORDER>>)
    BY <2>3, TopBlockOf
  <2>5. <<c, MAX_ORDER>> \in Blocks
    BY <1>1, <1>2, <2>4, FreeHead
  <2>6. <<c, MAX_ORDER>> = <<p, k>>
    BY <2>3, <2>4, <2>5, OneBlock
  <2> QED BY <2>1, <2>6
<1>4. /\ free_area[MAX_ORDER] \in Seq(Pages) /\ Distinct(free_area[MAX_ORDER])
      /\ \A p \in Pages : p \in Range(free_area[MAX_ORDER]) <=> Aligned(p, MAX_ORDER)
  BY <1>1, <1>2, FreeHead DEF IInv, TypeOK, PagesTypeOK, FreeListsSound
<1> QED BY <1>3, <1>4, TopBlocksCount

\* Once everything is freed, free_area is as main() built it.
THEOREM AllFreedAlwaysRestores == Spec => []AllFreedRestores
<1>1. IInv => AllFreedRestores
  BY AllFreed DEF AllFreedRestores
<1> QED BY <1>1, Inductive, PTL

-----------------------------------------------------------------------------
(* The abstract allocator *)

\* A run of pages as a caller sees it, and a block.
LEMMA RunIsExtent ==
  ASSUME NEW p \in Pages, NEW k \in Orders
  PROVE  /\ Abstract!Run(p, k) = Extent(<<p, k>>)
         /\ Abstract!Available(p, k) <=>
              /\ Aligned(p, k)
              /\ \A b \in UsedBlocks : Extent(<<p, k>>) \cap Extent(b) = {}
<1>1. \A q \in Pages, j \in Orders : Abstract!Run(q, j) = Extent(<<q, j>>)
  BY DEF Abstract!Run, Extent
<1>2. \A b \in UsedBlocks : Abstract!Run(b[1], b[2]) = Extent(b)
  BY DEF Abstract!Run, Extent
<1> QED BY <1>1, <1>2, AlignedMod DEF Abstract!Available

\* main() starts with nothing held.
LEMMA InitIsAbstract == Init => Abstract!Init
<1> SUFFICES ASSUME Init PROVE Abstract!Init
  OBVIOUS
<1>1. UsedBlocks = {}
  BY InitPagesSound DEF Init
<1> QED BY <1>1 DEF Init, Abstract!Init

\* The steps inside the two calls that no caller sees: a search, the halving,
\* the merging. The blocks they change are free or in hand.
LEMMA HiddenSteps ==
  ASSUME IInv, Split \/ Merge \/ FreeReturn \/ (\E o \in Requests : AllocFound(o))
  PROVE  UNCHANGED <<UsedBlocks, ret>>
<1>1. CASE Split
  <2> DEFINE k == tmp_i - 1
             p == Head(free_area[tmp_i])
             b == get_buddy(p, k)
  <2>1. /\ pc = "split" /\ tmp_i \in Orders /\ req \in 0 .. tmp_i /\ tmp_i > req
        /\ free_area[tmp_i] # << >> /\ ret' = ret
        /\ order' = [order EXCEPT ![b] = k] /\ refcount' = [refcount EXCEPT ![b] = 0]
    BY <1>1 DEF Split, IInv, TypeOK, SplitSound, PushHalves
  <2>2. k \in 0 .. (MAX_ORDER - 1) /\ k + 1 = tmp_i
    BY <2>1, SizeType DEF Orders
  <2>3. /\ p \in Pages /\ <<p, tmp_i>> \in Blocks /\ Aligned(p, tmp_i)
        /\ p \in Range(free_area[tmp_i]) /\ p \in Extent(<<p, tmp_i>>)
    BY <2>1, FreeHead, PopFront DEF IInv, TypeOK, PagesTypeOK
  <2>4. b = p + BlockSize[k] /\ b \in Pages
    BY <2>2, <2>3, Halves
  <2>5. b \in Extent(<<p, tmp_i>>)
    <3>1. BlockSize[k] \in Nat \ {0} /\ BlockSize[k + 1] = 2 * BlockSize[k] /\ k \in Orders
      BY <2>2, SizeType
    <3>2. p \in Nat
      BY <2>3 DEF Pages
    <3> HIDE DEF b, k, p
    <3> QED BY <2>2, <2>4, <3>1, <3>2 DEF Extent
  <2>6. refcount[b] = 0
    <3> SUFFICES ASSUME refcount[b] # 0 PROVE FALSE
      OBVIOUS
    <3>1. <<b, order[b]>> \in Blocks /\ b \in Extent(<<b, order[b]>>)
      BY <2>4, UsedHead
    <3>2. <<b, order[b]>> = <<p, tmp_i>>
      BY <2>3, <2>5, <3>1, OneBlock
    <3> QED BY <2>2, <2>3, <2>4, <3>2, SizeType DEF Pages
  <2> HIDE DEF b, k
  <2>7. UsedBlocks' = UsedBlocks
    BY <2>1, <2>4, <2>6 DEF UsedBlocks, IInv, TypeOK, PagesTypeOK
  <2> QED BY <2>1, <2>7
<1>2. CASE Merge
  <2> DEFINE b    == get_buddy(page, order[page])
             head == IF page > b THEN b ELSE page
  <2>1. /\ pc = "merge" /\ Mergeable(page) /\ refcount' = refcount /\ ret' = ret
        /\ order' = [order EXCEPT ![head] = @ + 1]
    BY <1>2 DEF Merge, Grow
  <2>2. page \in Pages /\ refcount[page] = 0
    BY <2>1, BlockInHand
  <2>3. refcount[b] = 0
    BY <2>1 DEF Mergeable
  <2>4. refcount[head] = 0
    BY <2>2, <2>3
  <2> HIDE DEF head
  <2>5. UsedBlocks' = UsedBlocks
    BY <2>1, <2>4 DEF UsedBlocks, IInv, TypeOK, PagesTypeOK
  <2> QED BY <2>1, <2>5
<1>3. CASE FreeReturn \/ (\E o \in Requests : AllocFound(o))
  <2>1. order' = order /\ refcount' = refcount /\ ret' = ret
    BY <1>3 DEF FreeReturn, AllocFound, pageVars
  <2> QED BY <2>1 DEF UsedBlocks
<1> QED BY <1>1, <1>2, <1>3

\* alloc_pages returning a block hands out aligned pages that nobody holds.
LEMMA ReturnIsAllocate ==
  ASSUME IInv, AllocReturn
  PROVE  req \in Orders /\ Abstract!Allocate(req)
<1> DEFINE p == Head(free_area[req])
<1>1. /\ pc = "split" /\ tmp_i = req /\ req \in Orders /\ free_area[req] # << >>
      /\ order' = [order EXCEPT ![p] = req] /\ refcount' = [refcount EXCEPT ![p] = 1]
      /\ ret' = [order |-> req, page |-> p]
  BY DEF AllocReturn, TakeFront, IInv, TypeOK, SplitSound
<1>2. p \in Range(free_area[req])
  BY <1>1, PopFront DEF IInv, TypeOK, PagesTypeOK
<1>3. /\ p \in Pages /\ refcount[p] = 0 /\ <<p, req>> \in Blocks /\ Aligned(p, req)
  BY <1>1, <1>2, FreeHead
<1>4. UsedBlocks' = UsedBlocks \cup {<<p, req>>}
  <2>1. \A q \in Pages, j \in Orders :
          <<q, j>> \in UsedBlocks' <=> <<q, j>> \in UsedBlocks \cup {<<p, req>>}
    BY <1>1, <1>3 DEF UsedBlocks, IInv, TypeOK, PagesTypeOK
  <2>2. UsedBlocks' \subseteq Pages \X Orders /\ UsedBlocks \subseteq Pages \X Orders
    BY DEF UsedBlocks
  <2> QED BY <1>1, <1>3, <2>1, <2>2
<1>5. Abstract!Available(p, req)
  <2>1. ASSUME NEW b \in UsedBlocks PROVE Extent(<<p, req>>) \cap Extent(b) = {}
    <3>1. b # <<p, req>> /\ b \in Blocks
      BY <1>3 DEF UsedBlocks, Blocks
    <3> QED BY <1>3, <3>1 DEF IInv, BlocksTilePages, Tiles, DisjointAll
  <2> QED BY <1>1, <1>3, <2>1, RunIsExtent
<1> QED BY <1>1, <1>3, <1>4, <1>5 DEF Abstract!Allocate, Abstract!Pages, Pages

\* alloc_pages returns NULL only when there is no run to hand out.
LEMMA FailIsRefuse ==
  ASSUME IInv, NEW o \in Requests, AllocFails(o)
  PROVE  Abstract!Refuse(o)
<1>1. /\ pc = "idle" /\ UNCHANGED UsedBlocks /\ ret' = [order |-> o, page |-> NULL]
  BY DEF AllocFails, pageVars, UsedBlocks
<1>2. ASSUME o \in Orders, NEW a \in Pages, Abstract!Available(a, o) PROVE FALSE
  <2>1. PICK h \in Pages, j \in o .. MAX_ORDER : <<h, j>> \in FreeBlocks
    BY <1>1, <1>2, RunIsExtent, RunIsListed
  <2> DEFINE T == {i \in o .. MAX_ORDER : free_area[i] # << >>}
  <2>2. j \in T /\ T \in SUBSET Nat /\ T \subseteq Orders
    BY <1>2, <2>1, SizeType DEF FreeBlocks, Orders, Range
  <2>3. PICK i \in T : \A m \in T : i <= m
    BY <2>2, LeastNat
  <2>4. FirstNonEmpty(o, i)
    <3>1. \A m \in o .. (i - 1) : m \in o .. MAX_ORDER /\ ~ (i <= m)
      BY <1>2, <2>2, <2>3, SizeType DEF Orders
    <3> QED BY <2>3, <3>1 DEF FirstNonEmpty
  <2> QED BY <2>2, <2>3, <2>4 DEF AllocFails
<1> QED BY <1>1, <1>2 DEF Abstract!Refuse, Abstract!Pages, Pages, Abstract!Orders, Orders

\* free_pages past its early return gives back the one block of that page.
LEMMA FreeIsRelease ==
  ASSUME IInv, NEW p \in Pages, FreeCall(p)
  PROVE  <<p, order[p]>> \in UsedBlocks /\ Abstract!Release(<<p, order[p]>>)
<1>1. /\ refcount[p] # 0 /\ order' = order /\ ret' = ret
      /\ refcount' = [refcount EXCEPT ![p] = 0]
  BY DEF FreeCall
<1>2. order[p] \in Orders /\ refcount[p] = 1
  BY <1>1 DEF IInv, TypeOK, PagesTypeOK
<1>3. <<p, order[p]>> \in UsedBlocks
  BY <1>2 DEF UsedBlocks
<1>4. UsedBlocks' = UsedBlocks \ {<<p, order[p]>>}
  <2>1. \A q \in Pages, j \in Orders :
          <<q, j>> \in UsedBlocks' <=> <<q, j>> \in UsedBlocks \ {<<p, order[p]>>}
    BY <1>1, <1>2 DEF UsedBlocks, IInv, TypeOK, PagesTypeOK
  <2>2. UsedBlocks' \subseteq Pages \X Orders /\ UsedBlocks \subseteq Pages \X Orders
    BY DEF UsedBlocks
  <2> QED BY <2>1, <2>2
<1> QED BY <1>1, <1>3, <1>4 DEF Abstract!Release

\* Seen from its callers the allocator is the abstract one: every step of its
\* code is a step of PageAllocator or changes nothing that a caller sees.
THEOREM ImplementsAbstract == Spec => ImplementsPageAllocator
<1>1. IInv /\ [Next]_vars => [Abstract!Next]_(Abstract!vars)
  <2> SUFFICES ASSUME IInv, [Next]_vars
               PROVE  Abstract!Next \/ UNCHANGED <<UsedBlocks, ret>>
    BY DEF Abstract!vars
  <2>1. CASE Split \/ Merge \/ FreeReturn \/ (\E o \in Requests : AllocFound(o))
    BY <2>1, HiddenSteps
  <2>2. CASE AllocReturn
    BY <2>2, ReturnIsAllocate DEF Abstract!Next, Abstract!Orders, Orders
  <2>3. ASSUME NEW o \in Requests, AllocFails(o) PROVE Abstract!Next
    BY <2>3, FailIsRefuse DEF Abstract!Next, Requests
  <2>4. ASSUME NEW p \in Pages, FreeCall(p) PROVE Abstract!Next
    BY <2>4, FreeIsRelease DEF Abstract!Next
  <2>5. CASE UNCHANGED vars
    BY <2>5 DEF vars, pageVars, UsedBlocks
  <2> QED BY <2>1, <2>2, <2>3, <2>4, <2>5 DEF Next, Running
<1> QED
  BY <1>1, InitIsAbstract, Inductive, PTL DEF Spec, ImplementsPageAllocator, Abstract!Spec
=============================================================================
