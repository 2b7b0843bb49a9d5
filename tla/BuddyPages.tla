------------------------------ MODULE BuddyPages ------------------------------
(***************************************************************************)
(* The data both page allocators of the repository share: mem_map, an      *)
(* array of struct page, and free_area, one std::list of free blocks for   *)
(* every order (ex31/main.cpp and ex32/main.cpp declare them identically). *)
(* A page is its index in mem_map; NULL is the null pointer.               *)
(***************************************************************************)
EXTENDS Integers, Sequences, Functions

CONSTANTS
  NUM_PAGES,   \* length of mem_map
  MAX_ORDER,   \* the largest order; free_area has MAX_ORDER + 1 lists
  BlockSize,   \* BlockSize[k] is 1 << k, the pages of a block of order k
  NULL         \* the null page pointer

Pages == 0 .. (NUM_PAGES - 1)
Orders == 0 .. MAX_ORDER

\* What the code relies on of its shifts: sizes double, a smaller block fits
\* a larger one a whole number of times, and mem_map is whole top blocks.
ASSUME SizesAssumption ==
  /\ MAX_ORDER \in Nat
  /\ BlockSize \in [Orders -> Nat \ {0}]
  /\ BlockSize[0] = 1
  /\ \A k \in 0 .. (MAX_ORDER - 1) : BlockSize[k + 1] = 2 * BlockSize[k]
  /\ \A k \in Orders : \A j \in 0 .. k :
       \E m \in 1 .. BlockSize[k] : BlockSize[k] = m * BlockSize[j]

ASSUME PagesAssumption ==
  /\ NUM_PAGES \in Nat \ {0}
  /\ \E n \in 1 .. NUM_PAGES : NUM_PAGES = n * BlockSize[MAX_ORDER]
  /\ NULL \notin Pages

VARIABLES
  order,       \* page.order, for every page of mem_map
  refcount,    \* page.refcount, 1 while the page heads a block in use
  free_area    \* free_area[k], the list of heads of free blocks of order k

pageVars == <<order, refcount, free_area>>

-----------------------------------------------------------------------------
\* Blocks: pairs of a head page and an order.

\* page is the first page of a block of this order: a multiple of its size.
Aligned(page, k) == \E q \in Pages : page = q * BlockSize[k]

\* mem_map index with the bit of 1 << order flipped.
get_buddy(page, k) ==
  IF (page \div BlockSize[k]) % 2 = 0
  THEN page + BlockSize[k]
  ELSE page - BlockSize[k]

Extent(b) == b[1] .. (b[1] + BlockSize[b[2]] - 1)

FreeBlocks == {b \in Pages \X Orders : b[1] \in Range(free_area[b[2]])}
UsedBlocks == {b \in Pages \X Orders : refcount[b[1]] = 1 /\ order[b[1]] = b[2]}

-----------------------------------------------------------------------------
\* std::list operations on free_area.

push_front(page, list) == <<page>> \o list

\* list.remove(page). It drops every element equal to page; the lists hold a
\* page at most once (FreeListsSound), so dropping one occurrence is the same.
remove(page, list) ==
  IF page \in Range(list)
  THEN LET i == CHOOSE i \in DOMAIN list : list[i] = page
       IN  [j \in 1 .. (Len(list) - 1) |-> IF j < i THEN list[j] ELSE list[j + 1]]
  ELSE list

-----------------------------------------------------------------------------
\* The state main() of ex31 and mm_init() of ex32 build: every MAX_ORDER'th
\* page heads a free block of MAX_ORDER, all other fields keep their zero.

InitPages ==
  /\ order = [p \in Pages |-> IF Aligned(p, MAX_ORDER) THEN MAX_ORDER ELSE 0]
  /\ refcount = [p \in Pages |-> 0]
  /\ free_area = [k \in Orders |->
       IF k = MAX_ORDER
       THEN [i \in 1 .. (NUM_PAGES \div BlockSize[MAX_ORDER]) |->
               (i - 1) * BlockSize[MAX_ORDER]]
       ELSE << >>]

PagesTypeOK ==
  /\ order \in [Pages -> Orders]
  /\ refcount \in [Pages -> {0, 1}]
  /\ free_area \in [Orders -> Seq(Pages)]

-----------------------------------------------------------------------------
\* Structural facts the allocators are judged by.

AlignedAll(B) == \A b \in B : Aligned(b[1], b[2])
DisjointAll(B) == \A b, c \in B : b # c => Extent(b) \cap Extent(c) = {}
CoversPages(B) == \A p \in Pages : \E b \in B : p \in Extent(b)

\* The blocks of B tile mem_map.
Tiles(B) == AlignedAll(B) /\ DisjointAll(B) /\ CoversPages(B)

Distinct(list) ==
  \A i, j \in DOMAIN list : list[i] = list[j] => i = j
=============================================================================
