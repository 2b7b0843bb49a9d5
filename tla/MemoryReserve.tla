----------------------------- MODULE MemoryReserve -----------------------------
(***************************************************************************)
(* memory_reserve of ex32/main.cpp: a byte range is taken out of the free  *)
(* lists block by block. Each turn of its while loop is a step, and so is  *)
(* each turn of the loop inside that looks for the order of the next       *)
(* block. mm_init makes one call, for the kernel; ex32/README.md:25-29     *)
(* lists the regions further calls are for, so calls follow one another    *)
(* here, with any non-empty ranges of Regions.                             *)
(***************************************************************************)
EXTENDS BuddyPages

CONSTANTS
  PAGE_SIZE,
  Regions    \* the ranges a call may be given, pairs of base and size

ASSUME RegionsAssumption ==
  /\ PAGE_SIZE \in Nat \ {0}
  /\ Regions \subseteq Nat \X (Nat \ {0})

VARIABLES
  pc,          \* "idle", "scan" (outer loop), "order" (inner), or why the
               \* program ended: "not_found", "error_order"
  start_pfn,   \* the first page still to be reserved
  end_pfn,     \* the last one
  cur_order,   \* the local variable order
  cur_base,    \* the local variable base of the inner loop
  asked,       \* history: the pages the calls were asked for
  before       \* history: those of the calls before the last one

callVars == <<pc, start_pfn, end_pfn, cur_order, cur_base>>
vars == <<pageVars, callVars, asked, before>>

TopSize == BlockSize[MAX_ORDER]

\* The pages of mem_map that a range has a byte of.
Touched(r) ==
  {p \in Pages : p * PAGE_SIZE < r[1] + r[2] /\ r[1] < (p + 1) * PAGE_SIZE}

Init ==
  /\ InitPages
  /\ pc = "idle"
  /\ start_pfn = 0
  /\ end_pfn = 0
  /\ cur_order = MAX_ORDER
  /\ cur_base = 0
  /\ asked = {}
  /\ before = {}

-----------------------------------------------------------------------------
\* Mutants: the end of the range is taken for its last byte, or a page the
\* range only begins is left out.
LastPfn_NoMinusOne(r) == (r[1] + r[2]) \div PAGE_SIZE
LastPfn_WholePages(r) == (r[1] + r[2]) \div PAGE_SIZE - 1

\* end_pfn, included.
LastPfn(r) == (r[1] + r[2] - 1) \div PAGE_SIZE

Call(r) ==
  /\ pc = "idle"
  /\ start_pfn' = r[1] \div PAGE_SIZE
  /\ end_pfn' = LastPfn(r)
  /\ cur_order' = MAX_ORDER
  /\ pc' = "scan"
  /\ asked' = asked \cup Touched(r)
  /\ before' = asked
  /\ UNCHANGED <<pageVars, cur_base>>

\* page_order_head_pfn: the block of cur_order that start_pfn lies in.
Head_pfn == start_pfn - (start_pfn % BlockSize[cur_order])
Listed == Head_pfn \in Range(free_area[cur_order])

\* Mutant: the last page of the block has to lie before end_pfn.
FullOverlap_Strict ==
  /\ Head_pfn = start_pfn
  /\ end_pfn > Head_pfn + BlockSize[cur_order] - 1

FullOverlap ==
  /\ Head_pfn = start_pfn
  /\ end_pfn >= Head_pfn + BlockSize[cur_order] - 1

\* Mutant: the order of the last block is kept inside a top block.
AfterBlock_KeepOrder(next) ==
  /\ pc' = IF next > end_pfn THEN "idle" ELSE "scan"
  /\ cur_order' = IF next % TopSize = 0 THEN MAX_ORDER ELSE cur_order
  /\ UNCHANGED cur_base

\* Where the loop goes on from page next: it ends past end_pfn, starts from
\* MAX_ORDER in a new top block, and looks for an order in the current one.
AfterBlock(next) ==
  \/ /\ next > end_pfn
     /\ pc' = "idle"
     /\ UNCHANGED <<cur_order, cur_base>>
  \/ /\ next <= end_pfn
     /\ next % TopSize = 0
     /\ pc' = "scan"
     /\ cur_order' = MAX_ORDER
     /\ UNCHANGED cur_base
  \/ /\ next <= end_pfn
     /\ next % TopSize # 0
     /\ pc' = "order"
     /\ cur_order' = MAX_ORDER - 1
     /\ cur_base' = 0

\* A free block wholly inside the range becomes a block in use.
ReserveBlock ==
  /\ pc = "scan"
  /\ Listed
  /\ FullOverlap
  /\ refcount' = [refcount EXCEPT ![Head_pfn] = 1]
  /\ order' = [order EXCEPT ![Head_pfn] = cur_order]
  /\ free_area' = [free_area EXCEPT ![cur_order] = remove(Head_pfn, @)]
  /\ start_pfn' = Head_pfn + BlockSize[cur_order]
  /\ AfterBlock(Head_pfn + BlockSize[cur_order])
  /\ UNCHANGED <<end_pfn, asked, before>>

\* Mutant: the block stays in its list.
Demote_Unremoved(head, k) ==
  [free_area EXCEPT ![k - 1] = push_front(head, push_front(get_buddy(head, k - 1), @))]

\* Both halves of the block go to the list below.
Demote(head, k) ==
  [free_area EXCEPT
     ![k] = remove(head, @),
     ![k - 1] = push_front(head, push_front(get_buddy(head, k - 1), @))]

\* A free block partly inside the range is split. The test that ends the
\* outer loop follows the split too.
SplitBlock ==
  /\ pc = "scan"
  /\ Listed
  /\ ~ FullOverlap
  /\ Head_pfn < start_pfn \/ end_pfn < Head_pfn + BlockSize[cur_order] - 1
  /\ LET k == cur_order - 1
     IN  /\ order' = [order EXCEPT ![Head_pfn] = k, ![get_buddy(Head_pfn, k)] = k]
         /\ cur_order' = k
  /\ free_area' = Demote(Head_pfn, cur_order)
  /\ pc' = IF start_pfn > end_pfn THEN "idle" ELSE "scan"
  /\ UNCHANGED <<refcount, start_pfn, end_pfn, cur_base, asked, before>>

\* "Not found!": the program prints where it is and exits.
NotFound ==
  /\ pc = "scan"
  /\ ~ Listed
  /\ pc' = "not_found"
  /\ UNCHANGED <<pageVars, start_pfn, end_pfn, cur_order, cur_base, asked, before>>

Offset == start_pfn % TopSize

\* The inner loop has built the offset of start_pfn in its top block out of
\* ever smaller orders; the last one is the order to go on with.
FoundOrder ==
  /\ pc = "order"
  /\ Offset = cur_base + BlockSize[cur_order]
  /\ pc' = "scan"
  /\ UNCHANGED <<pageVars, start_pfn, end_pfn, cur_order, cur_base, asked, before>>

\* Mutant: base always grows.
NextBase_Always == cur_base + BlockSize[cur_order]

NextBase ==
  IF Offset > cur_base + BlockSize[cur_order]
  THEN cur_base + BlockSize[cur_order]
  ELSE cur_base

LowerOrder ==
  /\ pc = "order"
  /\ Offset # cur_base + BlockSize[cur_order]
  /\ cur_base' = NextBase
  /\ IF cur_order = 0
     THEN pc' = "error_order" /\ cur_order' = cur_order
     ELSE pc' = pc /\ cur_order' = cur_order - 1
  /\ UNCHANGED <<pageVars, start_pfn, end_pfn, asked, before>>

-----------------------------------------------------------------------------
Running == ReserveBlock \/ SplitBlock \/ NotFound \/ FoundOrder \/ LowerOrder

Next == (\E r \in Regions : Call(r)) \/ Running

Fairness == WF_vars(Running)

Spec == Init /\ [][Next]_vars
FairSpec == Spec /\ Fairness

-----------------------------------------------------------------------------
(* Properties *)

TypeOK ==
  /\ PagesTypeOK
  /\ pc \in {"idle", "scan", "order", "not_found", "error_order"}
  /\ start_pfn \in Nat
  /\ end_pfn \in Nat
  /\ cur_order \in Orders
  /\ cur_base \in Nat /\ (pc = "order" => cur_base <= Offset)
  /\ asked \subseteq Pages
  /\ before \subseteq Pages

Blocks == FreeBlocks \cup UsedBlocks

\* Free and reserved blocks tile mem_map after every turn of the loop.
BlocksTilePages == Tiles(Blocks)

\* A listed page has refcount 0 and the order of its list, and is listed once:
\* what alloc_pages and free_pages will rely on once mm_init is done.
FreeListsSound ==
  \A k \in Orders :
    /\ Distinct(free_area[k])
    /\ \A p \in Range(free_area[k]) : refcount[p] = 0 /\ order[p] = k

Reserved == {p \in Pages : \E b \in UsedBlocks : p \in Extent(b)}
Remaining == IF pc = "idle" THEN {} ELSE start_pfn .. end_pfn

\* Exactly the pages asked for are reserved, whatever the byte boundaries:
\* all of them when a call returns, and before that all but the pages from
\* start_pfn on, also when the program exits in the middle of a call.
ReservedExactly ==
  Reserved = before \cup (asked \ Remaining)

\* The halves of a split block are not both left free once a call is over:
\* a reservation breaks no more blocks than it has to.
NoNeedlessSplit ==
  pc \in {"idle", "not_found"} =>
    \A k \in 0 .. (MAX_ORDER - 1) : \A p \in Range(free_area[k]) :
      get_buddy(p, k) \notin Range(free_area[k])

SameTop(p, q) == p \div TopSize = q \div TopSize

\* The only way a call aborts: it gets to a top block that an earlier call
\* has reserved a page of, or past the end of mem_map. In particular the
\* inner loop always finds an order and mm_init's call never aborts.
AbortsOnlyOnTouched ==
  /\ pc # "error_order"
  /\ pc = "not_found" =>
       \/ start_pfn >= NUM_PAGES
       \/ \E p \in before : SameTop(p, start_pfn)

\* Both loops end.
CallsEnd == (pc \in {"scan", "order"}) ~> (pc \in {"idle", "not_found"})

\* ex32/README.md:17-18: a free block outside the range is passed over and
\* the scan goes on to the next, so no call gives up on a page that is free.
NeverGivesUpOnFreePage ==
  pc = "not_found" => start_pfn >= NUM_PAGES \/ start_pfn \in before
=============================================================================
