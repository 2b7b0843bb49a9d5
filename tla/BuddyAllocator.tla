---------------------------- MODULE BuddyAllocator ----------------------------
(***************************************************************************)
(* alloc_pages and free_pages of ex31/main.cpp. Each turn of the while     *)
(* loop of a call is a step, so the invariants also speak of the states    *)
(* between two turns. A caller may pass free_pages any page, held or not:  *)
(* a page with refcount 0 makes it return at once and changes nothing, as  *)
(* NULL does, which the model leaves to stuttering.                        *)
(***************************************************************************)
EXTENDS BuddyPages

VARIABLES
  pc,      \* "idle", or the loop being run: "split" (alloc) or "merge" (free)
  req,     \* alloc_pages: the argument order
  tmp_i,   \* alloc_pages: the order of the list being split
  page,    \* free_pages: the block being merged
  ret      \* the last alloc_pages: its argument and what it returned

callVars == <<pc, req, tmp_i, page>>
vars == <<pageVars, callVars, ret>>

Requests == 0 .. (MAX_ORDER + 1)

Init ==
  /\ InitPages
  /\ pc = "idle"
  /\ req = 0
  /\ tmp_i = 0
  /\ page = NULL
  /\ ret = [order |-> MAX_ORDER + 1, page |-> NULL]

-----------------------------------------------------------------------------
(* alloc_pages *)

\* Mutant: the search starts one order above the request.
FirstNonEmpty_SkipsRequested(o, i) ==
  /\ i \in (o + 1) .. MAX_ORDER
  /\ free_area[i] # << >>
  /\ \A j \in (o + 1) .. (i - 1) : free_area[j] = << >>

\* The first order from o upwards whose list is not empty is i.
FirstNonEmpty(o, i) ==
  /\ i \in o .. MAX_ORDER
  /\ free_area[i] # << >>
  /\ \A j \in o .. (i - 1) : free_area[j] = << >>

\* The for loop finds a list to take from.
AllocFound(o) ==
  /\ pc = "idle"
  /\ \E i \in Orders : FirstNonEmpty(o, i) /\ tmp_i' = i
  /\ pc' = "split"
  /\ req' = o
  /\ UNCHANGED <<pageVars, page, ret>>

\* The for loop runs off the end: return NULL.
AllocFails(o) ==
  /\ pc = "idle"
  /\ \A i \in Orders : ~ FirstNonEmpty(o, i)
  /\ ret' = [order |-> o, page |-> NULL]
  /\ UNCHANGED <<pageVars, callVars>>

\* Mutant: the halves are pushed in the other order.
PushHalves_Swapped(tmp_page, buddy, list) ==
  push_front(buddy, push_front(tmp_page, list))

\* The buddy goes on the lower list first, the block still to be split on
\* top of it, where the next turn of the loop takes it off again.
PushHalves(tmp_page, buddy, list) ==
  push_front(tmp_page, push_front(buddy, list))

\* while (tmp_i > order): halve the front block of list tmp_i. Only the
\* buddy's fields are written; the block in front keeps a stale order.
Split ==
  /\ pc = "split"
  /\ tmp_i > req
  /\ LET tmp_page == Head(free_area[tmp_i])
         k        == tmp_i - 1
         buddy    == get_buddy(tmp_page, k)
     IN  /\ order' = [order EXCEPT ![buddy] = k]
         /\ refcount' = [refcount EXCEPT ![buddy] = 0]
         /\ free_area' = [free_area EXCEPT
                            ![tmp_i] = Tail(@),
                            ![k] = PushHalves(tmp_page, buddy, @)]
         /\ tmp_i' = k
  /\ UNCHANGED <<pc, req, page, ret>>

\* alloced_pages->order = order.
TakeFront(head) == order' = [order EXCEPT ![head] = req]

\* The front block of the requested order is marked used and returned.
AllocReturn ==
  /\ pc = "split"
  /\ tmp_i = req
  /\ LET head == Head(free_area[req])
     IN  /\ TakeFront(head)
         /\ refcount' = [refcount EXCEPT ![head] = 1]
         /\ free_area' = [free_area EXCEPT ![req] = Tail(@)]
         /\ ret' = [order |-> req, page |-> head]
  /\ pc' = "idle"
  /\ UNCHANGED <<req, tmp_i, page>>

-----------------------------------------------------------------------------
(* free_pages *)

\* Past the early return: the page heads a block in use.
FreeCall(p) ==
  /\ pc = "idle"
  /\ refcount[p] # 0
  /\ refcount' = [refcount EXCEPT ![p] = 0]
  /\ page' = p
  /\ pc' = "merge"
  /\ UNCHANGED <<order, free_area, req, tmp_i, ret>>

\* Mutants: a test is forgotten, or there is no merging at all.
Mergeable_PastTop(p) ==
  /\ order[p] <= MAX_ORDER
  /\ LET buddy == get_buddy(p, order[p])
     IN  /\ order[buddy] = order[p]
         /\ refcount[buddy] = 0
Mergeable_AnyOrder(p) ==
  /\ order[p] < MAX_ORDER
  /\ refcount[get_buddy(p, order[p])] = 0
Mergeable_Never(p) == FALSE

\* The loop goes round: below MAX_ORDER, and the buddy has the same order
\* and is not in use.
Mergeable(p) ==
  /\ order[p] < MAX_ORDER
  /\ LET buddy == get_buddy(p, order[p])
     IN  /\ order[buddy] = order[p]
         /\ refcount[buddy] = 0

\* Mutant: the loop forgets to grow the merged block.
Grow_Forgotten(head) == order' = order

\* page->order++ on the lower half.
Grow(head) == order' = [order EXCEPT ![head] = @ + 1]

\* One turn: the buddy leaves its list, the lower half stands for both.
Merge ==
  /\ pc = "merge"
  /\ Mergeable(page)
  /\ LET k     == order[page]
         buddy == get_buddy(page, k)
         head  == IF page > buddy THEN buddy ELSE page
     IN  /\ free_area' = [free_area EXCEPT ![k] = remove(buddy, @)]
         /\ page' = head
         /\ Grow(head)
  /\ UNCHANGED <<refcount, pc, req, tmp_i, ret>>

FreeReturn ==
  /\ pc = "merge"
  /\ ~ Mergeable(page)
  /\ free_area' = [free_area EXCEPT ![order[page]] = push_front(page, @)]
  /\ pc' = "idle"
  /\ page' = NULL
  /\ UNCHANGED <<order, refcount, req, tmp_i, ret>>

-----------------------------------------------------------------------------
Running == Split \/ AllocReturn \/ Merge \/ FreeReturn

Next ==
  \/ \E o \in Requests : AllocFound(o) \/ AllocFails(o)
  \/ \E p \in Pages : FreeCall(p)
  \/ Running

\* A call runs to its end; nothing obliges a caller to make one.
Fairness == WF_vars(Running)

Spec == Init /\ [][Next]_vars
FairSpec == Spec /\ Fairness

-----------------------------------------------------------------------------
(* Properties *)

TypeOK ==
  /\ PagesTypeOK
  /\ pc \in {"idle", "split", "merge"}
  /\ req \in Requests
  /\ tmp_i \in Orders
  /\ page \in Pages \cup {NULL}
  /\ ret \in [order : Requests, page : Pages \cup {NULL}]

InHand == {b \in Pages \X Orders : pc = "merge" /\ b[1] = page /\ order[page] = b[2]}
Blocks == FreeBlocks \cup UsedBlocks \cup InHand

\* Free blocks, used blocks and the block free_pages holds in its hand tile
\* mem_map in every state, loop turns of alloc_pages and free_pages included:
\* no page is handed out twice, none is lost.
BlocksTilePages == Tiles(Blocks)

\* The block alloc_pages is splitting: on top of list tmp_i, its page.order
\* still that of the block it was cut from.
StaleTop(p, k) == pc = "split" /\ k = tmp_i /\ p = Head(free_area[k])

\* Every free list holds each block once, and free_pages can trust the order
\* and refcount of a listed page, which it reads instead of the list.
FreeListsSound ==
  \A k \in Orders :
    /\ Distinct(free_area[k])
    /\ \A p \in Range(free_area[k]) :
         /\ refcount[p] = 0
         /\ order[p] = k \/ StaleTop(p, k)

\* Two free buddies never stay apart: free_pages merges as far as it can and
\* alloc_pages leaves no pair behind. Without it large requests would fail
\* on memory that is free.
FreeBuddiesMerged ==
  \A k \in 0 .. (MAX_ORDER - 1) : \A p \in Range(free_area[k]) :
    LET b == get_buddy(p, k)
    IN  b \in Range(free_area[k]) => StaleTop(p, k) \/ StaleTop(b, k)

\* The dump at the end of main(): once everything is freed, free_area is as
\* main() built it, whole blocks of MAX_ORDER only.
AllFreedRestores ==
  (pc = "idle" /\ \A p \in Pages : refcount[p] = 0) =>
    /\ \A k \in 0 .. (MAX_ORDER - 1) : free_area[k] = << >>
    /\ Len(free_area[MAX_ORDER]) * BlockSize[MAX_ORDER] = NUM_PAGES

\* Seen from its callers the allocator is the abstract one: alloc_pages gives
\* aligned pages nobody holds and returns NULL only if there are none,
\* free_pages gives back one block and disturbs no other.
Abstract == INSTANCE PageAllocator WITH held <- UsedBlocks
ImplementsPageAllocator == Abstract!Spec

\* Both while loops end: every call returns.
CallsReturn == (pc # "idle") ~> (pc = "idle")
=============================================================================
