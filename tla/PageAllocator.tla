---------------------------- MODULE PageAllocator ----------------------------
(***************************************************************************)
(* What a page allocator promises its callers, with no free lists, orders  *)
(* or merging in sight: a request is answered with an aligned run of pages *)
(* that nobody holds, and is refused only when there is no such run.       *)
(***************************************************************************)
EXTENDS Integers

CONSTANTS NUM_PAGES, MAX_ORDER, BlockSize, NULL

VARIABLES
  held,   \* the blocks in use, pairs of first page and order
  ret     \* what the last allocation asked for and was given

vars == <<held, ret>>

Pages == 0 .. (NUM_PAGES - 1)
Orders == 0 .. MAX_ORDER
Run(page, k) == page .. (page + BlockSize[k] - 1)

Available(page, k) ==
  /\ page % BlockSize[k] = 0
  /\ \A b \in held : Run(page, k) \cap Run(b[1], b[2]) = {}

Init ==
  /\ held = {}
  /\ ret = [order |-> MAX_ORDER + 1, page |-> NULL]

\* A request that is met.
Allocate(k) ==
  \E page \in Pages :
    /\ Available(page, k)
    /\ held' = held \cup {<<page, k>>}
    /\ ret' = [order |-> k, page |-> page]

\* A request that is refused.
Refuse(k) ==
  /\ k \in Orders => \A page \in Pages : ~ Available(page, k)
  /\ ret' = [order |-> k, page |-> NULL]
  /\ UNCHANGED held

Release(b) ==
  /\ held' = held \ {b}
  /\ UNCHANGED ret

Next ==
  \/ \E k \in Orders : Allocate(k)
  \/ \E k \in 0 .. (MAX_ORDER + 1) : Refuse(k)
  \/ \E b \in held : Release(b)

Spec == Init /\ [][Next]_vars
=============================================================================
