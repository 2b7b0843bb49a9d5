--------------------------- MODULE MCBuddyAllocator ---------------------------
EXTENDS BuddyAllocator

\* 1 << k
MCBlockSize == [k \in 0 .. MAX_ORDER |-> 2 ^ k]
=============================================================================
