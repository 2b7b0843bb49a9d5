----------------------------- MODULE MCTrapEntry -----------------------------
EXTENDS TrapEntry
=============================================================================
