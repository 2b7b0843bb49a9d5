------------------------------ MODULE MCRunQueue ------------------------------
EXTENDS RunQueue
=============================================================================
