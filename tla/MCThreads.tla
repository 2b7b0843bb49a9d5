------------------------------ MODULE MCThreads ------------------------------
EXTENDS Threads
=============================================================================
