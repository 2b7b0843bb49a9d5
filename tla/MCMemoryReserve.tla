--------------------------- MODULE MCMemoryReserve ---------------------------
EXTENDS MemoryReserve

\* 1 << k
MCBlockSize == [k \in 0 .. MAX_ORDER |-> 2 ^ k]

\* All ranges of bytes that begin in the first of two top blocks, with ends on
\* and off page borders; those of the second that reach the end of mem_map;
\* and one that runs a page past it.
MCRegions ==
  LET bytes == NUM_PAGES * PAGE_SIZE
      half  == bytes \div 2
  IN  {r \in (0 .. (half - 1)) \X (1 .. bytes) : r[1] + r[2] <= bytes}
        \cup {<<b, bytes - b>> : b \in half .. (bytes - 1)}
        \cup {<<bytes - PAGE_SIZE, 2 * PAGE_SIZE>>}
=============================================================================
