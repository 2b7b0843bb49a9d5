----------------------------- MODULE FrameBuffer -----------------------------
(***************************************************************************)
(* display_video and video_bmp_display of ex52: a frame is copied, row by  *)
(* row, to the middle of the frame buffer, and each row is flushed from    *)
(* the data cache, as the display reads memory behind it. The cache may    *)
(* also write back by itself any line that is dirty.                       *)
(*                                                                         *)
(* Addresses are numbers of pixels, from FB_BASE, where a line begins.     *)
(***************************************************************************)
EXTENDS Integers

CONSTANTS
  FB_WIDTH, FB_HEIGHT,   \* of the frame buffer
  LINE,                  \* CACHE_BLOCK_SIZE, in pixels
  Sizes,                 \* widths and heights of images: at most those
  FRAME_COUNT

VARIABLES
  size,            \* the arguments width and height
  f,               \* display_video's counter
  pc,              \* what the kernel executes
  y, line,         \* the counters of the two loops
  memory, view,    \* what the display sees, and what the kernel sees
  dirty            \* the lines of the cache that memory may lack

vars == <<size, f, pc, y, line, memory, view, dirty>>

Pixels == 0 .. (FB_WIDTH * FB_HEIGHT - 1)
BLANK == <<-1, -1>>
width == size[1]
height == size[2]

Init ==
  /\ size \in Sizes
  /\ f = 0
  /\ pc = "memcpy"
  /\ y = 0
  /\ line = 0
  /\ memory = [p \in Pixels |-> BLANK]
  /\ view = memory
  /\ dirty = {}

\* A line is written to memory.
Written(l) ==
  [p \in Pixels |-> IF p \div LINE = l THEN view[p] ELSE memory[p]]

\* The cache evicts a line.
WriteBack ==
  /\ \E l \in dirty : memory' = Written(l) /\ dirty' = dirty \ {l}
  /\ UNCHANGED <<size, f, pc, y, line, view>>

-----------------------------------------------------------------------------
start_x == (FB_WIDTH - width) \div 2
start_y == (FB_HEIGHT - height) \div 2

\* Where row y goes
dst == (start_y + y) * FB_WIDTH + start_x

\* The first line of flush_dcache's loop: its address is rounded down.
FirstLine(addr) == addr \div LINE

\* memcpy of a row; pixel n of frame f is called <<f, n>>.
CopyRow ==
  /\ pc = "memcpy"
  /\ LET row == dst .. (dst + width - 1)
     IN  /\ view' = [p \in Pixels |->
                       IF p \in row THEN <<f, y * width + (p - dst)>> ELSE view[p]]
         /\ dirty' = dirty \cup {p \div LINE : p \in row}
  /\ line' = FirstLine(dst)
  /\ pc' = "flush_dcache"
  /\ UNCHANGED <<size, f, y, memory>>

\* Mutant: as many lines as the row fills, from the first one on.
LineInRow_Count == line < FirstLine(dst) + (width + LINE - 1) \div LINE

\* The condition of that loop, line < addr + len
LineInRow == line * LINE < dst + width

\* A turn of flush_dcache's loop
FlushLine ==
  /\ pc = "flush_dcache"
  /\ LineInRow
  /\ memory' = Written(line)
  /\ dirty' = dirty \ {line}
  /\ line' = line + 1
  /\ UNCHANGED <<size, f, pc, y, view>>

\* The end of that loop, and of the turn of video_bmp_display's loop
NextRow ==
  /\ pc = "flush_dcache"
  /\ ~LineInRow
  /\ y' = y + 1
  /\ pc' = IF y' < height THEN "memcpy" ELSE "usleep"
  /\ UNCHANGED <<size, f, line, memory, view, dirty>>

\* display_video goes on to the next frame, and round and round.
NextFrame ==
  /\ pc = "usleep"
  /\ f' = (f + 1) % FRAME_COUNT
  /\ y' = 0
  /\ pc' = "memcpy"
  /\ UNCHANGED <<size, line, memory, view, dirty>>

Next == WriteBack \/ CopyRow \/ FlushLine \/ NextRow \/ NextFrame

Spec == Init /\ [][Next]_vars

-----------------------------------------------------------------------------
(* Properties *)

\* What a display shows at column x of row r: frame f in the middle
Centred(r, x) ==
  LET inner == /\ x \in start_x .. (start_x + width - 1)
               /\ r \in start_y .. (start_y + height - 1)
  IN  IF inner THEN <<f, (r - start_y) * width + (x - start_x)>> ELSE BLANK

\* While the kernel sleeps, all of the frame is in memory, although a row may
\* begin and end anywhere in a line and lines may have been written back half
\* copied; nothing of an earlier frame is left, and nothing else is touched.
FrameShown ==
  pc = "usleep" =>
    \A r \in 0 .. (FB_HEIGHT - 1), x \in 0 .. (FB_WIDTH - 1) :
      memory[r * FB_WIDTH + x] = Centred(r, x)
=============================================================================
