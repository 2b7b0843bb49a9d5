------------------------------ MODULE PolledUart ------------------------------
(***************************************************************************)
(* The polled UART of ex11, and that of uart.c, which ex12, ex41, ex61 and *)
(* ex62 share: start_kernel sends its banner and then echoes what it       *)
(* receives. A register is polled in one step and accessed in the next,    *)
(* and the device goes on in between.                                      *)
(***************************************************************************)
EXTENDS Naturals, Sequences, SequencesExt

CONSTANTS
  Banner,        \* what start_kernel sends first
  Keys,          \* characters typed
  CHARS,         \* bound: characters the receiver takes
  RX_CAPACITY    \* characters the receiver holds

VARIABLES
  version,    \* "ex11", or "uart.c"
  pc,         \* what the kernel executes
  out,        \* what the calls of uart_putc in progress have still to send
  rx,         \* characters in the receiver
  thr,        \* the transmitter's holding register: at most one character
  received,   \* history: characters that the receiver has taken
  sent        \* history: characters that have left the transmitter

vars == <<version, pc, out, rx, thr, received, sent>>

CR == "\r"
LF == "\n"

\* What uart_getc returns for a character read
Got(c) == IF version = "uart.c" /\ c = CR THEN LF ELSE c

\* What uart_putc sends for a character: its call of itself comes last in ex11,
\* and first in uart.c.
Puts(c) ==
  IF c = (IF version = "uart.c" THEN LF ELSE CR) THEN <<CR, LF>> ELSE <<c>>

\* What uart_puts sends for a string
PutsAll(s) == FlattenSeq([n \in DOMAIN s |-> Puts(s[n])])

Init ==
  /\ version \in {"ex11", "uart.c"}
  /\ pc = "poll_transmitter"
  /\ out = PutsAll(Banner)
  /\ rx = << >>
  /\ thr = << >>
  /\ received = << >>
  /\ sent = << >>

-----------------------------------------------------------------------------
(* The device *)

\* A key is pressed, and the receiver has room for the character.
Receive ==
  /\ Len(received) < CHARS
  /\ Len(rx) < RX_CAPACITY
  /\ \E c \in Keys : rx' = Append(rx, c) /\ received' = Append(received, c)
  /\ UNCHANGED <<version, pc, out, thr, sent>>

Transmit ==
  /\ thr # << >>
  /\ sent' = sent \o thr
  /\ thr' = << >>
  /\ UNCHANGED <<version, pc, out, rx, received>>

-----------------------------------------------------------------------------
(* The kernel *)

\* Mutant: the transmitter is not polled.
TransmitterReady_Always == TRUE

\* LSR & LSR_TDRQ, LSR & LSR_DR
TransmitterReady == thr = << >>
ReceiverReady == rx # << >>

\* The end of a polling loop of uart_getc or uart_putc
Poll ==
  /\ \/ pc = "poll_receiver" /\ ReceiverReady /\ pc' = "read"
     \/ pc = "poll_transmitter" /\ TransmitterReady /\ pc' = "write"
  /\ UNCHANGED <<version, out, rx, thr, received, sent>>

\* uart_putc(uart_getc()) from the read of UART_RBR up to the next poll
uart_getc ==
  /\ pc = "read"
  /\ out' = Puts(Got(Head(rx)))
  /\ rx' = Tail(rx)
  /\ pc' = "poll_transmitter"
  /\ UNCHANGED <<version, thr, received, sent>>

\* The write to UART_THR: a character still there is overwritten.
uart_putc ==
  /\ pc = "write"
  /\ thr' = <<Head(out)>>
  /\ out' = Tail(out)
  /\ pc' = IF out' = << >> THEN "poll_receiver" ELSE "poll_transmitter"
  /\ UNCHANGED <<version, rx, received, sent>>

Kernel == Poll \/ uart_getc \/ uart_putc

Next == Receive \/ Transmit \/ Kernel

\* The kernel executes and the transmitter sends; nobody has to type.
Fairness == WF_vars(Kernel) /\ WF_vars(Transmit)

Spec == Init /\ [][Next]_vars /\ Fairness

-----------------------------------------------------------------------------
(* Properties *)

\* What a terminal is to get for a key: the return key, and a line feed but in
\* ex11, begins a new line, which takes two characters.
Shown(c) ==
  IF c = CR \/ (c = LF /\ version = "uart.c") THEN <<CR, LF>> ELSE <<c>>

\* What is to be sent for the banner and the first n characters received
Echo(n) ==
  PutsAll(Banner) \o FlattenSeq([m \in 1 .. n |-> Shown(received[m])])

Echoed(n) == Len(received) >= n /\ IsPrefix(Echo(n), sent)

\* ex11/README.md, "Expected Result": every character that the receiver took is
\* sent back behind the banner and the earlier ones, each line end as two
\* characters, whatever the device does between a poll and the access after it.
EchoesAll ==
  \A n \in 0 .. CHARS : Len(received) >= n ~> Echoed(n)
=============================================================================
