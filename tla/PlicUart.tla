------------------------------- MODULE PlicUart -------------------------------
(***************************************************************************)
(* Reception of characters in ex42: the UART raises a line while a         *)
(* character waits, the gateway of the PLIC turns the line into one        *)
(* pending interrupt at a time, and the kernel, once it has configured     *)
(* both, claims the interrupt, reads a character and completes it. Between *)
(* any two accesses of the kernel to a device, characters may arrive.      *)
(*                                                                         *)
(* The program runs on hart 0, to which boot_cpu_hartid is set. What       *)
(* handle_exception does to the registers is the subject of TrapEntry;     *)
(* Interrupts puts the two together, with the fairness they need.          *)
(***************************************************************************)
EXTENDS Naturals, Sequences, SequencesExt

CONSTANTS
  UART_IRQ,      \* the number of the interrupt: 10
  CHARS,         \* bound: characters typed; a character is its number
  RX_CAPACITY    \* characters the receiver of the UART holds

VARIABLES
  pc,      \* what the kernel executes
  irq,     \* do_trap's local variable
  sie,     \* sstatus.SIE and sie.SEIE
  plic,    \* registers of the PLIC, and the state of the gateway
  uart,    \* IER bit 0, MCR bit 3
  rx,      \* characters in the receiver
  typed,   \* characters typed so far
  read     \* history: characters do_trap has read

vars == <<pc, irq, sie, plic, uart, rx, typed, read>>

\* start_kernel. Interrupts are off, and the threshold is the firmware's.
Init ==
  /\ pc = "plic_priority"
  /\ irq = 0
  /\ sie = [SIE |-> FALSE, SEIE |-> FALSE]
  /\ \E t \in {0, 7} :
       plic = [priority |-> 0, enable |-> FALSE, threshold |-> t,
               pending |-> FALSE, claimed |-> FALSE]
  /\ uart = [RDI |-> FALSE, OUT2 |-> FALSE]
  /\ rx = << >>
  /\ typed = 0
  /\ read = << >>

-----------------------------------------------------------------------------
(* The devices *)

\* A key is pressed. A character that finds the receiver full is lost.
Type ==
  /\ typed < CHARS
  /\ typed' = typed + 1
  /\ rx' = IF Len(rx) < RX_CAPACITY THEN Append(rx, typed') ELSE rx
  /\ UNCHANGED <<pc, irq, sie, plic, uart, read>>

\* The UART's interrupt output
Line == rx # << >> /\ uart.RDI /\ uart.OUT2

\* The gateway forwards the line's level, and then nothing until the interrupt
\* it has forwarded is completed.
Gateway ==
  /\ Line
  /\ ~plic.pending
  /\ ~plic.claimed
  /\ plic' = [plic EXCEPT !.pending = TRUE]
  /\ UNCHANGED <<pc, irq, sie, uart, rx, typed, read>>

\* What the PLIC offers to the hart
Offered == plic.pending /\ plic.enable /\ plic.priority > 0
ExternalInterrupt == Offered /\ plic.priority > plic.threshold

-----------------------------------------------------------------------------
(* start_kernel: one access to a device or a CSR after the other *)

\* PLIC_THRESHOLD &= 0
SetThreshold(t) == 0

plic_init ==
  /\ \/ /\ pc = "plic_priority"
        /\ plic' = [plic EXCEPT !.priority = 1]
        /\ pc' = "plic_enable"
        /\ UNCHANGED sie
     \/ /\ pc = "plic_enable"
        /\ plic' = [plic EXCEPT !.enable = TRUE]
        /\ pc' = "plic_threshold"
        /\ UNCHANGED sie
     \/ /\ pc = "plic_threshold"
        /\ plic' = [plic EXCEPT !.threshold = SetThreshold(@)]
        /\ pc' = "enable_external_interrupt"
        /\ UNCHANGED sie
     \/ /\ pc = "enable_external_interrupt"
        /\ sie' = [sie EXCEPT !.SEIE = TRUE]
        /\ pc' = "uart_ier"
        /\ UNCHANGED plic
  /\ UNCHANGED <<irq, uart, rx, typed, read>>

uart_init ==
  /\ \/ /\ pc = "uart_ier"
        /\ uart' = [uart EXCEPT !.RDI = TRUE]
        /\ pc' = "uart_mcr"
     \/ /\ pc = "uart_mcr"
        /\ uart' = [uart EXCEPT !.OUT2 = TRUE]
        /\ pc' = "irq_enable"
  /\ UNCHANGED <<irq, sie, plic, rx, typed, read>>

irq_enable ==
  /\ pc = "irq_enable"
  /\ sie' = [sie EXCEPT !.SIE = TRUE]
  /\ pc' = "loop"
  /\ UNCHANGED <<irq, plic, uart, rx, typed, read>>

-----------------------------------------------------------------------------
(* The interrupt *)

\* The hart leaves start_kernel's loop for do_trap; the trap turns SIE off.
Interrupt ==
  /\ pc = "loop"
  /\ sie.SIE
  /\ sie.SEIE
  /\ ExternalInterrupt
  /\ sie' = [sie EXCEPT !.SIE = FALSE]
  /\ pc' = "plic_claim"
  /\ UNCHANGED <<irq, plic, uart, rx, typed, read>>

\* Mutant: the interrupt is completed as it is claimed.
plic_claim_AndComplete ==
  /\ pc = "plic_claim"
  /\ irq' = IF Offered THEN UART_IRQ ELSE 0
  /\ plic' = IF Offered THEN [plic EXCEPT !.pending = FALSE] ELSE plic
  /\ pc' = "read"
  /\ UNCHANGED <<sie, uart, rx, typed, read>>

\* Reading the claim register takes the interrupt, if there is one.
plic_claim ==
  /\ pc = "plic_claim"
  /\ irq' = IF Offered THEN UART_IRQ ELSE 0
  /\ plic' = IF Offered
               THEN [plic EXCEPT !.pending = FALSE, !.claimed = TRUE]
               ELSE plic
  /\ pc' = "read"
  /\ UNCHANGED <<sie, uart, rx, typed, read>>

\* The read of UART_RBR, for the UART's interrupt only. What follows it, up to
\* the completion, is output of the trap's registers.
ReadChar ==
  /\ pc = "read"
  /\ IF irq = UART_IRQ /\ rx # << >>
       THEN rx' = Tail(rx) /\ read' = Append(read, Head(rx))
       ELSE UNCHANGED <<rx, read>>
  /\ pc' = "plic_complete"
  /\ UNCHANGED <<irq, sie, plic, uart, typed>>

\* Mutant: the claim register is not written.
Completed_Never == plic

\* What writing irq to the claim register does
Completed == IF irq # 0 THEN [plic EXCEPT !.claimed = FALSE] ELSE plic

plic_complete ==
  /\ pc = "plic_complete"
  /\ plic' = Completed
  /\ pc' = "sret"
  /\ UNCHANGED <<irq, sie, uart, rx, typed, read>>

\* ret_from_exception: back to the loop, with SIE as before the trap
sret ==
  /\ pc = "sret"
  /\ sie' = [sie EXCEPT !.SIE = TRUE]
  /\ pc' = "loop"
  /\ UNCHANGED <<irq, plic, uart, rx, typed, read>>

Kernel ==
  \/ plic_init \/ uart_init \/ irq_enable
  \/ Interrupt \/ plic_claim \/ ReadChar \/ plic_complete \/ sret

Next == Type \/ Gateway \/ Kernel

Spec == Init /\ [][Next]_vars

-----------------------------------------------------------------------------
(* Properties *)

\* Types; no interrupt before the kernel wants any, and none inside another.
TypeOK ==
  /\ pc \in {"plic_priority", "plic_enable", "plic_threshold",
             "enable_external_interrupt", "uart_ier", "uart_mcr", "irq_enable",
             "loop", "plic_claim", "read", "plic_complete", "sret"}
  /\ irq \in {0, UART_IRQ}
  /\ sie.SIE <=> pc = "loop"
  /\ Len(rx) <= RX_CAPACITY
  /\ typed \in 0 .. CHARS
  /\ plic.pending => ~plic.claimed
  /\ pc = "loop" => ~plic.claimed

\* A character is there when do_trap reads UART_RBR.
ReadsFindChars == pc = "read" => irq = UART_IRQ /\ rx # << >>

\* Every character that the receiver took is read.
EveryCharRead ==
  \A c \in 1 .. CHARS : c \in ToSet(rx) ~> c \in ToSet(read)
=============================================================================
