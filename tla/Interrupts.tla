------------------------------ MODULE Interrupts ------------------------------
(***************************************************************************)
(* All of ex42: the handshakes with the two devices (PlicUart) inside the  *)
(* trap code that gets the processor there and back (TrapEntry). What one  *)
(* of them assumes of the other - that the handler runs to its end with    *)
(* interrupts off, and that sret turns them on again - is what the other   *)
(* does here.                                                              *)
(***************************************************************************)
EXTENDS TrapEntry

CONSTANTS UART_IRQ, CHARS, RX_CAPACITY   \* those of PlicUart

VARIABLES dpc, irq, sie, plic, uart, rx, typed, read

PU == INSTANCE PlicUart WITH pc <- dpc

ASSUME InterruptsAssumption ==
  /\ "ex42" \in Exercises
  /\ UART_IRQ \in Nat \ {0}
  /\ CHARS \in Nat
  /\ RX_CAPACITY \in Nat \ {0}

deviceVars == <<dpc, irq, sie, plic, uart, rx, typed, read>>
allVars == <<vars, deviceVars>>

SystemInit == Init /\ exercise = "ex42" /\ PU!Init

-----------------------------------------------------------------------------
Devices == (PU!Type \/ PU!Gateway) /\ UNCHANGED vars

start_kernel ==
  \/ (PU!plic_init \/ PU!uart_init) /\ UNCHANGED vars
  \/ PU!irq_enable /\ irq_enable

\* The processor takes the interrupt that the PLIC asserts.
TakeInterrupt == PU!Interrupt /\ Interrupt

EntryCode == (handle_exception \/ save_context) /\ UNCHANGED deviceVars

\* do_trap goes through the handshake and returns.
do_trap_ex42 ==
  /\ pc = "do_trap"
  /\ \/ (PU!plic_claim \/ PU!ReadChar) /\ UNCHANGED vars
     \/ PU!plic_complete /\ do_trap

ExitCode == PU!sret /\ ret_from_exception

Processor ==
  start_kernel \/ TakeInterrupt \/ EntryCode \/ do_trap_ex42 \/ ExitCode

SystemNext == Devices \/ Processor

\* The processor goes on, and so does the gateway; nobody has to type.
System ==
  /\ SystemInit /\ [][SystemNext]_allVars
  /\ WF_allVars(Processor)
  /\ WF_allVars(PU!Gateway /\ UNCHANGED vars)

-----------------------------------------------------------------------------
(* Properties *)

\* do_trap reads UART_RBR without looking at LSR: when it does, a character is
\* there. No interrupt is ever for one that has been read already.
ReadsFindChars == PU!ReadsFindChars

\* Every character that the receiver took is read, whether it came before the
\* devices were configured, while another one was handled, or between any two
\* steps of the two handshakes and of the trap code around them.
EveryCharRead == PU!EveryCharRead

\* The handshakes see interrupts on or off just when the sstatus that the trap
\* code saves in its frame and restores says so: the next character can be
\* taken as soon as the loop goes on, and not before.
SIEAgrees == exercise = "ex42" => sie.SIE = csr.SIE
=============================================================================
