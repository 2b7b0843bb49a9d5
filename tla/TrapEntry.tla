------------------------------ MODULE TrapEntry ------------------------------
(***************************************************************************)
(* Traps in ex41, ex42 and ex62, whose handle_exception is the same:       *)
(* entry, saving of the context on a kernel stack, do_trap, restoring,     *)
(* sret. In ex41 and ex62 exec starts a user program that traps by ecall;  *)
(* in ex42 interrupts hit the kernel's own loop.                           *)
(*                                                                         *)
(* A pointer into a stack names the stack and how much is on it, counted   *)
(* in trap frames; a frame, a word the user program pushed and what        *)
(* do_trap leaves on the stack take one place each.                        *)
(***************************************************************************)
EXTENDS Integers, Sequences

CONSTANTS
  Exercises,    \* the programs looked at, out of ex41, ex42 and ex62
  Values,       \* what the program holds in a register or pushes
  USER_DEPTH    \* bound: words the user program has on its stack

VARIABLES
  exercise,   \* the program running
  pc,         \* what the processor executes
  mode,       \* "U" or "S"
  regs,       \* ra, sp, s0, s1 for s1 to s11, a0 for all caller-saved ones
  csr,        \* sscratch, sepc and the bits SPP, SPIE, SIE of sstatus
  mem,        \* the stacks
  pushed,     \* history: what the user program has on its stack
  before      \* history: the interrupted context

vars == <<exercise, pc, mode, regs, csr, mem, pushed, before>>

Pointers == {"kernel", "user"} \X (0 .. USER_DEPTH + 3)
Push(p) == <<p[1], p[2] + 1>>
Pop(p) == <<p[1], p[2] - 1>>

ZERO == <<"zero", 0>>      \* a register or a word that is zero
EMPTY == [holds |-> "nothing written yet"]
LOCALS == [holds |-> "locals of C code"]

ASSUME TrapAssumption ==
  /\ Exercises \subseteq {"ex41", "ex42", "ex62"}
  /\ Values # {}
  /\ Values \cap (Pointers \cup {ZERO}) = {}
  /\ EMPTY \notin Values /\ LOCALS \notin Values
  /\ USER_DEPTH \in Nat

\* start_kernel, when it is about to call exec or irq_enable, which leaves one
\* frame on the kernel stack. The firmware hands over sscratch = 0.
Init ==
  /\ exercise \in Exercises
  /\ pc = "start_kernel"
  /\ mode = "S"
  /\ \E v \in Values :
       regs = [ra |-> v, sp |-> <<"kernel", 1>>, s0 |-> v, s1 |-> v, a0 |-> v]
  /\ csr = [sscratch |-> ZERO, sepc |-> ZERO,
            SPP |-> "U", SPIE |-> FALSE, SIE |-> FALSE]
  /\ mem = [p \in Pointers |-> EMPTY]
  /\ pushed = << >>
  /\ before = [regs |-> regs, mode |-> mode, SIE |-> FALSE, at |-> "nowhere"]

-----------------------------------------------------------------------------
\* Mutant: a plain jump back, which does not turn interrupts on again.
Sret_Jump(c) ==
  /\ mode' = c.SPP
  /\ pc' = c.sepc
  /\ csr' = c

\* What sret does, with the CSRs that the instructions before it have left.
Sret(c) ==
  /\ mode' = c.SPP
  /\ pc' = c.sepc
  /\ csr' = [c EXCEPT !.SIE = c.SPIE, !.SPIE = TRUE, !.SPP = "U"]

\* Mutant: sscratch is left alone.
exec_ex62_NoScratch ==
  /\ regs' = [regs EXCEPT !.sp = <<"user", 0>>]
  /\ Sret([csr EXCEPT !.sepc = "user", !.SPP = "U"])

\* The end of exec in ex62: the kernel's sp goes to sscratch, the user
\* program gets a stack of its own.
exec_ex62 ==
  /\ regs' = [regs EXCEPT !.sp = <<"user", 0>>]
  /\ Sret([csr EXCEPT !.sepc = "user", !.SPP = "U", !.sscratch = regs.sp])

\* The end of exec in ex41: only sepc and sstatus are set.
exec_ex41 ==
  /\ Sret([csr EXCEPT !.sepc = "user", !.SPP = "U"])
  /\ UNCHANGED regs

exec ==
  /\ pc = "start_kernel"
  /\ \/ exercise = "ex41" /\ exec_ex41
     \/ exercise = "ex62" /\ exec_ex62
  /\ UNCHANGED <<exercise, mem, pushed, before>>

\* irq_enable in ex42, after which start_kernel loops.
irq_enable ==
  /\ pc = "start_kernel"
  /\ exercise = "ex42"
  /\ csr' = [csr EXCEPT !.SIE = TRUE]
  /\ pc' = "loop"
  /\ UNCHANGED <<exercise, mode, regs, mem, pushed, before>>

-----------------------------------------------------------------------------
(* The user program, for which prog.bin stands: it may do anything with its *)
(* registers and its stack and traps when it likes.                         *)

UserComputes ==
  /\ pc = "user"
  /\ \E r \in {"ra", "s0", "s1", "a0"}, v \in Values :
       regs' = [regs EXCEPT ![r] = v]
  /\ UNCHANGED <<exercise, pc, mode, csr, mem, pushed, before>>

UserPushes ==
  /\ pc = "user"
  /\ Len(pushed) < USER_DEPTH
  /\ \E v \in Values :
       /\ mem' = [mem EXCEPT ![Push(regs.sp)] = v]
       /\ pushed' = Append(pushed, v)
  /\ regs' = [regs EXCEPT !.sp = Push(@)]
  /\ UNCHANGED <<exercise, pc, mode, csr, before>>

UserPops ==
  /\ pc = "user"
  /\ pushed # << >>
  /\ pushed' = SubSeq(pushed, 1, Len(pushed) - 1)
  /\ regs' = [regs EXCEPT !.sp = Pop(@)]
  /\ UNCHANGED <<exercise, pc, mode, csr, mem, before>>

\* What the hardware does on a trap of the code at pc.
Trap(at) ==
  /\ csr' = [csr EXCEPT !.sepc = at, !.SPP = mode,
                        !.SPIE = csr.SIE, !.SIE = FALSE]
  /\ mode' = "S"
  /\ pc' = "handle_exception"
  /\ before' = [regs |-> regs, mode |-> mode, SIE |-> csr.SIE, at |-> at]
  /\ UNCHANGED <<exercise, regs, mem, pushed>>

\* The program is at an ecall, or still is when sret goes back there.
UserEcall ==
  /\ pc \in {"user", "ecall"}
  /\ Trap("ecall")

\* An external interrupt, taken while start_kernel loops.
Interrupt ==
  /\ pc = "loop"
  /\ csr.SIE
  /\ Trap("loop")

-----------------------------------------------------------------------------
\* bnez sp: a zero in sscratch means the trap comes from the kernel.
KernelSp == IF csr.sscratch = ZERO THEN regs.sp ELSE csr.sscratch

\* handle_exception: sp and sscratch are exchanged, and room for a frame made.
handle_exception ==
  /\ pc = "handle_exception"
  /\ regs' = [regs EXCEPT !.sp = Push(KernelSp)]
  /\ csr' = [csr EXCEPT !.sscratch = regs.sp]
  /\ pc' = "save_context"
  /\ UNCHANGED <<exercise, mode, mem, pushed, before>>

\* Mutant: the CSRs are read into s0 and s1 before these are stored.
Frame_LateRegs ==
  [ra |-> regs.ra, s0 |-> csr.sscratch, s1 |-> csr.sepc, a0 |-> regs.a0,
   sp |-> csr.sscratch, sepc |-> csr.sepc, SPP |-> csr.SPP, SPIE |-> csr.SPIE]

\* The struct pt_regs that save_context builds, in the order of the code: the
\* general registers are stored before s0 to s4 serve to read the CSRs.
Frame ==
  [ra |-> regs.ra, s0 |-> regs.s0, s1 |-> regs.s1, a0 |-> regs.a0,
   sp |-> csr.sscratch, sepc |-> csr.sepc, SPP |-> csr.SPP, SPIE |-> csr.SPIE]

\* save_context, up to the call of do_trap(sp)
save_context ==
  /\ pc = "save_context"
  /\ mem' = [mem EXCEPT ![regs.sp] = Frame]
  /\ regs' = [regs EXCEPT !.ra = "ret_from_exception", !.a0 = regs.sp,
                          !.s0 = csr.sscratch, !.s1 = csr.sepc]
  /\ csr' = [csr EXCEPT !.sscratch = ZERO]
  /\ pc' = "do_trap"
  /\ UNCHANGED <<exercise, mode, pushed, before>>

\* Mutant: sepc is not advanced past the ecall.
NextSepc_Same(sepc) == sepc

\* do_trap's regs->sepc += 4, which ex42 does not do.
NextSepc(sepc) == IF exercise = "ex42" THEN sepc ELSE "user"

\* do_trap: it works below the frame, changes the frame through its argument
\* and returns, leaving in a caller-saved register what it likes.
do_trap ==
  /\ pc = "do_trap"
  /\ mem' = [mem EXCEPT ![regs.a0].sepc = NextSepc(@), ![Push(regs.sp)] = LOCALS]
  /\ \E v \in Values : regs' = [regs EXCEPT !.a0 = v]
  /\ pc' = regs.ra
  /\ UNCHANGED <<exercise, mode, csr, pushed, before>>

\* Mutant: sscratch gets the address of the frame.
ScratchFor_Frame(frame) ==
  IF frame.SPP = "S" THEN csr.sscratch ELSE regs.sp

\* On the way back to U-mode, sscratch gets the kernel's sp of before the trap.
ScratchFor(frame) ==
  IF frame.SPP = "S" THEN csr.sscratch ELSE Pop(regs.sp)

\* ret_from_exception: everything is taken back from the frame, then sret.
ret_from_exception ==
  /\ pc = "ret_from_exception"
  /\ LET frame == mem[regs.sp]
     IN  /\ regs' = [r \in DOMAIN regs |-> frame[r]]
         /\ Sret([sscratch |-> ScratchFor(frame), sepc |-> frame.sepc,
                  SPP |-> frame.SPP, SPIE |-> frame.SPIE, SIE |-> FALSE])
  /\ UNCHANGED <<exercise, mem, pushed, before>>

-----------------------------------------------------------------------------
\* The instructions of the kernel that follow each other once it runs.
Handler == handle_exception \/ save_context \/ do_trap \/ ret_from_exception

Next ==
  \/ exec \/ irq_enable
  \/ UserComputes \/ UserPushes \/ UserPops \/ UserEcall
  \/ Interrupt
  \/ Handler

Spec == Init /\ [][Next]_vars

\* The processor goes on executing; nothing forces the program to trap.
FairSpec == Spec /\ WF_vars(Handler)

-----------------------------------------------------------------------------
(* Properties *)

Handling ==
  pc \in {"handle_exception", "save_context", "do_trap", "ret_from_exception"}

\* A trap is invisible to the code it hits but for its effect: when sret hands
\* the processor back, every register, the privilege and the interrupt enable
\* are as before it, and an ecall is not executed again.
ContextKept ==
  [][pc = "ret_from_exception" =>
       /\ regs' = before.regs
       /\ mode' = before.mode
       /\ before.mode = "S" => csr'.SIE = before.SIE
       /\ pc' = IF before.at = "ecall" THEN "user" ELSE before.at]_vars

\* The protocol of sscratch: zero whenever a trap would come from the kernel,
\* and in ex62, while the program runs, the very stack exec left, however many
\* traps there have been.
ScratchProtocol ==
  /\ mode = "S" /\ pc \notin {"handle_exception", "save_context"} =>
       csr.sscratch = ZERO
  /\ mode = "U" /\ exercise = "ex62" => csr.sscratch = <<"kernel", 1>>

\* What the program has on its stack is what it pushed.
UserStack ==
  [n \in 1 .. Len(pushed) |->
     IF exercise = "ex41" THEN mem[<<"kernel", 1 + n>>] ELSE mem[<<"user", n>>]]

\* With the stack that exec gives the program in ex62, the kernel never writes
\* to what the program has on its stack.
UserStackKept == exercise = "ex62" => UserStack = pushed

\* The same of any exercise. In ex41 the program runs on the kernel's stack
\* and a trap takes for its frame the place where the first trap did, although
\* the program may have pushed more since (ex41/README.md:27).
AnyUserStackKept == UserStack = pushed

\* Every trap is handled to the end, and the code it hit goes on.
TrapsReturn ==
  /\ Handling /\ before.at = "ecall" ~> pc = "user"
  /\ Handling /\ before.at = "loop" ~> pc = "loop"
=============================================================================
