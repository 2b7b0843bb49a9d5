--------------------------- MODULE InterruptsProofs ---------------------------
(***************************************************************************)
(* Safety of the trap code, of the reception of characters in ex42, and of *)
(* the two together, for every choice of exercises, of register contents,  *)
(* of stack depth, of characters typed and of the size of the receiver.    *)
(*                                                                         *)
(* The trap code (TrapEntry): a trap is invisible to the code it hits,     *)
(* sscratch tells kernel from user, and in ex62 the kernel keeps off the   *)
(* user program's stack. The invariant follows the interrupted context on  *)
(* its way from the registers through the frame on the kernel stack and    *)
(* back.                                                                   *)
(*                                                                         *)
(* The handshakes (PlicUart): an interrupt becomes pending only while a    *)
(* character waits, and only the handler takes characters away, after it   *)
(* has claimed the interrupt and before it completes it, during which none *)
(* becomes pending.                                                        *)
(*                                                                         *)
(* The whole of ex42 (Interrupts): every step is a step of PlicUart or     *)
(* leaves its variables alone, and the same of TrapEntry, so the           *)
(* invariants of both hold of it; from these, that the two agree on when   *)
(* interrupts are on.                                                      *)
(***************************************************************************)
EXTENDS Interrupts, SequenceTheorems, TLAPS

-----------------------------------------------------------------------------
(* The trap code: its inductive invariant *)

Registers == {"ra", "sp", "s0", "s1", "a0"}

\* Shapes of the variables
Types ==
  /\ exercise \in Exercises
  /\ pc \in {"start_kernel", "user", "loop"} \/ Handling
  /\ mode \in {"U", "S"}
  /\ regs = [x \in Registers |-> regs[x]]
  /\ before = [regs |-> before.regs, mode |-> before.mode,
               SIE |-> before.SIE, at |-> before.at]
  /\ before.regs = [x \in Registers |-> before.regs[x]]
  /\ csr = [sscratch |-> csr.sscratch, sepc |-> csr.sepc, SPP |-> csr.SPP,
            SPIE |-> csr.SPIE, SIE |-> csr.SIE]
  /\ mem = [p \in Pointers |-> mem[p]]
  /\ pushed \in Seq(Values) /\ Len(pushed) <= USER_DEPTH

\* The stack pointer of the user program: in ex41 it is on the kernel's stack.
UserSp == IF exercise = "ex62" THEN <<"user", Len(pushed)>>
                               ELSE <<"kernel", 1 + Len(pushed)>>

\* A context in which the processor is outside the kernel's trap code
Context(at, r, m, ie) ==
  \/ /\ exercise = "ex42" /\ at = "loop"
     /\ m = "S" /\ ie = TRUE /\ r["sp"] = <<"kernel", 1>>
  \/ /\ exercise \in {"ex41", "ex62"} /\ at \in {"user", "ecall"}
     /\ m = "U" /\ r["sp"] = UserSp

\* start_kernel has not entered the program or the loop yet.
Starting ==
  pc = "start_kernel" =>
    /\ mode = "S" /\ csr.SIE = FALSE /\ csr.sscratch = ZERO
    /\ regs["sp"] = <<"kernel", 1>> /\ pushed = << >>

Running == pc \in {"user", "loop"} => Context(pc, regs, mode, csr.SIE)

Interrupted ==
  Handling => /\ Context(before.at, before.regs, before.mode, before.SIE)
              /\ before.at # "user"
              /\ mode = "S" /\ csr.SIE = FALSE

\* What sscratch is while the program runs: nothing yet or, once a trap has
\* returned, a place in the kernel stack in ex41, what exec left in ex62.
UserScratch ==
  \/ exercise = "ex62" /\ csr.sscratch = <<"kernel", 1>>
  \/ /\ exercise = "ex41"
     /\ csr.sscratch \in {ZERO} \cup ({"kernel"} \X (1 .. USER_DEPTH + 1))

Scratch ==
  /\ mode = "U" => UserScratch
  /\ pc = "handle_exception" =>
       IF before.mode = "U" THEN UserScratch ELSE csr.sscratch = ZERO
  /\ mode = "S" /\ pc \notin {"handle_exception", "save_context"} =>
       csr.sscratch = ZERO

\* What the hardware has left in the CSRs, until the frame is built
TrapCsrs ==
  pc \in {"handle_exception", "save_context"} =>
    csr.sepc = before.at /\ csr.SPP = before.mode /\ csr.SPIE = before.SIE

\* The stack pointer of the kernel while it handles a trap: above it, on the
\* kernel's stack, there is a place for what do_trap leaves.
KernelStack ==
  pc \in {"save_context", "do_trap", "ret_from_exception"} =>
    /\ regs["sp"] \in {"kernel"} \X (2 .. USER_DEPTH + 2)
    /\ exercise = "ex62" => regs["sp"] = <<"kernel", 2>>

\* Where the interrupted context is: in the registers ...
ContextInRegs ==
  /\ pc = "handle_exception" => regs = before.regs
  /\ pc = "save_context" =>
       /\ csr.sscratch = before.regs["sp"]
       /\ \A x \in Registers \ {"sp"} : regs[x] = before.regs[x]

\* The frame of the interrupted context, to be resumed at the address sepc
FrameOf(sepc) ==
  [ra |-> before.regs["ra"], s0 |-> before.regs["s0"], s1 |-> before.regs["s1"],
   a0 |-> before.regs["a0"], sp |-> before.regs["sp"], sepc |-> sepc,
   SPP |-> before.mode, SPIE |-> before.SIE]

\* ... and then in the frame, which do_trap finds by its argument.
ContextInFrame ==
  /\ pc = "do_trap" => /\ mem[regs["sp"]] = FrameOf(before.at)
                       /\ regs["a0"] = regs["sp"]
                       /\ regs["ra"] = "ret_from_exception"
  /\ pc = "ret_from_exception" =>
       mem[regs["sp"]] = FrameOf(IF before.at = "ecall" THEN "user" ELSE before.at)

StackKept ==
  exercise = "ex62" => \A n \in 1 .. Len(pushed) : mem[<<"user", n>>] = pushed[n]

IInv ==
  /\ Types
  /\ Starting /\ Running /\ Interrupted
  /\ Scratch /\ TrapCsrs /\ KernelStack
  /\ ContextInRegs /\ ContextInFrame
  /\ StackKept

-----------------------------------------------------------------------------
(* Every step of the trap code keeps it. *)

\* start_kernel begins in a state of the invariant.
LEMMA InitIInv == Init => IInv
<1> SUFFICES ASSUME Init PROVE IInv
  OBVIOUS
<1>1. Types
  BY TrapAssumption DEF Init, Types, Registers
<1>2. Starting /\ Scratch /\ Running /\ Interrupted
  BY DEF Init, Starting, Scratch, Running, Interrupted, Handling
<1>3. TrapCsrs /\ KernelStack /\ ContextInRegs /\ ContextInFrame /\ StackKept
  BY DEF Init, TrapCsrs, KernelStack, ContextInRegs, ContextInFrame, StackKept
<1> QED BY <1>1, <1>2, <1>3 DEF IInv

\* exec hands the processor to the user program, in ex62 on a stack of its own.
LEMMA ExecKeepsIInv == ASSUME IInv, exec PROVE IInv'
<1>1. /\ pc = "start_kernel" /\ pc' = "user" /\ mode' = "U"
      /\ exercise \in {"ex41", "ex62"}
      /\ UNCHANGED <<exercise, mem, pushed, before>>
      /\ csr' = [sscratch |-> csr'.sscratch, sepc |-> "user", SPP |-> "U",
                 SPIE |-> TRUE, SIE |-> csr.SPIE]
      /\ exercise = "ex41" => csr'.sscratch = ZERO /\ regs' = regs
      /\ exercise = "ex62" => /\ csr'.sscratch = <<"kernel", 1>>
                              /\ regs' = [regs EXCEPT !["sp"] = <<"user", 0>>]
  BY DEF exec, exec_ex41, exec_ex62, Sret, IInv, Types, Starting
<1>2. Types'
  BY <1>1 DEF IInv, Types, Registers, Handling
<1>3. Running'
  BY <1>1 DEF IInv, Types, Registers, Starting, Running, Context, UserSp
<1>4. Scratch'
  BY <1>1 DEF Scratch, UserScratch
<1>5. StackKept'
  BY <1>1 DEF IInv, StackKept
<1>6. /\ Starting' /\ Interrupted' /\ TrapCsrs' /\ KernelStack'
      /\ ContextInRegs' /\ ContextInFrame'
  BY <1>1 DEF Starting, Interrupted, Handling, TrapCsrs, KernelStack,
              ContextInRegs, ContextInFrame
<1> QED BY <1>2, <1>3, <1>4, <1>5, <1>6 DEF IInv

\* irq_enable lets interrupts in and start_kernel goes on to loop.
LEMMA IrqEnableKeepsIInv == ASSUME IInv, irq_enable PROVE IInv'
<1>1. /\ pc = "start_kernel" /\ pc' = "loop" /\ exercise = "ex42"
      /\ csr' = [csr EXCEPT !.SIE = TRUE]
      /\ UNCHANGED <<exercise, mode, regs, mem, pushed, before>>
  BY DEF irq_enable
<1>2. Types'
  BY <1>1 DEF IInv, Types, Registers, Handling
<1>3. Running'
  BY <1>1 DEF IInv, Types, Starting, Running, Context
<1>4. Scratch'
  BY <1>1 DEF IInv, Types, Starting, Scratch, UserScratch
<1>5. StackKept'
  BY <1>1 DEF IInv, StackKept
<1>6. /\ Starting' /\ Interrupted' /\ TrapCsrs' /\ KernelStack'
      /\ ContextInRegs' /\ ContextInFrame'
  BY <1>1 DEF Starting, Interrupted, Handling, TrapCsrs, KernelStack,
              ContextInRegs, ContextInFrame
<1> QED BY <1>2, <1>3, <1>4, <1>5, <1>6 DEF IInv

\* What the user program does to its registers and its stack keeps the
\* invariant: it cannot reach sscratch.
LEMMA UserKeepsIInv ==
  ASSUME IInv, UserComputes \/ UserPushes \/ UserPops PROVE IInv'
<1>1. /\ pc = "user" /\ pc' = pc /\ exercise \in {"ex41", "ex62"} /\ mode = "U"
      /\ regs["sp"] = UserSp /\ Len(pushed) \in 0 .. USER_DEPTH
      /\ UNCHANGED <<exercise, mode, csr, before>>
  <2>1. UNCHANGED <<exercise, pc, mode, csr, before>> /\ pc = "user"
    BY DEF UserComputes, UserPushes, UserPops
  <2>2. Len(pushed) \in 0 .. USER_DEPTH
    BY TrapAssumption DEF IInv, Types
  <2> QED BY <2>1, <2>2 DEF IInv, Running, Context
<1>2. /\ Types' /\ StackKept' /\ regs'["sp"] = UserSp'
  <2>1. CASE UserComputes
    <3>1. PICK r \in {"ra", "s0", "s1", "a0"}, v \in Values :
            regs' = [regs EXCEPT ![r] = v]
      BY <2>1 DEF UserComputes
    <3>2. mem' = mem /\ pushed' = pushed
      BY <2>1 DEF UserComputes
    <3> QED BY <1>1, <3>1, <3>2 DEF IInv, Types, StackKept, UserSp, Registers, Handling
  <2>2. CASE UserPushes
    <3>1. PICK v \in Values : /\ mem' = [mem EXCEPT ![Push(regs.sp)] = v]
                              /\ pushed' = Append(pushed, v)
      BY <2>2 DEF UserPushes
    <3>2. regs' = [regs EXCEPT !["sp"] = Push(regs["sp"])] /\ Len(pushed) < USER_DEPTH
      BY <2>2 DEF UserPushes
    <3>3. Push(regs["sp"]) = IF exercise = "ex62" THEN <<"user", Len(pushed) + 1>>
                                               ELSE <<"kernel", 2 + Len(pushed)>>
      BY <1>1 DEF UserSp, Push
    <3>4. /\ pushed \in Seq(Values) /\ pushed' \in Seq(Values)
          /\ Len(pushed') = Len(pushed) + 1
          /\ \A n \in 1 .. Len(pushed) : pushed'[n] = pushed[n]
          /\ pushed'[Len(pushed) + 1] = v
      BY <3>1 DEF IInv, Types
    <3>5. Types'
      <4>1. mem' = [p \in Pointers |-> mem'[p]]
        BY <3>1 DEF IInv, Types
      <4>2. regs' = [x \in Registers |-> regs'[x]]
        BY <3>2 DEF IInv, Types
      <4>3. pushed' \in Seq(Values) /\ Len(pushed') <= USER_DEPTH
        BY <1>1, <3>2, <3>4, TrapAssumption
      <4> QED BY <1>1, <4>1, <4>2, <4>3 DEF IInv, Types, Handling
    <3>6. regs'["sp"] = UserSp'
      <4>1. regs'["sp"] = Push(regs["sp"])
        BY <3>2 DEF IInv, Types, Registers
      <4> QED BY <1>1, <3>3, <3>4, <4>1 DEF UserSp
    <3>7. ASSUME exercise = "ex62", NEW n \in 1 .. Len(pushed')
          PROVE  mem'[<<"user", n>>] = pushed'[n]
      <4>1. <<"user", n>> \in Pointers /\ Push(regs["sp"]) = <<"user", Len(pushed) + 1>>
        BY <1>1, <3>2, <3>3, <3>4, <3>7, TrapAssumption DEF Pointers
      <4>2. CASE n = Len(pushed) + 1
        BY <3>1, <3>4, <4>1, <4>2 DEF IInv, Types
      <4>3. CASE n # Len(pushed) + 1
        <5>1. n \in 1 .. Len(pushed) /\ <<"user", n>> # <<"user", Len(pushed) + 1>>
          BY <1>1, <3>4, <4>3
        <5> QED BY <3>1, <3>4, <3>7, <4>1, <5>1 DEF IInv, Types, StackKept
      <4> QED BY <4>2, <4>3
    <3> QED BY <1>1, <3>5, <3>6, <3>7 DEF StackKept
  <2>3. CASE UserPops
    <3>1. /\ regs' = [regs EXCEPT !["sp"] = Pop(regs["sp"])] /\ mem' = mem
          /\ pushed' = SubSeq(pushed, 1, Len(pushed) - 1) /\ pushed # << >>
      BY <2>3 DEF UserPops
    <3>2. /\ pushed' \in Seq(Values) /\ Len(pushed') = Len(pushed) - 1
          /\ Len(pushed) \in 1 .. USER_DEPTH
          /\ \A n \in 1 .. Len(pushed') : pushed'[n] = pushed[n]
      <4>1. pushed \in Seq(Values) /\ Len(pushed) # 0
        BY <3>1, EmptySeq DEF IInv, Types
      <4>2. Len(pushed) - 1 \in 0 .. Len(pushed) /\ Len(pushed) \in 1 .. USER_DEPTH
        BY <1>1, <4>1
      <4>3. /\ SubSeq(pushed, 1, Len(pushed) - 1) \in Seq(Values)
            /\ Len(SubSeq(pushed, 1, Len(pushed) - 1)) = Len(pushed) - 1
            /\ \A n \in 1 .. (Len(pushed) - 1) :
                 SubSeq(pushed, 1, Len(pushed) - 1)[n] = pushed[n]
        <5> DEFINE m == Len(pushed) - 1
        <5>1. /\ 1 \in Int /\ m \in Int /\ m \in Nat /\ \A n \in 1 .. m : pushed[n] \in Values
              /\ m - 1 + 1 = m /\ \A n \in 1 .. m : 1 + n - 1 = n
          BY <4>1, <4>2
        <5> HIDE DEF m
        <5>2. /\ SubSeq(pushed, 1, m) \in Seq(Values)
              /\ Len(SubSeq(pushed, 1, m)) = IF 1 <= m THEN m - 1 + 1 ELSE 0
              /\ \A n \in 1 .. m - 1 + 1 : SubSeq(pushed, 1, m)[n] = pushed[1 + n - 1]
          BY <5>1, SubSeqProperties
        <5>3. Len(SubSeq(pushed, 1, m)) = m
          BY <5>1, <5>2
        <5>4. \A n \in 1 .. m : SubSeq(pushed, 1, m)[n] = pushed[n]
          BY <5>1, <5>2
        <5> QED BY <5>2, <5>3, <5>4 DEF m
      <4> QED BY <3>1, <4>2, <4>3
    <3>3. Types'
      <4>1. regs' = [x \in Registers |-> regs'[x]]
        BY <3>1 DEF IInv, Types
      <4>2. Len(pushed') <= USER_DEPTH
        BY <3>2, TrapAssumption
      <4> QED BY <1>1, <3>1, <3>2, <4>1, <4>2 DEF IInv, Types, Handling
    <3>4. regs'["sp"] = UserSp'
      <4>1. regs'["sp"] = Pop(UserSp)
        BY <1>1, <3>1 DEF IInv, Types, Registers
      <4>2. Pop(UserSp) = IF exercise = "ex62" THEN <<"user", Len(pushed) - 1>>
                                               ELSE <<"kernel", 1 + (Len(pushed) - 1)>>
        BY <3>2 DEF UserSp, Pop
      <4> QED BY <1>1, <3>2, <4>1, <4>2 DEF UserSp
    <3> QED BY <1>1, <3>1, <3>2, <3>3, <3>4 DEF IInv, StackKept
  <2> QED BY <2>1, <2>2, <2>3
<1>3. Running' /\ Scratch'
  BY <1>1, <1>2 DEF IInv, Running, Context, Scratch, UserScratch
<1>4. /\ Starting' /\ Interrupted' /\ TrapCsrs' /\ KernelStack'
      /\ ContextInRegs' /\ ContextInFrame'
  BY <1>1 DEF Starting, Interrupted, Handling, TrapCsrs, KernelStack,
              ContextInRegs, ContextInFrame
<1> QED BY <1>2, <1>3, <1>4 DEF IInv

\* The hardware takes a trap: the context is in the registers and the CSRs.
LEMMA TrapKeepsIInv == ASSUME IInv, UserEcall \/ Interrupt PROVE IInv'
<1> DEFINE at == IF pc = "loop" THEN "loop" ELSE "ecall"
<1>1. /\ pc \in {"user", "loop"} /\ pc' = "handle_exception" /\ mode' = "S"
      /\ csr' = [csr EXCEPT !.sepc = at, !.SPP = mode, !.SPIE = csr.SIE, !.SIE = FALSE]
      /\ before' = [regs |-> regs, mode |-> mode, SIE |-> csr.SIE, at |-> at]
      /\ UNCHANGED <<exercise, regs, mem, pushed>>
  BY DEF UserEcall, Interrupt, Trap, IInv, Types, Handling
<1>2. Types'
  BY <1>1 DEF IInv, Types, Registers, Handling
<1>3. /\ csr'.sscratch = csr.sscratch /\ csr'.sepc = at /\ csr'.SPP = mode
      /\ csr'.SPIE = csr.SIE /\ csr'.SIE = FALSE
  BY <1>1 DEF IInv, Types
<1>4. Interrupted'
  BY <1>1, <1>3 DEF IInv, Running, Interrupted, Context, UserSp
<1>5. Scratch'
  BY <1>1, <1>3 DEF IInv, Types, Scratch, UserScratch
<1>6. TrapCsrs' /\ ContextInRegs'
  BY <1>1, <1>3 DEF TrapCsrs, ContextInRegs
<1>7. Starting' /\ Running' /\ KernelStack' /\ ContextInFrame' /\ StackKept'
  BY <1>1 DEF IInv, Starting, Running, KernelStack, ContextInFrame, StackKept
<1> QED BY <1>2, <1>4, <1>5, <1>6, <1>7 DEF IInv

\* handle_exception finds the kernel stack, whichever side the trap is from.
LEMMA HandleExceptionKeepsIInv == ASSUME IInv, handle_exception PROVE IInv'
<1>1. /\ pc = "handle_exception" /\ pc' = "save_context"
      /\ regs' = [regs EXCEPT !["sp"] = Push(KernelSp)]
      /\ csr' = [csr EXCEPT !.sscratch = regs["sp"]]
      /\ UNCHANGED <<exercise, mode, mem, pushed, before>>
  BY DEF handle_exception
<1>2. /\ regs = before.regs /\ mode = "S" /\ csr.SIE = FALSE
      /\ Context(before.at, before.regs, before.mode, before.SIE) /\ before.at # "user"
      /\ csr.sepc = before.at /\ csr.SPP = before.mode /\ csr.SPIE = before.SIE
      /\ IF before.mode = "U" THEN UserScratch ELSE csr.sscratch = ZERO
  BY <1>1 DEF IInv, ContextInRegs, Interrupted, Handling, TrapCsrs, Scratch
<1>3. Len(pushed) \in 0 .. USER_DEPTH
  BY TrapAssumption DEF IInv, Types
<1>4. \E k \in 1 .. USER_DEPTH + 1 :
        /\ KernelSp = <<"kernel", k>>
        /\ exercise = "ex62" => k = 1
  <2>1. CASE before.mode = "S"
    BY <1>2, <2>1, TrapAssumption DEF KernelSp, Context
  <2>2. CASE before.mode # "S" /\ exercise = "ex62"
    BY <1>2, <2>2, TrapAssumption DEF KernelSp, Context, UserScratch, ZERO
  <2>3. CASE before.mode # "S" /\ exercise # "ex62" /\ csr.sscratch = ZERO
    <3>1. KernelSp = <<"kernel", 1 + Len(pushed)>>
      BY <1>2, <2>3 DEF KernelSp, Context, UserSp
    <3> QED BY <1>3, <2>3, <3>1, TrapAssumption
  <2>4. CASE before.mode # "S" /\ exercise # "ex62" /\ csr.sscratch # ZERO
    <3>1. PICK k \in 1 .. USER_DEPTH + 1 : csr.sscratch = <<"kernel", k>>
      BY <1>2, <2>4 DEF Context, UserScratch
    <3> QED BY <2>4, <3>1 DEF KernelSp
  <2> QED BY <2>1, <2>2, <2>3, <2>4
<1>5. Types'
  BY <1>1 DEF IInv, Types, Registers, Handling
<1>6. KernelStack'
  <2>1. PICK k \in 1 .. USER_DEPTH + 1 :
          KernelSp = <<"kernel", k>> /\ (exercise = "ex62" => k = 1)
    BY <1>4
  <2>2. regs'["sp"] = <<"kernel", k + 1>>
    BY <1>1, <2>1 DEF IInv, Types, Registers, Push
  <2> QED BY <1>1, <2>1, <2>2, TrapAssumption DEF KernelStack
<1>7. ContextInRegs' /\ TrapCsrs' /\ csr'.SIE = FALSE
  BY <1>1, <1>2 DEF IInv, Types, Registers, ContextInRegs, TrapCsrs
<1>8. Interrupted' /\ Scratch'
  BY <1>1, <1>2, <1>7 DEF Interrupted, Context, UserSp, Scratch
<1>9. Starting' /\ Running' /\ ContextInFrame' /\ StackKept'
  BY <1>1 DEF IInv, Starting, Running, ContextInFrame, StackKept
<1> QED BY <1>5, <1>6, <1>7, <1>8, <1>9 DEF IInv

\* save_context moves the context into the frame on the kernel stack.
LEMMA SaveContextKeepsIInv == ASSUME IInv, save_context PROVE IInv'
<1>1. /\ pc = "save_context" /\ pc' = "do_trap"
      /\ mem' = [mem EXCEPT ![regs["sp"]] = Frame]
      /\ regs' = [regs EXCEPT !["ra"] = "ret_from_exception", !["a0"] = regs["sp"],
                              !["s0"] = csr.sscratch, !["s1"] = csr.sepc]
      /\ csr' = [csr EXCEPT !.sscratch = ZERO]
      /\ UNCHANGED <<exercise, mode, pushed, before>>
  BY DEF save_context
<1>2. /\ regs["sp"] \in Pointers /\ regs["sp"] \in {"kernel"} \X (2 .. USER_DEPTH + 2)
      /\ exercise = "ex62" => regs["sp"] = <<"kernel", 2>>
  BY <1>1, TrapAssumption DEF IInv, KernelStack, Pointers
<1>3. Frame = FrameOf(before.at)
  BY <1>1 DEF IInv, ContextInRegs, TrapCsrs, Registers, Frame, FrameOf
<1>4. Types'
  BY <1>1 DEF IInv, Types, Registers, Handling
<1>5. /\ regs'["sp"] = regs["sp"] /\ regs'["a0"] = regs["sp"]
      /\ regs'["ra"] = "ret_from_exception"
  BY <1>1 DEF IInv, Types, Registers
<1>6. KernelStack' /\ ContextInFrame'
  <2>1. KernelStack'
    BY <1>1, <1>2, <1>5 DEF KernelStack
  <2>2. mem'[regs'["sp"]] = FrameOf(before.at)
    BY <1>1, <1>2, <1>3, <1>5 DEF IInv, Types
  <2>3. FrameOf(before.at)' = FrameOf(before.at)
    BY <1>1 DEF FrameOf
  <2> QED BY <1>1, <1>5, <2>1, <2>2, <2>3 DEF ContextInFrame
<1>7. csr'.sscratch = ZERO /\ csr'.SIE = csr.SIE
  BY <1>1 DEF IInv, Types
<1>8. Interrupted' /\ Scratch'
  BY <1>1, <1>7 DEF IInv, Interrupted, Handling, Context, UserSp, Scratch
<1>9. StackKept'
  <2>1. ASSUME exercise = "ex62", NEW n \in 1 .. Len(pushed)
        PROVE  mem'[<<"user", n>>] = mem[<<"user", n>>]
    <3>1. <<"user", n>> \in Pointers
      BY TrapAssumption DEF IInv, Types, Pointers
    <3> QED BY <1>1, <1>2, <2>1, <3>1 DEF IInv, Types
  <2> QED BY <1>1, <2>1 DEF IInv, StackKept
<1>10. Starting' /\ Running' /\ TrapCsrs' /\ ContextInRegs'
  BY <1>1 DEF Starting, Running, TrapCsrs, ContextInRegs
<1> QED BY <1>4, <1>6, <1>8, <1>9, <1>10 DEF IInv

\* do_trap writes to the frame and above it, never below.
LEMMA DoTrapKeepsIInv == ASSUME IInv, do_trap PROVE IInv'
<1> DEFINE sp == regs["sp"]
           frame == [mem[sp] EXCEPT !.sepc = NextSepc(mem[sp].sepc)]
<1>1. /\ pc = "do_trap" /\ pc' = "ret_from_exception"
      /\ regs["a0"] = sp /\ mem[sp] = FrameOf(before.at)
      /\ UNCHANGED <<exercise, mode, csr, pushed, before>>
  BY DEF do_trap, IInv, ContextInFrame
<1>2. PICK v \in Values : regs' = [regs EXCEPT !["a0"] = v]
  BY DEF do_trap
<1>3. /\ sp \in Pointers /\ Push(sp) \in Pointers /\ Push(sp) # sp
      /\ sp[1] = "kernel" /\ Push(sp)[1] = "kernel"
  <2>1. PICK k \in 2 .. USER_DEPTH + 2 : sp = <<"kernel", k>>
    BY <1>1 DEF IInv, KernelStack
  <2>2. Push(sp) = <<"kernel", k + 1>> /\ k + 1 # k
    BY <2>1 DEF Push
  <2> QED BY <2>1, <2>2, TrapAssumption DEF Pointers
<1>4. mem' = [mem EXCEPT ![sp] = frame, ![Push(sp)] = LOCALS]
  BY <1>1, <1>3 DEF do_trap, IInv, Types
<1>5. /\ mem'[sp] = frame
      /\ \A p \in Pointers : p \notin {sp, Push(sp)} => mem'[p] = mem[p]
  BY <1>3, <1>4 DEF IInv, Types
<1>6. frame = FrameOf(IF before.at = "ecall" THEN "user" ELSE before.at)
  <2>1. \/ exercise = "ex42" /\ before.at = "loop"
        \/ exercise # "ex42" /\ before.at = "ecall"
    BY <1>1 DEF IInv, Interrupted, Handling, Context
  <2>2. frame = FrameOf(NextSepc(before.at))
    BY <1>1 DEF FrameOf
  <2> QED BY <2>1, <2>2 DEF NextSepc
<1>7. Types'
  BY <1>1, <1>2, <1>4 DEF IInv, Types, Registers, Handling
<1>8. regs'["sp"] = sp
  BY <1>2 DEF IInv, Types, Registers
<1>9. KernelStack' /\ ContextInFrame'
  BY <1>1, <1>5, <1>6, <1>8 DEF IInv, KernelStack, ContextInFrame, FrameOf
<1>10. Interrupted' /\ Scratch'
  BY <1>1 DEF IInv, Interrupted, Handling, Context, UserSp, Scratch, UserScratch
<1>11. StackKept'
  <2>1. ASSUME exercise = "ex62", NEW n \in 1 .. Len(pushed)
        PROVE  mem'[<<"user", n>>] = mem[<<"user", n>>]
    <3>1. <<"user", n>> \in Pointers /\ <<"user", n>>[1] = "user"
      BY TrapAssumption DEF IInv, Types, Pointers
    <3> QED BY <1>3, <1>5, <3>1
  <2> QED BY <1>1, <2>1 DEF IInv, StackKept
<1>12. Starting' /\ Running' /\ TrapCsrs' /\ ContextInRegs'
  BY <1>1 DEF Starting, Running, TrapCsrs, ContextInRegs
<1> QED BY <1>7, <1>9, <1>10, <1>11, <1>12 DEF IInv

\* ret_from_exception hands back every register, the privilege, the interrupt
\* enable and, past an ecall, the place where the code goes on.
LEMMA RetRestores ==
  ASSUME IInv, ret_from_exception
  PROVE  /\ regs' = before.regs /\ mode' = before.mode
         /\ pc' = IF before.at = "ecall" THEN "user" ELSE before.at
         /\ csr' = [sscratch |-> csr'.sscratch, sepc |-> csr'.sepc, SPP |-> "U",
                    SPIE |-> TRUE, SIE |-> before.SIE]
         /\ csr'.sscratch = IF before.mode = "S" THEN csr.sscratch ELSE Pop(regs["sp"])
         /\ UNCHANGED <<exercise, mem, pushed, before>>
<1> DEFINE at == IF before.at = "ecall" THEN "user" ELSE before.at
<1>1. mem[regs["sp"]] = FrameOf(at)
  BY DEF ret_from_exception, IInv, ContextInFrame
<1>2. regs' = [r \in Registers |-> FrameOf(at)[r]]
  BY <1>1 DEF ret_from_exception, IInv, Types
<1>3. regs' = before.regs
  BY <1>2 DEF IInv, Types, FrameOf, Registers
<1>4. /\ FrameOf(at).sepc = at /\ FrameOf(at).SPP = before.mode
      /\ FrameOf(at).SPIE = before.SIE
      /\ ScratchFor(FrameOf(at)) =
           IF before.mode = "S" THEN csr.sscratch ELSE Pop(regs["sp"])
  BY DEF FrameOf, ScratchFor
<1>5. /\ mode' = before.mode /\ pc' = at
      /\ csr' = [sscratch |-> ScratchFor(FrameOf(at)), sepc |-> at, SPP |-> "U",
                 SPIE |-> TRUE, SIE |-> before.SIE]
  BY <1>1, <1>4 DEF ret_from_exception, Sret
<1> QED BY <1>3, <1>4, <1>5 DEF ret_from_exception

\* It keeps the invariant: sscratch is set up for the next trap.
LEMMA RetKeepsIInv == ASSUME IInv, ret_from_exception PROVE IInv'
<1> DEFINE at == IF before.at = "ecall" THEN "user" ELSE before.at
<1>1. pc = "ret_from_exception" /\ Handling
  BY DEF ret_from_exception, Handling
<1>2. /\ Context(before.at, before.regs, before.mode, before.SIE) /\ before.at # "user"
      /\ mode = "S" /\ csr.sscratch = ZERO
  BY <1>1 DEF IInv, Interrupted, Scratch
<1>3. pc' \in {"user", "loop"} /\ mode' \in {"U", "S"}
  BY <1>2, RetRestores DEF Context
<1>4. Types'
  BY <1>3, RetRestores DEF IInv, Types
<1>5. Context(at, before.regs, before.mode, before.SIE)
  BY <1>2 DEF Context
<1>6. Context(at, before.regs, before.mode, before.SIE)'
  BY <1>5, RetRestores DEF Context, UserSp
<1>7. csr'.SIE = before.SIE
  BY RetRestores
<1>8. Running'
  BY <1>6, <1>7, RetRestores DEF Running
<1>9. Scratch'
  <2>1. CASE before.mode = "S"
    BY <1>2, <1>3, <2>1, RetRestores DEF Scratch
  <2>2. CASE before.mode = "U"
    <3>1. PICK k \in 2 .. USER_DEPTH + 2 : /\ regs["sp"] = <<"kernel", k>>
                                           /\ exercise = "ex62" => k = 2
      BY <1>1 DEF IInv, KernelStack
    <3>2. csr'.sscratch = <<"kernel", k - 1>> /\ k - 1 \in 1 .. USER_DEPTH + 1
      BY <2>2, <3>1, RetRestores, TrapAssumption DEF Pop
    <3>3. exercise' = exercise /\ exercise \in {"ex41", "ex62"}
      BY <1>2, <2>2, RetRestores DEF Context
    <3>4. UserScratch'
      BY <3>1, <3>2, <3>3 DEF UserScratch
    <3> QED BY <1>3, <2>2, <3>4, RetRestores DEF Scratch
  <2> QED BY <1>2, <2>1, <2>2 DEF Context
<1>10. StackKept'
  BY RetRestores DEF IInv, StackKept
<1>11. /\ Starting' /\ Interrupted' /\ TrapCsrs' /\ KernelStack'
       /\ ContextInRegs' /\ ContextInFrame'
  BY <1>3 DEF Starting, Interrupted, Handling, TrapCsrs, KernelStack,
              ContextInRegs, ContextInFrame
<1> QED BY <1>4, <1>8, <1>9, <1>10, <1>11 DEF IInv

\* A step of anything else changes nothing.
LEMMA StutterKeepsIInv == ASSUME IInv, UNCHANGED vars PROVE IInv'
<1>1. Types' /\ Starting' /\ Running' /\ Interrupted'
  BY DEF vars, IInv, Types, Handling, Starting, Running, Interrupted, Context, UserSp
<1>2. Scratch' /\ TrapCsrs' /\ KernelStack'
  BY DEF vars, IInv, Scratch, UserScratch, TrapCsrs, KernelStack
<1>3. ContextInRegs' /\ ContextInFrame' /\ StackKept'
  BY DEF vars, IInv, ContextInRegs, ContextInFrame, FrameOf, StackKept
<1> QED BY <1>1, <1>2, <1>3 DEF IInv

-----------------------------------------------------------------------------
(* What holds of every behaviour of the trap code *)

\* The context is where handle_exception's code expects it, at every step.
THEOREM Inductive == Spec => []IInv
<1>1. IInv /\ [Next]_vars => IInv'
  <2> SUFFICES ASSUME IInv, [Next]_vars PROVE IInv'
    OBVIOUS
  <2>1. CASE exec
    BY <2>1, ExecKeepsIInv
  <2>2. CASE irq_enable
    BY <2>2, IrqEnableKeepsIInv
  <2>3. CASE UserComputes \/ UserPushes \/ UserPops
    BY <2>3, UserKeepsIInv
  <2>4. CASE UserEcall \/ Interrupt
    BY <2>4, TrapKeepsIInv
  <2>5. CASE handle_exception
    BY <2>5, HandleExceptionKeepsIInv
  <2>6. CASE save_context
    BY <2>6, SaveContextKeepsIInv
  <2>7. CASE do_trap
    BY <2>7, DoTrapKeepsIInv
  <2>8. CASE ret_from_exception
    BY <2>8, RetKeepsIInv
  <2>9. CASE UNCHANGED vars
    BY <2>9, StutterKeepsIInv
  <2> QED BY <2>1, <2>2, <2>3, <2>4, <2>5, <2>6, <2>7, <2>8, <2>9 DEF Next, Handler
<1> QED BY <1>1, InitIInv, PTL DEF Spec

\* sscratch is zero whenever a trap would come from the kernel and, in ex62,
\* the kernel stack that exec left while the program runs.
THEOREM ScratchProtocolHolds == Spec => []ScratchProtocol
<1>1. IInv => ScratchProtocol
  BY DEF IInv, Scratch, UserScratch, ScratchProtocol
<1> QED BY <1>1, Inductive, PTL

\* In ex62 the kernel never writes to what the user program has pushed.
THEOREM UserStackKeptHolds == Spec => []UserStackKept
<1>1. IInv => UserStackKept
  <2> SUFFICES ASSUME IInv, exercise = "ex62" PROVE UserStack = pushed
    BY DEF UserStackKept
  <2>1. pushed = [n \in 1 .. Len(pushed) |-> pushed[n]]
    BY DEF IInv, Types
  <2>2. \A n \in 1 .. Len(pushed) : mem[<<"user", n>>] = pushed[n]
    BY DEF IInv, StackKept
  <2> QED BY <2>1, <2>2 DEF UserStack
<1> QED BY <1>1, Inductive, PTL

\* A trap is invisible to the code it hits: ret_from_exception gives back
\* the registers, the privilege and the interrupt enable of before the trap.
THEOREM ContextKeptHolds == Spec => ContextKept
<1> DEFINE Kept ==
      pc = "ret_from_exception" =>
        /\ regs' = before.regs
        /\ mode' = before.mode
        /\ before.mode = "S" => csr'.SIE = before.SIE
        /\ pc' = IF before.at = "ecall" THEN "user" ELSE before.at
<1>1. IInv /\ [Next]_vars => [Kept]_vars
  <2> SUFFICES ASSUME IInv, Next, pc = "ret_from_exception" PROVE Kept
    BY DEF Kept
  <2>1. ret_from_exception
    BY DEF Next, Handler, exec, irq_enable, UserComputes, UserPushes, UserPops, UserEcall,
           Interrupt, handle_exception, save_context, do_trap
  <2> QED BY <2>1, RetRestores
<1> QED BY <1>1, Inductive, PTL DEF Spec, ContextKept

-----------------------------------------------------------------------------
(* The handshakes with the devices *)

\* Types of the variables that the handshakes work on
DeviceTypes ==
  /\ plic \in [priority : Nat, enable : BOOLEAN, threshold : Nat,
               pending : BOOLEAN, claimed : BOOLEAN]
  /\ uart \in [RDI : BOOLEAN, OUT2 : BOOLEAN]
  /\ sie \in [SIE : BOOLEAN, SEIE : BOOLEAN]
  /\ rx \in Seq(Nat)

\* The interrupt of the UART is on its way, in the PLIC or in the handler,
\* only while there is a character for it.
InterruptsHaveChars ==
  (plic.pending \/ (plic.claimed /\ dpc = "read")) => rx # << >>

\* From the trap to the claim the PLIC keeps offering the interrupt; from the
\* claim to the completion the gateway is shut.
Handshake ==
  /\ dpc = "plic_claim" => PU!Offered
  /\ dpc = "read" => irq = UART_IRQ
  /\ plic.claimed => irq = UART_IRQ
  /\ plic.claimed <=> dpc \in {"read", "plic_complete"}

HandshakeInv == PU!TypeOK /\ DeviceTypes /\ InterruptsHaveChars /\ Handshake

\* The initial state satisfies the invariant: nothing is pending yet.
LEMMA InitHandshakeInv == PU!Init => HandshakeInv
<1> SUFFICES ASSUME PU!Init PROVE HandshakeInv
  OBVIOUS
<1> USE InterruptsAssumption
<1>1. DeviceTypes
  BY DEF PU!Init, DeviceTypes
<1>2. PU!TypeOK
  BY DEF PU!Init, PU!TypeOK
<1>3. InterruptsHaveChars /\ Handshake
  BY DEF PU!Init, InterruptsHaveChars, Handshake
<1> QED
  BY <1>1, <1>2, <1>3 DEF HandshakeInv

\* What the devices do by themselves keeps the invariant: a character more, or
\* an interrupt for one that waits.
LEMMA DevicesKeepHandshakeInv ==
  ASSUME HandshakeInv, PU!Type \/ PU!Gateway PROVE HandshakeInv'
<1> USE InterruptsAssumption
<1>1. CASE PU!Type
  <2>1. rx' \in Seq(Nat) /\ Len(rx') <= RX_CAPACITY /\ (rx # << >> => rx' # << >>)
    <3>1. rx \in Seq(Nat) /\ Len(rx) <= RX_CAPACITY /\ typed' \in Nat
      BY <1>1 DEF PU!Type, HandshakeInv, PU!TypeOK, DeviceTypes
    <3>2. CASE Len(rx) < RX_CAPACITY
      <4>1. rx' = Append(rx, typed')
        BY <1>1, <3>2 DEF PU!Type
      <4>2. /\ Append(rx, typed') \in Seq(Nat) /\ Len(Append(rx, typed')) = Len(rx) + 1
            /\ Append(rx, typed') # << >>
        BY <3>1, AppendProperties
      <4> QED BY <3>1, <3>2, <4>1, <4>2
    <3>3. CASE ~ (Len(rx) < RX_CAPACITY)
      BY <1>1, <3>1, <3>3 DEF PU!Type
    <3> QED BY <3>2, <3>3
  <2>2. DeviceTypes'
    BY <1>1, <2>1 DEF PU!Type, HandshakeInv, DeviceTypes
  <2>3. PU!TypeOK'
    BY <1>1, <2>1 DEF PU!Type, HandshakeInv, PU!TypeOK
  <2>4. InterruptsHaveChars' /\ Handshake'
    BY <1>1, <2>1 DEF PU!Type, HandshakeInv, InterruptsHaveChars, Handshake, PU!Offered
  <2> QED
    BY <2>2, <2>3, <2>4 DEF HandshakeInv
<1>2. CASE PU!Gateway
  <2>1. DeviceTypes'
    BY <1>2 DEF PU!Gateway, HandshakeInv, DeviceTypes
  <2>2. PU!TypeOK'
    BY <1>2 DEF PU!Gateway, HandshakeInv, PU!TypeOK, DeviceTypes
  <2>3. InterruptsHaveChars' /\ Handshake'
    BY <1>2 DEF PU!Gateway, PU!Line, HandshakeInv, DeviceTypes, InterruptsHaveChars, Handshake,
                PU!Offered
  <2> QED
    BY <2>1, <2>2, <2>3 DEF HandshakeInv
<1> QED
  BY <1>1, <1>2

\* The configuration of the devices keeps the invariant: no interrupt is taken
\* before irq_enable.
LEMMA BootKeepsHandshakeInv ==
  ASSUME HandshakeInv, PU!plic_init \/ PU!uart_init \/ PU!irq_enable PROVE HandshakeInv'
<1> USE InterruptsAssumption DEF HandshakeInv
<1>1. CASE PU!plic_init
  <2>1. DeviceTypes'
    <3>1. CASE plic' = plic
      BY <1>1, <3>1 DEF PU!plic_init, DeviceTypes
    <3>2. CASE plic' = [plic EXCEPT !.priority = 1]
      BY <1>1, <3>2 DEF PU!plic_init, DeviceTypes
    <3>3. CASE plic' = [plic EXCEPT !.enable = TRUE]
      BY <1>1, <3>3 DEF PU!plic_init, DeviceTypes
    <3>4. CASE plic' = [plic EXCEPT !.threshold = 0]
      BY <1>1, <3>4 DEF PU!plic_init, DeviceTypes
    <3> QED
      BY <1>1, <3>1, <3>2, <3>3, <3>4 DEF PU!plic_init, PU!SetThreshold
  <2>2. PU!TypeOK'
    BY <1>1 DEF PU!plic_init, PU!SetThreshold, PU!TypeOK, DeviceTypes
  <2>3. /\ plic'.pending = plic.pending /\ plic'.claimed = plic.claimed
        /\ {dpc, dpc'} \cap {"plic_claim", "read", "plic_complete"} = {}
        /\ UNCHANGED <<irq, rx>>
    BY <1>1 DEF PU!plic_init, DeviceTypes
  <2>4. InterruptsHaveChars' /\ Handshake'
    BY <2>3 DEF InterruptsHaveChars, Handshake
  <2> QED
    BY <2>1, <2>2, <2>4
<1>2. CASE PU!uart_init
  <2>1. DeviceTypes'
    BY <1>2 DEF PU!uart_init, DeviceTypes
  <2>2. PU!TypeOK'
    BY <1>2 DEF PU!uart_init, PU!TypeOK, DeviceTypes
  <2>3. InterruptsHaveChars' /\ Handshake'
    BY <1>2 DEF PU!uart_init, InterruptsHaveChars, Handshake
  <2> QED
    BY <2>1, <2>2, <2>3
<1>3. CASE PU!irq_enable
  <2>1. DeviceTypes'
    BY <1>3 DEF PU!irq_enable, DeviceTypes
  <2>2. PU!TypeOK'
    BY <1>3 DEF PU!irq_enable, PU!TypeOK, DeviceTypes, Handshake
  <2>3. InterruptsHaveChars' /\ Handshake'
    BY <1>3 DEF PU!irq_enable, InterruptsHaveChars, Handshake
  <2> QED
    BY <2>1, <2>2, <2>3
<1> QED
  BY <1>1, <1>2, <1>3

\* The trap and the claim keep the invariant: what is offered when the hart
\* takes the trap is still there to be claimed.
LEMMA ClaimKeepsHandshakeInv ==
  ASSUME HandshakeInv, PU!Interrupt \/ PU!plic_claim PROVE HandshakeInv'
<1> USE InterruptsAssumption DEF HandshakeInv
<1>1. CASE PU!Interrupt
  <2>1. DeviceTypes'
    BY <1>1 DEF PU!Interrupt, DeviceTypes
  <2>2. PU!TypeOK'
    BY <1>1 DEF PU!Interrupt, PU!TypeOK, DeviceTypes
  <2>3. InterruptsHaveChars' /\ Handshake'
    BY <1>1 DEF PU!Interrupt, PU!ExternalInterrupt, PU!Offered, InterruptsHaveChars, Handshake
  <2> QED
    BY <2>1, <2>2, <2>3
<1>2. CASE PU!plic_claim
  <2>1. /\ plic.pending
        /\ irq' = UART_IRQ
        /\ dpc' = "read"
        /\ UNCHANGED <<sie, uart, rx, typed, read>>
    BY <1>2 DEF PU!plic_claim, Handshake, PU!Offered
  <2>2. plic' = [plic EXCEPT !.pending = FALSE, !.claimed = TRUE]
    BY <1>2 DEF PU!plic_claim, Handshake
  <2>3. plic'.claimed /\ ~plic'.pending
    BY <2>2 DEF DeviceTypes
  <2>4. DeviceTypes'
    BY <2>1, <2>2 DEF DeviceTypes
  <2>5. PU!TypeOK'
    BY <1>2, <2>1, <2>3 DEF PU!plic_claim, PU!TypeOK
  <2>6. InterruptsHaveChars' /\ Handshake'
    BY <1>2, <2>1, <2>3 DEF PU!plic_claim, InterruptsHaveChars, Handshake
  <2> QED
    BY <2>4, <2>5, <2>6
<1> QED
  BY <1>1, <1>2

\* Reading, completing and returning keep the invariant: with the gateway shut
\* nothing can be pending for the character that is taken away.
LEMMA HandlerKeepsHandshakeInv ==
  ASSUME HandshakeInv, PU!ReadChar \/ PU!plic_complete \/ PU!sret PROVE HandshakeInv'
<1> USE InterruptsAssumption DEF HandshakeInv
<1>1. CASE PU!ReadChar
  <2>1. plic.claimed /\ ~plic.pending /\ irq = UART_IRQ /\ rx # << >>
    BY <1>1 DEF PU!ReadChar, PU!TypeOK, DeviceTypes, Handshake, InterruptsHaveChars
  <2>2. rx' = Tail(rx)
    BY <1>1, <2>1 DEF PU!ReadChar
  <2>3. rx' \in Seq(Nat) /\ Len(rx') <= RX_CAPACITY
    BY <2>1, <2>2 DEF PU!TypeOK, DeviceTypes
  <2>4. DeviceTypes'
    BY <1>1, <2>3 DEF PU!ReadChar, DeviceTypes
  <2>5. PU!TypeOK'
    BY <1>1, <2>3 DEF PU!ReadChar, PU!TypeOK
  <2>6. InterruptsHaveChars' /\ Handshake'
    BY <1>1, <2>1 DEF PU!ReadChar, InterruptsHaveChars, Handshake
  <2> QED
    BY <2>4, <2>5, <2>6
<1>2. CASE PU!plic_complete
  <2>1. DeviceTypes'
    BY <1>2 DEF PU!plic_complete, PU!Completed, DeviceTypes
  <2>2. PU!TypeOK'
    BY <1>2 DEF PU!plic_complete, PU!Completed, PU!TypeOK, DeviceTypes
  <2>3. InterruptsHaveChars' /\ Handshake'
    BY <1>2 DEF PU!plic_complete, PU!Completed, DeviceTypes, InterruptsHaveChars, Handshake
  <2> QED
    BY <2>1, <2>2, <2>3
<1>3. CASE PU!sret
  <2>1. DeviceTypes'
    BY <1>3 DEF PU!sret, DeviceTypes
  <2>2. PU!TypeOK'
    BY <1>3 DEF PU!sret, PU!TypeOK, DeviceTypes, Handshake
  <2>3. InterruptsHaveChars' /\ Handshake'
    BY <1>3 DEF PU!sret, InterruptsHaveChars, Handshake
  <2> QED
    BY <2>1, <2>2, <2>3
<1> QED
  BY <1>1, <1>2, <1>3

\* The invariant is inductive, whatever is typed and whenever.
THEOREM HandshakesInductive == PU!Spec => []HandshakeInv
<1>1. HandshakeInv /\ [PU!Next]_(PU!vars) => HandshakeInv'
  <2> SUFFICES ASSUME HandshakeInv, [PU!Next]_(PU!vars) PROVE HandshakeInv'
    OBVIOUS
  <2>1. CASE PU!Type \/ PU!Gateway
    BY <2>1, DevicesKeepHandshakeInv
  <2>2. CASE PU!plic_init \/ PU!uart_init \/ PU!irq_enable
    BY <2>2, BootKeepsHandshakeInv
  <2>3. CASE PU!Interrupt \/ PU!plic_claim
    BY <2>3, ClaimKeepsHandshakeInv
  <2>4. CASE PU!ReadChar \/ PU!plic_complete \/ PU!sret
    BY <2>4, HandlerKeepsHandshakeInv
  <2>5. CASE UNCHANGED PU!vars
    BY <2>5 DEF PU!vars, HandshakeInv, PU!TypeOK, DeviceTypes, InterruptsHaveChars, Handshake,
                PU!Offered
  <2> QED
    BY <2>1, <2>2, <2>3, <2>4, <2>5 DEF PU!Next, PU!Kernel
<1> QED
  BY InitHandshakeInv, <1>1, PTL DEF PU!Spec

\* The state of the two handshakes keeps its type, and every claim is completed
\* by the time the handler returns, so the gateway is open in the loop.
THEOREM HandshakesTypeCorrect == PU!Spec => []PU!TypeOK
BY HandshakesInductive, PTL DEF HandshakeInv

\* do_trap never reads UART_RBR in vain, although it does not look at LSR.
THEOREM AlwaysReadsFindChars == PU!Spec => []ReadsFindChars
<1>1. HandshakeInv => ReadsFindChars
  BY DEF HandshakeInv, Handshake, InterruptsHaveChars, ReadsFindChars,
         PU!ReadsFindChars
<1> QED
  BY HandshakesInductive, <1>1, PTL

-----------------------------------------------------------------------------
(* Each part of the composed system *)

\* The trap code leaves the devices alone, and what goes with it of do_trap and
\* start_kernel is in the order of PlicUart: System implements the handshakes.
THEOREM ImplementsPlicUart == System => PU!Spec
<1>1. SystemInit => PU!Init
  BY DEF SystemInit
<1>2. [SystemNext]_allVars => [PU!Next]_(PU!vars)
  <2> SUFFICES ASSUME [SystemNext]_allVars PROVE PU!Next \/ UNCHANGED PU!vars
    OBVIOUS
  <2>1. CASE SystemNext
    BY <2>1 DEF SystemNext, Devices, Processor, start_kernel, TakeInterrupt, EntryCode,
                do_trap_ex42, ExitCode, PU!Next, PU!Kernel, deviceVars, PU!vars
  <2>2. CASE UNCHANGED allVars
    BY <2>2 DEF allVars, deviceVars, PU!vars
  <2> QED BY <2>1, <2>2
<1> QED BY <1>1, <1>2, PTL DEF System, PU!Spec

\* The devices and the accesses to them leave registers and stacks alone:
\* System implements the trap code too.
THEOREM ImplementsTrapEntry == System => Spec
<1>1. SystemInit => Init
  BY DEF SystemInit
<1>2. [SystemNext]_allVars => [Next]_vars
  <2> SUFFICES ASSUME [SystemNext]_allVars PROVE Next \/ UNCHANGED vars
    OBVIOUS
  <2>1. CASE SystemNext
    BY <2>1 DEF SystemNext, Devices, Processor, start_kernel, TakeInterrupt, EntryCode,
                do_trap_ex42, ExitCode, Next, Handler
  <2>2. CASE UNCHANGED allVars
    BY <2>2 DEF allVars
  <2> QED BY <2>1, <2>2
<1> QED BY <1>1, <1>2, PTL DEF System, Spec

\* do_trap reads UART_RBR only when a character is there, in the whole of ex42.
THEOREM SystemReadsFindChars == System => []ReadsFindChars
BY ImplementsPlicUart, AlwaysReadsFindChars, PTL

-----------------------------------------------------------------------------
(* What the two have to agree on *)

\* A return from the trap code turns interrupts on: it was the loop that was
\* interrupted, which runs with interrupts on.
LEMMA ReturnEnables ==
  ASSUME IInv, exercise = "ex42", ret_from_exception PROVE csr'.SIE = TRUE
<1>1. before.SIE = TRUE /\ before.mode = "S"
  BY DEF ret_from_exception, IInv, Types, Interrupted, Handling, Context
<1>2. csr'.SIE = before.SIE
  BY <1>1, RetRestores
<1> QED BY <1>1, <1>2

\* The handshakes see interrupts on or off just when the trap code's sstatus
\* says so.
THEOREM SIEAlwaysAgrees == System => []SIEAgrees
<1> DEFINE Agree == exercise = "ex42" /\ SIEAgrees
<1>1. SystemInit => Agree
  BY DEF SystemInit, Init, PU!Init, SIEAgrees
<1>2. ASSUME HandshakeInv, IInv, Agree, [SystemNext]_allVars PROVE Agree'
  <2> USE <1>2 DEF SIEAgrees
  <2>1. /\ sie = [SIE |-> sie.SIE, SEIE |-> sie.SEIE]
        /\ csr = [sscratch |-> csr.sscratch, sepc |-> csr.sepc, SPP |-> csr.SPP,
                  SPIE |-> csr.SPIE, SIE |-> csr.SIE]
    BY DEF HandshakeInv, DeviceTypes, IInv, Types
  <2>2. CASE Devices
    BY <2>2 DEF Devices, PU!Type, PU!Gateway, vars
  <2>3. CASE start_kernel
    BY <2>1, <2>3 DEF start_kernel, PU!plic_init, PU!uart_init, PU!irq_enable, irq_enable, vars
  <2>4. CASE TakeInterrupt
    BY <2>1, <2>4 DEF TakeInterrupt, PU!Interrupt, Interrupt, Trap
  <2>5. CASE EntryCode
    BY <2>1, <2>5 DEF EntryCode, handle_exception, save_context, deviceVars
  <2>6. CASE do_trap_ex42
    BY <2>6 DEF do_trap_ex42, PU!plic_claim, PU!ReadChar, PU!plic_complete, do_trap, vars
  <2>7. CASE ExitCode
    <3>1. csr'.SIE = TRUE
      BY <2>7, ReturnEnables DEF ExitCode
    <3> QED BY <2>1, <2>7, <3>1 DEF ExitCode, PU!sret, ret_from_exception
  <2>8. CASE UNCHANGED allVars
    BY <2>8 DEF allVars, vars, deviceVars
  <2> QED BY <2>2, <2>3, <2>4, <2>5, <2>6, <2>7, <2>8 DEF SystemNext, Processor
<1>3. HandshakeInv /\ IInv /\ Agree /\ [SystemNext]_allVars => Agree'
  BY <1>2
<1> QED
  BY <1>1, <1>3, ImplementsPlicUart, HandshakesInductive, ImplementsTrapEntry, Inductive, PTL
     DEF System
=============================================================================
