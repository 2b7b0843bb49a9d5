------------------------------- MODULE Threads -------------------------------
(***************************************************************************)
(* The program of ex51: start_kernel creates idle and the printing threads *)
(* and goes on as idle; the threads hand the processor round by calling    *)
(* schedule, which calls switch_to. Modelled are the registers that        *)
(* switch_to deals with, the stack frames they point into, and what is     *)
(* printed. The run queue is that of RunQueue.                             *)
(*                                                                         *)
(* A pointer into a stack names the stack and how many frames are on it:   *)
(* 0 for an empty stack, 1 when foo or idle has its frame there, 2 when    *)
(* schedule has pushed its own. s0 is the frame pointer.                   *)
(***************************************************************************)
EXTENDS Integers, Sequences

CONSTANTS
  NUM_TASKS,   \* idle and the threads: 4 in the code
  ROUNDS,      \* the lines a thread prints: 5 in the code
  Values,      \* what a callee-saved register may hold
  NULL

VARIABLES
  next, prev, run_queue, nr_threads, tp,   \* as in RunQueue
  pc,        \* what the processor executes
  regs,      \* ra, sp, s0 and s1, which stands for s1 to s11 alike
  thread,    \* task->thread: the same registers, saved
  frame,     \* the ra and s0 a frame holds for its caller
  counter,   \* foo's i, in its frame
  output,    \* the lines printed: whose, and the counter
  expected   \* history: the registers when the task called schedule

queueVars == <<next, prev, run_queue, nr_threads, tp>>
vars == <<queueVars, pc, regs, thread, frame, counter, output, expected>>

Queue == INSTANCE RunQueue

Tasks == 0 .. (NUM_TASKS - 1)
Threads == Tasks \ {0}          \* the tasks that run foo
BOOT == -1                      \* the stack that _start sets up
Stacks == Tasks \cup {BOOT}
Pointers == Stacks \X (0 .. 2)

Push(p) == <<p[1], p[2] + 1>>
Pop(p) == <<p[1], p[2] - 1>>

ASSUME ThreadsAssumption ==
  /\ NUM_TASKS \in Nat \ {0}
  /\ ROUNDS \in Nat
  /\ Values # {}
  /\ NULL \notin Tasks \cup Pointers \cup Values

Init ==
  /\ Queue!InitQueue
  /\ pc = "start_kernel"
  /\ \E v \in Values :
       regs = [ra |-> NULL, sp |-> <<BOOT, 1>>, s0 |-> <<BOOT, 1>>, s1 |-> v]
  /\ thread = [t \in Tasks |-> NULL]
  /\ frame = [p \in Pointers |-> [ra |-> NULL, s0 |-> NULL]]
  /\ counter = [p \in Pointers |-> 0]
  /\ output = << >>
  /\ expected = [t \in Tasks |-> NULL]

-----------------------------------------------------------------------------
\* kthread_create: a task starts at threadfn on an empty stack; its other
\* registers are what kmalloc's memory held.
kthread_create(threadfn) ==
  /\ Queue!Create
  /\ \E junk \in Values :
       thread' = [thread EXCEPT ![nr_threads] =
         [ra |-> threadfn, sp |-> <<nr_threads, 0>>, s0 |-> NULL, s1 |-> junk]]

\* start_kernel, up to the call of idle, which runs on the boot stack as the
\* task created first.
start_kernel ==
  /\ pc = "start_kernel"
  /\ kthread_create(IF nr_threads = 0 THEN "idle" ELSE "foo")
  /\ pc' = IF nr_threads' = NUM_TASKS THEN "idle" ELSE pc
  /\ UNCHANGED <<regs, frame, counter, output, expected>>

\* The call of schedule by a caller whose registers are r.
CallSchedule(r, return) ==
  /\ pc' = "schedule"
  /\ regs' = [r EXCEPT !.ra = return]
  /\ expected' = [expected EXCEPT ![tp] = r]
  /\ UNCHANGED <<queueVars, thread, frame, counter>>

\* idle, at its start and after each return of schedule
idle ==
  /\ pc \in {"idle", "idle_after"}
  /\ CallSchedule(regs, "idle_after")
  /\ UNCHANGED output

\* foo: its frame is pushed and its counter set.
foo ==
  /\ pc = "foo"
  /\ LET sp == Push(regs.sp)
     IN  /\ frame' = [frame EXCEPT ![sp] = [ra |-> regs.ra, s0 |-> regs.s0]]
         /\ regs' = [regs EXCEPT !.sp = sp, !.s0 = sp]
         /\ counter' = [counter EXCEPT ![sp] = 0]
  /\ pc' = "foo_loop"
  /\ UNCHANGED <<queueVars, thread, output, expected>>

\* A round of foo's loop, up to the call of schedule. Printing leaves what it
\* likes in a register that is foo's own.
foo_print ==
  /\ pc = "foo_loop"
  /\ counter[regs.s0] < ROUNDS
  /\ output' = Append(output, <<tp, counter[regs.s0]>>)
  /\ \E v \in Values : CallSchedule([regs EXCEPT !.s1 = v], "foo_after")

\* The end of the round: i++
foo_after ==
  /\ pc = "foo_after"
  /\ counter' = [counter EXCEPT ![regs.s0] = @ + 1]
  /\ pc' = "foo_loop"
  /\ UNCHANGED <<queueVars, regs, thread, frame, output, expected>>

\* After its last round foo never yields again.
foo_done ==
  /\ pc = "foo_loop"
  /\ counter[regs.s0] >= ROUNDS
  /\ pc' = "spin"
  /\ UNCHANGED <<queueVars, regs, thread, frame, counter, output, expected>>

Spin == pc = "spin" /\ UNCHANGED vars

-----------------------------------------------------------------------------
\* Mutant: schedule without its case for the head.
TurnRing_AlwaysMove == Queue!MoveToTail(tp)

TurnRing == Queue!ScheduleRing

\* schedule: its frame is pushed, the ring turned, switch_to called with the
\* running task and the new head.
schedule ==
  /\ pc = "schedule"
  /\ LET sp == Push(regs.sp)
     IN  /\ frame' = [frame EXCEPT ![sp] = [ra |-> regs.ra, s0 |-> regs.s0]]
         /\ regs' = [regs EXCEPT !.ra = "schedule_end", !.sp = sp, !.s0 = sp]
  /\ TurnRing
  /\ pc' = "switch_to"
  /\ UNCHANGED <<nr_threads, tp, thread, counter, output, expected>>

\* Mutant: s1 is not stored.
Saved_NotS1 == [regs EXCEPT !.s0 = frame[regs.sp].s0, !.s1 = thread[tp].s1]

\* What switch_to stores through a0: the caller's registers, except that s0 is
\* the "real s0", read back from the place schedule's prologue put it.
Saved == [regs EXCEPT !.s0 = frame[regs.sp].s0]

\* switch_to(prev, next): the jump to the loaded ra puts the address of the
\* instruction after the jump in ra.
switch_to ==
  /\ pc = "switch_to"
  /\ thread' = [thread EXCEPT ![tp] = Saved]
  /\ regs' = [thread'[run_queue] EXCEPT !.ra = "switch_to_end"]
  /\ pc' = thread'[run_queue].ra
  /\ tp' = run_queue
  /\ UNCHANGED <<next, prev, run_queue, nr_threads, frame, counter, output,
                 expected>>

\* The end of schedule, in the task that was resumed.
schedule_end ==
  /\ pc = "schedule_end"
  /\ LET saved == frame[regs.sp]
     IN  /\ regs' = [regs EXCEPT !.ra = saved.ra, !.s0 = saved.s0,
                                 !.sp = Pop(regs.sp)]
         /\ pc' = saved.ra
  /\ UNCHANGED <<queueVars, thread, frame, counter, output, expected>>

-----------------------------------------------------------------------------
Next ==
  \/ start_kernel \/ idle
  \/ foo \/ foo_print \/ foo_after \/ foo_done \/ Spin
  \/ schedule \/ switch_to \/ schedule_end

Spec == Init /\ [][Next]_vars

\* One processor that always executes its next instruction.
FairSpec == Spec /\ WF_vars(Next)

-----------------------------------------------------------------------------
(* Properties *)

\* A task, running or suspended, has its sp in its own stack, except that
\* task 0 keeps the boot stack it never left.
StackOf(t) == IF t = 0 THEN BOOT ELSE t
OwnStack ==
  pc # "start_kernel" =>
    /\ regs.sp[1] = StackOf(tp)
    /\ \A t \in Threads : thread[t].sp[1] = StackOf(t)

\* schedule returns to its caller with sp, the frame pointer and every
\* callee-saved register as they were at the call, however many other tasks
\* have run in between (main.c:77: callee-saved registers must not change);
\* and at no time do two tasks have their sp in the same stack.
ResumesAsLeft ==
  /\ OwnStack
  /\ pc \in {"idle_after", "foo_after"} =>
       /\ regs.sp = expected[tp].sp
       /\ regs.s0 = expected[tp].s0
       /\ regs.s1 = expected[tp].s1

\* The lines of ex51/README.md:34-50: round after round, in each the threads
\* from the one created last to the one created first.
Lines ==
  [n \in 1 .. ROUNDS * (NUM_TASKS - 1) |->
     <<(NUM_TASKS - 1) - ((n - 1) % (NUM_TASKS - 1)),
       (n - 1) \div (NUM_TASKS - 1)>>]

\* The program prints all these lines, in this order, although the first thread
\* to spin holds the processor for good.
PrintsAllLines == <>(output = Lines)

\* Turning the ring in schedule and moving tp in switch_to together are one
\* step of the run queue: between the two, the task to run is the head.
AtomicQueue ==
  INSTANCE RunQueue WITH tp <- IF pc = "switch_to" THEN run_queue ELSE tp
ImplementsRunQueue == AtomicQueue!Spec
=============================================================================
