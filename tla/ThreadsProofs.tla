----------------------------- MODULE ThreadsProofs -----------------------------
(***************************************************************************)
(* switch_to and schedule of ex51 resume every thread with the registers   *)
(* and on the stack it called schedule with, for any number of threads and *)
(* rounds; and between them they are one step of the run queue.            *)
(*                                                                         *)
(* A task that is not running has either never run, and then its           *)
(* task_struct holds threadfn and an empty stack, or waits in schedule,    *)
(* and then the frame that schedule pushed says where it was called and    *)
(* the task_struct holds the rest. No other task writes to that frame,     *)
(* since all their pointers are into stacks of their own.                  *)
(***************************************************************************)
EXTENDS Threads, TLAPS

RP == INSTANCE RunQueueProofs WITH tp <- IF pc = "switch_to" THEN run_queue ELSE tp

Codes == {"start_kernel", "idle", "idle_after", "foo", "foo_loop", "foo_after", "spin",
          "schedule", "switch_to", "switch_to_end", "schedule_end"}
Registers == [ra : Codes \cup {NULL}, sp : Pointers, s0 : Pointers \cup {NULL}, s1 : Values]

\* Types of what switch_to saves and restores
Types ==
  /\ pc \in Codes
  /\ regs \in Registers
  /\ frame \in [Pointers -> [ra : Codes \cup {NULL}, s0 : Pointers \cup {NULL}]]
  /\ DOMAIN thread = Tasks
  /\ DOMAIN expected = Tasks
  /\ \A t \in Queue!Created : thread[t] \in Registers

\* The frame pointer of foo or idle, run by task t, the frame that schedule
\* pushes after it, and where schedule then returns to
Base(t) == <<StackOf(t), 1>>
Top(t) == <<StackOf(t), 2>>
Return(t) == IF t = 0 THEN "idle_after" ELSE "foo_after"

\* schedule was called by t with the registers expected[t],
HasCalled(t) == expected[t].sp = Base(t) /\ expected[t].s0 = Base(t)

\* and its frame is there.
HasFrame(t) == HasCalled(t) /\ frame[Top(t)] = [ra |-> Return(t), s0 |-> Base(t)]

\* What the tasks that are not running wait for
NeverRun(t) == t # 0 /\ thread[t].ra = "foo" /\ thread[t].sp = <<t, 0>>
InSchedule(t) ==
  /\ HasFrame(t)
  /\ thread[t].ra = "schedule_end"
  /\ thread[t].sp = Top(t)
  /\ thread[t].s1 = expected[t].s1

Waiting ==
  /\ \A t \in Queue!Created : t = tp \/ NeverRun(t) \/ InSchedule(t)
  /\ \A t \in Queue!Created \ {0} : thread[t].sp[1] = StackOf(t)

\* The running one
Booting ==
  /\ nr_threads < NUM_TASKS
  /\ tp = IF nr_threads = 0 THEN NULL ELSE 0
  /\ regs.sp = Base(0) /\ regs.s0 = Base(0)

Running ==
  /\ nr_threads = NUM_TASKS
  /\ tp \in Tasks
  /\ pc \in {"idle", "idle_after"} => tp = 0
  /\ pc \in {"foo", "foo_loop", "foo_after", "spin"} => tp # 0
  /\ pc = "foo" => regs.sp = <<tp, 0>>
  /\ pc \in {"idle", "idle_after", "foo_loop", "foo_after", "schedule"} =>
       regs.sp = Base(tp) /\ regs.s0 = Base(tp)
  /\ pc = "spin" => regs.sp = Base(tp)
  /\ pc \in {"idle_after", "foo_after", "schedule", "switch_to", "schedule_end"} =>
       HasCalled(tp) /\ regs.s1 = expected[tp].s1
  /\ pc = "schedule" => regs.ra = Return(tp)
  /\ pc \in {"switch_to", "schedule_end"} => HasFrame(tp) /\ regs.sp = Top(tp)
  /\ pc = "switch_to" => regs.ra = "schedule_end"
  /\ pc # "switch_to_end"

IInv ==
  /\ RP!IInv
  /\ Types
  /\ Waiting
  /\ IF pc = "start_kernel" THEN Booting ELSE Running

-----------------------------------------------------------------------------
(* The steps, seen as steps of the run queue *)

\* What RunQueue assumes of its constants
LEMMA SameAssumption == NUM_TASKS \in Nat \ {0} /\ NULL \notin RP!Tasks
BY ThreadsAssumption DEF Tasks, RP!Tasks

\* kthread_create is kthread_create.
LEMMA QueueCreate ==
  ASSUME start_kernel
  PROVE  RP!Create
<1>1. pc = "start_kernel" /\ pc' \in {"idle", "start_kernel"} /\ Queue!Create
  BY DEF start_kernel, kthread_create
<1> QED BY <1>1 DEF Queue!Create, RP!Create, Queue!Enqueue, RP!Enqueue, Queue!Link, RP!Link

\* The turning of the ring, with the task it makes the head about to run
LEMMA QueueSchedule ==
  ASSUME schedule, tp # NULL
  PROVE  RP!Schedule
<1>1. /\ pc = "schedule" /\ pc' = "switch_to" /\ Queue!ScheduleRing
      /\ nr_threads' = nr_threads /\ tp' = tp
  BY DEF schedule, TurnRing
<1>2. RP!ScheduleRing
  BY <1>1 DEF Queue!ScheduleRing, RP!ScheduleRing, Queue!Rotate, RP!Rotate,
              Queue!MoveToTail, RP!MoveToTail, Queue!Unlinked_prev, RP!Unlinked_prev,
              Queue!Unlinked_next, RP!Unlinked_next
<1> QED BY <1>1, <1>2 DEF RP!Schedule

\* switch_to makes it run.
LEMMA QueueSwitch ==
  ASSUME switch_to, pc' # "switch_to"
  PROVE  UNCHANGED RP!queueVars
BY DEF switch_to, RP!queueVars, RP!ringVars

\* Everything else leaves the queue alone.
LEMMA QueueStays ==
  ASSUME UNCHANGED queueVars, pc # "switch_to", pc' # "switch_to"
  PROVE  UNCHANGED RP!queueVars
BY DEF queueVars, RP!queueVars, RP!ringVars

-----------------------------------------------------------------------------
(* Stacks *)

\* Every task has a stack of its own.
LEMMA OwnStacks ==
  ASSUME NEW t \in Tasks
  PROVE  /\ StackOf(t) \in Stacks
         /\ <<t, 0>> \in Pointers /\ Base(t) \in Pointers /\ Top(t) \in Pointers
         /\ Push(Base(t)) = Top(t) /\ Pop(Top(t)) = Base(t)
         /\ t # 0 => Push(<<t, 0>>) = Base(t)
         /\ \A u \in Tasks : u # t => Top(u) # Top(t)
         /\ \A u \in Tasks : Top(u) # Base(t)
BY DEF StackOf, Stacks, Pointers, Base, Top, Push, Pop, Tasks, BOOT

\* Numbers of tasks
LEMMA CreatedAre ==
  ASSUME IInv
  PROVE  /\ nr_threads \in Nat /\ Queue!Created = 0 .. (nr_threads - 1)
         /\ Queue!Created \subseteq Tasks /\ NUM_TASKS \in Nat \ {0} /\ NULL \notin Tasks
         /\ 0 \in Tasks /\ RP!IInv
         /\ nr_threads # 0 => run_queue \in Queue!Created
         /\ pc # "start_kernel" => Queue!Created = Tasks /\ tp \in Tasks /\ tp # NULL /\ Running
<1>1. RP!TypeOK /\ RP!IInv
  BY DEF IInv, RP!IInv
<1>2. nr_threads \in 0 .. NUM_TASKS /\ (nr_threads # 0 => run_queue \in RP!Created)
  BY <1>1 DEF RP!TypeOK
<1>3. NUM_TASKS \in Nat \ {0} /\ NULL \notin Tasks
  BY ThreadsAssumption
<1>4. pc # "start_kernel" => Running
  BY DEF IInv
<1> QED BY <1>1, <1>2, <1>3, <1>4 DEF Queue!Created, RP!Created, Tasks, Running

\* The tasks that wait go on waiting while the running one moves in its own
\* stack only.
LEMMA OthersWait ==
  ASSUME Waiting, Queue!Created \subseteq Tasks, tp' = tp, nr_threads' = nr_threads,
         thread' = thread,
         \A t \in Tasks \ {tp} : frame'[Top(t)] = frame[Top(t)] /\ expected'[t] = expected[t]
  PROVE  Waiting'
BY DEF Waiting, NeverRun, InSchedule, HasFrame, HasCalled, Queue!Created

\* What the call of schedule makes of the registers
LEMMA CallKeepsTypes ==
  ASSUME Types, tp \in Tasks, NEW r \in Registers, NEW return \in Codes,
         CallSchedule(r, return)
  PROVE  /\ Types'
         /\ regs' = [ra |-> return, sp |-> r.sp, s0 |-> r.s0, s1 |-> r.s1]
         /\ expected'[tp] = r
         /\ \A t \in Tasks \ {tp} : expected'[t] = expected[t]
<1>1. /\ pc' = "schedule" /\ thread' = thread /\ frame' = frame /\ nr_threads' = nr_threads
      /\ regs' = [r EXCEPT !.ra = return]
      /\ expected' = [expected EXCEPT ![tp] = r]
  BY DEF CallSchedule, queueVars
<1>2. regs' = [ra |-> return, sp |-> r.sp, s0 |-> r.s0, s1 |-> r.s1]
  BY <1>1 DEF Registers
<1>3. regs' \in Registers
  BY <1>2 DEF Registers
<1> QED BY <1>1, <1>2, <1>3 DEF Types, Codes, Queue!Created

-----------------------------------------------------------------------------
(* Steps *)

\* kthread_create leaves the new task as one that has never run; the first,
\* idle, is the running one from then on.
LEMMA StartKernelStep == ASSUME IInv, start_kernel PROVE IInv'
<1>1. /\ pc = "start_kernel" /\ nr_threads' = nr_threads + 1
      /\ tp' = IF tp = NULL THEN nr_threads ELSE tp
      /\ pc' = IF nr_threads' = NUM_TASKS THEN "idle" ELSE pc
      /\ regs' = regs /\ frame' = frame /\ counter' = counter /\ expected' = expected
  BY DEF start_kernel, kthread_create, Queue!Create
<1>2. PICK junk \in Values :
        thread' = [thread EXCEPT ![nr_threads] =
                     [ra |-> IF nr_threads = 0 THEN "idle" ELSE "foo",
                      sp |-> <<nr_threads, 0>>, s0 |-> NULL, s1 |-> junk]]
  BY DEF start_kernel, kthread_create
<1>3. PICK new \in Tasks : new = nr_threads
  <2>1. nr_threads \in Tasks
    BY CreatedAre DEF IInv, Booting, Tasks, start_kernel
  <2> QED BY <2>1
<1>4. /\ RP!IInv' /\ new \in Tasks /\ new \in Nat /\ Booting
      /\ Queue!Created' = Queue!Created \cup {new} /\ new \notin Queue!Created
      /\ Queue!Created \subseteq Tasks
  <2>1. RP!IInv'
    BY SameAssumption, CreatedAre, QueueCreate, RP!CreateStep
  <2>2. Booting
    BY <1>1 DEF IInv
  <2> QED BY <1>1, <1>3, <2>1, <2>2, CreatedAre DEF Booting, Tasks, Queue!Created
<1>5. /\ DOMAIN thread = Tasks /\ thread'[new].sp = <<new, 0>>
      /\ thread'[new].ra = IF new = 0 THEN "idle" ELSE "foo"
      /\ thread'[new] \in Registers
      /\ \A t \in Queue!Created : thread'[t] = thread[t]
  <2>1. DOMAIN thread = Tasks
    BY DEF IInv, Types
  <2>2. [ra |-> IF new = 0 THEN "idle" ELSE "foo",
         sp |-> <<new, 0>>, s0 |-> NULL, s1 |-> junk] \in Registers
    BY <1>4, OwnStacks DEF Registers, Codes
  <2> QED BY <1>2, <1>3, <1>4, <2>1, <2>2
<1>6. Types'
  <2>1. DOMAIN thread' = Tasks
    BY <1>2 DEF IInv, Types
  <2> QED BY <1>1, <1>4, <1>5, <2>1 DEF IInv, Types, Codes
<1>7. Waiting'
  <2>1. ASSUME NEW t \in Queue!Created PROVE t = tp' \/ NeverRun(t)' \/ InSchedule(t)'
    <3>1. tp' = tp /\ thread'[t] = thread[t]
      BY <1>1, <1>4, <1>5, CreatedAre DEF Booting
    <3>2. t = tp \/ NeverRun(t) \/ InSchedule(t)
      BY <2>1 DEF IInv, Waiting
    <3> QED BY <1>1, <3>1, <3>2 DEF NeverRun, InSchedule, HasFrame, HasCalled
  <2>2. new = tp' \/ NeverRun(new)'
    BY <1>1, <1>3, <1>4, <1>5 DEF Booting, NeverRun
  <2>3. \A t \in Queue!Created' \ {0} : thread'[t].sp[1] = StackOf(t)
    <3>1. \A t \in Queue!Created \ {0} : thread'[t].sp[1] = StackOf(t)
      BY <1>5 DEF IInv, Waiting
    <3>2. new # 0 => thread'[new].sp[1] = StackOf(new)
      BY <1>5 DEF StackOf
    <3> QED BY <1>4, <3>1, <3>2
  <2>4. ASSUME NEW t \in Queue!Created' PROVE t = tp' \/ NeverRun(t)' \/ InSchedule(t)'
    <3>1. CASE t = new
      BY <2>2, <3>1
    <3>2. CASE t # new
      <4>1. t \in Queue!Created
        BY <1>4, <3>2
      <4> QED BY <2>1, <4>1
    <3> QED BY <3>1, <3>2
  <2> QED BY <2>3, <2>4 DEF Waiting
<1>8. IF pc' = "start_kernel" THEN Booting' ELSE Running'
  <2>1. /\ regs.sp = Base(0) /\ regs.s0 = Base(0) /\ tp' = 0 /\ 0 \in Tasks
        /\ new + 1 \in Nat \ {0} /\ new < NUM_TASKS /\ NUM_TASKS \in Nat
    BY <1>1, <1>3, <1>4, CreatedAre DEF Booting
  <2>2. CASE nr_threads' = NUM_TASKS
    BY <1>1, <2>1, <2>2 DEF Running, Base, StackOf
  <2>3. CASE nr_threads' # NUM_TASKS
    <3>1. nr_threads' < NUM_TASKS /\ nr_threads' # 0 /\ pc' = "start_kernel"
      BY <1>1, <1>3, <2>1, <2>3
    <3> QED BY <1>1, <2>1, <3>1 DEF Booting, Base, StackOf
  <2> QED BY <2>2, <2>3
<1> QED BY <1>4, <1>6, <1>7, <1>8 DEF IInv

\* What a step of the running task that leaves the queue alone has to show
LEMMA RunningStep ==
  ASSUME IInv, pc \notin {"start_kernel", "switch_to"}, pc' \notin {"start_kernel", "switch_to"},
         UNCHANGED queueVars, thread' = thread, Types', Running',
         \A t \in Tasks \ {tp} : frame'[Top(t)] = frame[Top(t)] /\ expected'[t] = expected[t]
  PROVE  IInv'
<1>1. UNCHANGED RP!queueVars
  BY QueueStays
<1>2. RP!IInv'
  BY <1>1, SameAssumption, CreatedAre, RP!StutterStep
<1>3. Waiting'
  BY CreatedAre, OthersWait DEF queueVars, IInv
<1> QED BY <1>2, <1>3 DEF IInv

\* idle and foo call schedule with their own registers.
LEMMA IdleStep == ASSUME IInv, idle PROVE IInv'
<1>1. /\ pc \in {"idle", "idle_after"} /\ CallSchedule(regs, "idle_after") /\ pc' = "schedule"
      /\ UNCHANGED queueVars /\ thread' = thread /\ frame' = frame /\ Running /\ tp \in Tasks
  BY CreatedAre DEF idle, CallSchedule
<1>2. /\ Types' /\ regs' = [ra |-> "idle_after", sp |-> regs.sp, s0 |-> regs.s0, s1 |-> regs.s1]
      /\ expected'[tp] = regs /\ \A t \in Tasks \ {tp} : expected'[t] = expected[t]
  BY <1>1, CallKeepsTypes DEF IInv, Types, Codes
<1>3. Running'
  BY <1>1, <1>2 DEF Running, HasCalled, queueVars, Return, Base
<1> QED BY <1>1, <1>2, <1>3, RunningStep

LEMMA PrintStep == ASSUME IInv, foo_print PROVE IInv'
<1>1. PICK v \in Values : pc = "foo_loop" /\ CallSchedule([regs EXCEPT !.s1 = v], "foo_after")
  BY DEF foo_print
<1> DEFINE r == [regs EXCEPT !.s1 = v]
<1>2. r = [ra |-> regs.ra, sp |-> regs.sp, s0 |-> regs.s0, s1 |-> v] /\ r \in Registers
  BY DEF IInv, Types, Registers
<1>3. /\ pc' = "schedule" /\ UNCHANGED queueVars /\ thread' = thread /\ frame' = frame
      /\ Running /\ tp \in Tasks
  BY <1>1, CreatedAre DEF CallSchedule
<1>4. /\ Types' /\ regs' = [ra |-> "foo_after", sp |-> r.sp, s0 |-> r.s0, s1 |-> r.s1]
      /\ expected'[tp] = r /\ \A t \in Tasks \ {tp} : expected'[t] = expected[t]
  <2> HIDE DEF r
  <2>1. CallSchedule(r, "foo_after")
    BY <1>1 DEF r
  <2> QED BY <1>2, <1>3, <2>1, CallKeepsTypes DEF IInv, Codes
<1>5. Running'
  BY <1>1, <1>2, <1>3, <1>4 DEF Running, HasCalled, queueVars, Return, Base
<1> QED BY <1>1, <1>3, <1>4, <1>5, RunningStep

\* foo's prologue pushes a frame that is not schedule's.
LEMMA FooStep == ASSUME IInv, foo PROVE IInv'
<1>1. /\ pc = "foo" /\ pc' = "foo_loop" /\ UNCHANGED queueVars /\ thread' = thread
      /\ expected' = expected /\ Running /\ tp \in Tasks /\ tp # 0 /\ regs.sp = <<tp, 0>>
  BY CreatedAre DEF foo, Running
<1>2. /\ frame' = [frame EXCEPT ![Base(tp)] = [ra |-> regs.ra, s0 |-> regs.s0]]
      /\ regs' = [regs EXCEPT !.sp = Base(tp), !.s0 = Base(tp)]
      /\ Base(tp) \in Pointers /\ \A t \in Tasks : Top(t) # Base(tp) /\ Top(t) \in Pointers
  <2>1. Push(regs.sp) = Base(tp)
    BY <1>1, OwnStacks
  <2> QED BY <1>1, <2>1, OwnStacks DEF foo
<1>3. /\ regs' = [ra |-> regs.ra, sp |-> Base(tp), s0 |-> Base(tp), s1 |-> regs.s1]
      /\ regs' \in Registers
      /\ [ra |-> regs.ra, s0 |-> regs.s0] \in [ra : Codes \cup {NULL}, s0 : Pointers \cup {NULL}]
  <2>1. regs \in Registers
    BY DEF IInv, Types
  <2>2. regs' = [ra |-> regs.ra, sp |-> Base(tp), s0 |-> Base(tp), s1 |-> regs.s1]
    BY <1>2, <2>1 DEF Registers
  <2> QED BY <1>2, <2>1, <2>2 DEF Registers
<1>4. Types' /\ \A t \in Tasks : frame'[Top(t)] = frame[Top(t)]
  <2>1. frame' \in [Pointers -> [ra : Codes \cup {NULL}, s0 : Pointers \cup {NULL}]]
    BY <1>2, <1>3 DEF IInv, Types
  <2>2. \A t \in Tasks : frame'[Top(t)] = frame[Top(t)]
    BY <1>2 DEF IInv, Types
  <2> QED BY <1>1, <1>3, <2>1, <2>2 DEF IInv, Types, Codes, Queue!Created, queueVars
<1>5. Running'
  BY <1>1, <1>3 DEF Running, queueVars, Base
<1> QED BY <1>1, <1>4, <1>5, RunningStep

\* The rest of foo moves no pointer.
LEMMA LoopStep == ASSUME IInv, foo_after \/ foo_done PROVE IInv'
<1>1. /\ pc \in {"foo_after", "foo_loop"} /\ pc' \in {"foo_loop", "spin"}
      /\ UNCHANGED queueVars /\ UNCHANGED <<regs, thread, frame, expected>> /\ Running
  BY CreatedAre DEF foo_after, foo_done
<1>2. Types'
  BY <1>1 DEF IInv, Types, Codes, Queue!Created, queueVars
<1>3. Running'
  BY <1>1 DEF Running, queueVars, Base
<1> QED BY <1>1, <1>2, <1>3, RunningStep

\* schedule's prologue pushes its frame, the one that brings the task back.
LEMMA ScheduleStep == ASSUME IInv, schedule PROVE IInv' /\ RP!Schedule
<1>1. /\ pc = "schedule" /\ pc' = "switch_to" /\ nr_threads' = nr_threads /\ tp' = tp
      /\ thread' = thread /\ expected' = expected /\ Running /\ tp \in Tasks /\ tp # NULL
      /\ regs.sp = Base(tp) /\ regs.s0 = Base(tp) /\ regs.ra = Return(tp)
  BY CreatedAre DEF schedule, Running
<1>2. /\ frame' = [frame EXCEPT ![Top(tp)] = [ra |-> Return(tp), s0 |-> Base(tp)]]
      /\ regs' = [regs EXCEPT !.ra = "schedule_end", !.sp = Top(tp), !.s0 = Top(tp)]
      /\ Base(tp) \in Pointers /\ Top(tp) \in Pointers
      /\ \A t \in Tasks : t # tp => Top(t) # Top(tp) /\ Top(t) \in Pointers
  <2>1. Push(regs.sp) = Top(tp)
    BY <1>1, OwnStacks
  <2> QED BY <1>1, <2>1, OwnStacks DEF schedule
<1>3. /\ regs' = [ra |-> "schedule_end", sp |-> Top(tp), s0 |-> Top(tp), s1 |-> regs.s1]
      /\ regs' \in Registers
  <2>1. regs \in Registers
    BY DEF IInv, Types
  <2>2. regs' = [ra |-> "schedule_end", sp |-> Top(tp), s0 |-> Top(tp), s1 |-> regs.s1]
    BY <1>2, <2>1 DEF Registers
  <2> QED BY <1>2, <2>1, <2>2 DEF Registers, Codes
<1>4. /\ frame' \in [Pointers -> [ra : Codes \cup {NULL}, s0 : Pointers \cup {NULL}]]
      /\ frame'[Top(tp)] = [ra |-> Return(tp), s0 |-> Base(tp)]
      /\ \A t \in Tasks : t # tp => frame'[Top(t)] = frame[Top(t)]
  <2>1. [ra |-> Return(tp), s0 |-> Base(tp)] \in [ra : Codes \cup {NULL}, s0 : Pointers \cup {NULL}]
    BY <1>2 DEF Return, Codes
  <2> QED BY <1>2, <2>1 DEF IInv, Types
<1>5. Types'
  BY <1>1, <1>3, <1>4 DEF IInv, Types, Codes, Queue!Created
<1>6. Running'
  BY <1>1, <1>3, <1>4 DEF Running, HasFrame, HasCalled, Return, Base, Top
<1>7. Waiting'
  BY <1>1, <1>4, CreatedAre, OthersWait DEF IInv
<1>8. RP!Schedule
  BY <1>1, QueueSchedule
<1>9. RP!IInv'
  BY <1>8, SameAssumption, CreatedAre, RP!ScheduleStep
<1> QED BY <1>1, <1>5, <1>6, <1>7, <1>8, <1>9 DEF IInv

\* switch_to leaves the one task as the other was left.
LEMMA SwitchStep == ASSUME IInv, switch_to PROVE IInv' /\ UNCHANGED RP!queueVars
<1>1. /\ pc = "switch_to" /\ tp' = run_queue /\ pc' = thread'[run_queue].ra
      /\ thread' = [thread EXCEPT ![tp] = Saved]
      /\ regs' = [thread'[run_queue] EXCEPT !.ra = "switch_to_end"]
      /\ run_queue' = run_queue /\ nr_threads' = nr_threads
      /\ frame' = frame /\ expected' = expected
      /\ Running /\ tp \in Tasks /\ Queue!Created = Tasks
  BY CreatedAre DEF switch_to
<1>2. /\ HasFrame(tp) /\ regs.sp = Top(tp) /\ regs.s1 = expected[tp].s1
      /\ regs.ra = "schedule_end" /\ nr_threads = NUM_TASKS
  BY <1>1 DEF Running
<1>3. /\ Saved = [ra |-> "schedule_end", sp |-> Top(tp), s0 |-> Base(tp), s1 |-> expected[tp].s1]
      /\ Saved \in Registers
  <2>1. regs \in Registers
    BY DEF IInv, Types
  <2>2. Saved = [regs EXCEPT !.s0 = Base(tp)]
    BY <1>2 DEF Saved, HasFrame
  <2>3. Base(tp) \in Pointers
    BY <1>1, OwnStacks
  <2>4. Saved = [ra |-> "schedule_end", sp |-> Top(tp), s0 |-> Base(tp), s1 |-> expected[tp].s1]
    BY <1>2, <2>1, <2>2 DEF Registers
  <2> QED BY <1>2, <2>1, <2>2, <2>3, <2>4 DEF Registers
<1>4. /\ DOMAIN thread' = Tasks /\ thread'[tp] = Saved
      /\ \A t \in Tasks : t # tp => thread'[t] = thread[t]
      /\ \A t \in Tasks : thread'[t] \in Registers
  BY <1>1, <1>3 DEF IInv, Types
<1>5. PICK old \in Tasks : old = tp
  BY <1>1
<1>6. PICK new \in Tasks : new = run_queue
  BY <1>1, <1>2, CreatedAre
<1>7. \A t \in Tasks : NeverRun(t)' \/ InSchedule(t)'
  <2>1. InSchedule(old)'
    BY <1>1, <1>2, <1>3, <1>4, <1>5 DEF InSchedule, HasFrame, HasCalled
  <2>2. ASSUME NEW t \in Tasks, t # old PROVE NeverRun(t)' \/ InSchedule(t)'
    <3>1. NeverRun(t) \/ InSchedule(t)
      BY <1>1, <1>5, <2>2 DEF IInv, Waiting
    <3>2. thread'[t] = thread[t]
      BY <1>4, <1>5, <2>2
    <3> QED BY <1>1, <3>1, <3>2 DEF NeverRun, InSchedule, HasFrame, HasCalled
  <2> QED BY <2>1, <2>2
<1>8. \A t \in Tasks \ {0} : thread'[t].sp[1] = StackOf(t)
  <2>1. ASSUME NEW t \in Tasks \ {0} PROVE thread'[t].sp[1] = StackOf(t)
    <3>1. NeverRun(t)' \/ InSchedule(t)'
      BY <1>7
    <3> QED BY <3>1 DEF NeverRun, InSchedule, Top, StackOf
  <2> QED BY <2>1
<1>9. Waiting'
  BY <1>1, <1>7, <1>8 DEF Waiting, Queue!Created
<1>10. /\ regs' = [ra |-> "switch_to_end", sp |-> thread'[new].sp, s0 |-> thread'[new].s0,
                   s1 |-> thread'[new].s1]
       /\ regs' \in Registers
  <2>1. thread'[new] \in Registers
    BY <1>4
  <2>2. regs' = [thread'[new] EXCEPT !.ra = "switch_to_end"]
    BY <1>1, <1>6
  <2>3. regs' = [ra |-> "switch_to_end", sp |-> thread'[new].sp, s0 |-> thread'[new].s0,
                 s1 |-> thread'[new].s1]
    BY <2>1, <2>2 DEF Registers
  <2> QED BY <2>1, <2>3 DEF Registers, Codes
<1>11. /\ tp' = new /\ pc' = thread'[new].ra /\ nr_threads' = NUM_TASKS
  BY <1>1, <1>2, <1>6
<1>12. Running' /\ pc' \in {"foo", "schedule_end"}
  <2>1. CASE NeverRun(new)'
    <3>1. new # 0 /\ pc' = "foo" /\ regs'.sp = <<new, 0>>
      BY <1>10, <1>11, <2>1 DEF NeverRun
    <3> QED BY <1>11, <3>1 DEF Running
  <2>2. CASE InSchedule(new)'
    <3>1. /\ pc' = "schedule_end" /\ regs'.sp = Top(new) /\ regs'.s1 = expected'[new].s1
          /\ HasFrame(new)' /\ HasCalled(new)'
      BY <1>10, <1>11, <2>2 DEF InSchedule, HasFrame
    <3> QED BY <1>11, <3>1 DEF Running, HasFrame, HasCalled
  <2> QED BY <1>7, <2>1, <2>2
<1>13. Types'
  BY <1>1, <1>4, <1>10, <1>12 DEF IInv, Types, Codes, Queue!Created
<1>14. UNCHANGED RP!queueVars
  BY <1>12, QueueSwitch
<1>15. RP!IInv'
  BY <1>14, SameAssumption, CreatedAre, RP!StutterStep
<1> QED BY <1>9, <1>12, <1>13, <1>14, <1>15 DEF IInv

\* The end of schedule returns where the frame says, with what it says.
LEMMA EndStep == ASSUME IInv, schedule_end PROVE IInv'
<1>1. /\ pc = "schedule_end" /\ UNCHANGED queueVars
      /\ UNCHANGED <<thread, frame, expected>>
      /\ regs' = [regs EXCEPT !.ra = frame[regs.sp].ra, !.s0 = frame[regs.sp].s0,
                              !.sp = Pop(regs.sp)]
      /\ pc' = frame[regs.sp].ra
      /\ Running /\ tp \in Tasks
  BY CreatedAre DEF schedule_end
<1>2. HasFrame(tp) /\ HasCalled(tp) /\ regs.sp = Top(tp) /\ regs.s1 = expected[tp].s1
  BY <1>1 DEF Running
<1>3. /\ frame[regs.sp].ra = Return(tp) /\ frame[regs.sp].s0 = Base(tp)
      /\ Pop(regs.sp) = Base(tp) /\ Base(tp) \in Pointers
  <2>1. frame[regs.sp].ra = Return(tp) /\ frame[regs.sp].s0 = Base(tp)
    BY <1>2 DEF HasFrame
  <2>2. Pop(regs.sp) = Base(tp) /\ Base(tp) \in Pointers
    BY <1>1, <1>2, OwnStacks
  <2> QED BY <2>1, <2>2
<1>4. /\ regs' = [ra |-> Return(tp), sp |-> Base(tp), s0 |-> Base(tp), s1 |-> regs.s1]
      /\ regs' \in Registers
  <2>1. regs \in Registers
    BY DEF IInv, Types
  <2>2. regs' = [ra |-> Return(tp), sp |-> Base(tp), s0 |-> Base(tp), s1 |-> regs.s1]
    BY <1>1, <1>3, <2>1 DEF Registers
  <2> QED BY <1>3, <2>1, <2>2 DEF Registers, Codes, Return
<1>5. pc' = Return(tp) /\ pc' \in {"idle_after", "foo_after"}
  BY <1>1, <1>3 DEF Return
<1>6. Types'
  BY <1>1, <1>4, <1>5 DEF IInv, Types, Codes, Queue!Created, queueVars
<1>7. Running'
  <2>1. /\ tp' = tp /\ nr_threads' = nr_threads /\ nr_threads = NUM_TASKS
        /\ regs'.sp = Base(tp) /\ regs'.s0 = Base(tp) /\ regs'.s1 = regs.s1
        /\ HasCalled(tp)' /\ pc' = IF tp = 0 THEN "idle_after" ELSE "foo_after"
    <3>1. tp' = tp /\ nr_threads' = nr_threads /\ nr_threads = NUM_TASKS /\ expected' = expected
      BY <1>1 DEF queueVars, Running
    <3>2. regs'.sp = Base(tp) /\ regs'.s0 = Base(tp) /\ regs'.s1 = regs.s1
      BY <1>4
    <3>3. HasCalled(tp)'
      BY <1>2, <3>1 DEF HasCalled, Base, StackOf
    <3> QED BY <1>5, <3>1, <3>2, <3>3 DEF Return
  <2> QED BY <1>1, <1>2, <2>1 DEF Running, queueVars, Base
<1> QED BY <1>1, <1>5, <1>6, <1>7, RunningStep

\* Nothing happens while a thread spins.
LEMMA StutterStep == ASSUME IInv, UNCHANGED vars PROVE IInv' /\ UNCHANGED RP!queueVars
<1>1. /\ pc' = pc /\ regs' = regs /\ thread' = thread /\ frame' = frame /\ expected' = expected
      /\ next' = next /\ prev' = prev /\ run_queue' = run_queue
      /\ nr_threads' = nr_threads /\ tp' = tp
  BY DEF vars, queueVars
<1>2. UNCHANGED RP!queueVars
  BY <1>1 DEF RP!queueVars, RP!ringVars
<1>3. RP!IInv'
  BY <1>2, SameAssumption, RP!StutterStep DEF IInv
<1>4. Types' /\ Waiting'
  BY <1>1 DEF IInv, Types, Waiting, NeverRun, InSchedule, HasFrame, HasCalled, Queue!Created
<1>5. IF pc' = "start_kernel" THEN Booting' ELSE Running'
  BY <1>1 DEF IInv, Booting, Running, HasFrame, HasCalled
<1> QED BY <1>2, <1>3, <1>4, <1>5 DEF IInv

\* No task has been created.
LEMMA InitSound == Init => IInv /\ RP!Init
<1> SUFFICES ASSUME Init PROVE IInv /\ RP!Init
  OBVIOUS
<1>1. RP!Init
  BY DEF Init, RP!Init, RP!InitQueue, Queue!InitQueue, RP!Tasks, Queue!Tasks
<1>2. RP!IInv
  BY <1>1, SameAssumption, RP!InitSound
<1>3. nr_threads = 0 /\ tp = NULL /\ pc = "start_kernel" /\ Queue!Created = {}
  BY DEF Init, Queue!InitQueue, Queue!Created
<1>4. Types
  <2>1. Base(0) \in Pointers
    BY DEF Base, StackOf, Pointers, Stacks, BOOT
  <2>2. Base(0) = <<BOOT, 1>>
    BY DEF Base, StackOf
  <2> QED BY <1>3, <2>1, <2>2 DEF Init, Types, Registers, Codes
<1>5. Waiting
  BY <1>3 DEF Waiting
<1>6. Booting
  BY <1>3, ThreadsAssumption DEF Init, Booting, Base, StackOf
<1> QED BY <1>1, <1>2, <1>3, <1>4, <1>5, <1>6 DEF IInv

-----------------------------------------------------------------------------
(* Theorems *)

\* Every step of the program keeps the invariant and is a step of the queue.
LEMMA NextStep ==
  ASSUME IInv, [Next]_vars
  PROVE  IInv' /\ [RP!Next]_(RP!queueVars)
<1>1. CASE start_kernel
  BY <1>1, StartKernelStep, QueueCreate DEF RP!Next
<1>2. CASE idle
  <2>1. UNCHANGED queueVars /\ pc # "switch_to" /\ pc' # "switch_to"
    BY <1>2 DEF idle, CallSchedule
  <2> QED BY <1>2, <2>1, IdleStep, QueueStays
<1>3. CASE foo \/ foo_print \/ foo_after \/ foo_done
  <2>1. UNCHANGED queueVars /\ pc # "switch_to" /\ pc' # "switch_to"
    BY <1>3 DEF foo, foo_print, foo_after, foo_done, CallSchedule
  <2> QED BY <1>3, <2>1, FooStep, PrintStep, LoopStep, QueueStays
<1>4. CASE schedule
  BY <1>4, ScheduleStep DEF RP!Next
<1>5. CASE switch_to
  BY <1>5, SwitchStep
<1>6. CASE schedule_end
  <2>1. UNCHANGED queueVars /\ pc # "switch_to"
    BY <1>6 DEF schedule_end
  <2>2. pc' # "switch_to"
    <3>1. HasFrame(tp) /\ regs.sp = Top(tp) /\ pc' = frame[regs.sp].ra
      BY <1>6, CreatedAre DEF schedule_end, Running
    <3> QED BY <3>1 DEF HasFrame, Return
  <2> QED BY <1>6, <2>1, <2>2, EndStep, QueueStays
<1>7. CASE UNCHANGED vars
  BY <1>7, StutterStep
<1> QED BY <1>1, <1>2, <1>3, <1>4, <1>5, <1>6, <1>7 DEF Next, Spin

\* A task that does not run has never run or waits in schedule, with its frame
\* and its task_struct as the call left them.
THEOREM Inductive == Spec => []IInv
<1>1. IInv /\ [Next]_vars => IInv'
  BY NextStep
<1> QED BY <1>1, InitSound, PTL DEF Spec

\* For any number of threads and rounds, schedule returns to each of them with
\* sp, s0 and the callee-saved registers of the call, on a stack of its own.
THEOREM AlwaysResumesAsLeft == Spec => []ResumesAsLeft
<1>1. IInv => ResumesAsLeft
  <2> SUFFICES ASSUME IInv, pc # "start_kernel"
               PROVE  /\ regs.sp[1] = StackOf(tp)
                      /\ \A t \in Threads : thread[t].sp[1] = StackOf(t)
                      /\ pc \in {"idle_after", "foo_after"} =>
                           /\ regs.sp = expected[tp].sp
                           /\ regs.s0 = expected[tp].s0
                           /\ regs.s1 = expected[tp].s1
    BY DEF ResumesAsLeft, OwnStack
  <2>1. Running /\ Queue!Created = Tasks /\ Types /\ Waiting
    BY CreatedAre DEF IInv
  <2>2. \A t \in Threads : thread[t].sp[1] = StackOf(t)
    BY <2>1 DEF Threads, Waiting
  <2>3. \/ regs.sp \in {Base(tp), Top(tp)}
        \/ regs.sp = <<tp, 0>> /\ tp # 0
    <3>1. pc \in {"foo", "idle", "idle_after", "foo_loop", "foo_after", "schedule", "spin",
                 "switch_to", "schedule_end"}
      BY <2>1 DEF Running, Types, Codes
    <3>2. CASE pc = "foo"
      BY <2>1, <3>2 DEF Running
    <3>3. CASE pc # "foo"
      BY <2>1, <3>1, <3>3 DEF Running
    <3> QED BY <3>2, <3>3
  <2>4. regs.sp[1] = StackOf(tp)
    BY <2>3 DEF StackOf, Base, Top
  <2> QED BY <2>1, <2>2, <2>4 DEF Running, HasCalled
<1> QED BY <1>1, Inductive, PTL

\* The ring turned in schedule and tp moved in switch_to are together one step
\* of the run queue, which RunQueueProofs shows to be the queue of ReadyQueue.
THEOREM ImplementsQueue == Spec => ImplementsRunQueue
<1>1. RP!Init => AtomicQueue!Init
  BY DEF RP!Init, RP!InitQueue, AtomicQueue!Init, AtomicQueue!InitQueue, RP!Tasks, AtomicQueue!Tasks
<1>2. [RP!Next]_(RP!queueVars) => [AtomicQueue!Next]_(AtomicQueue!queueVars)
  BY DEF RP!Next, AtomicQueue!Next, RP!queueVars, AtomicQueue!queueVars, RP!ringVars,
         AtomicQueue!ringVars, RP!Create, AtomicQueue!Create, RP!Schedule, AtomicQueue!Schedule,
         RP!Enqueue, AtomicQueue!Enqueue, RP!Link, AtomicQueue!Link, RP!ScheduleRing,
         AtomicQueue!ScheduleRing, RP!Rotate, AtomicQueue!Rotate, RP!MoveToTail,
         AtomicQueue!MoveToTail, RP!Unlinked_prev, AtomicQueue!Unlinked_prev,
         RP!Unlinked_next, AtomicQueue!Unlinked_next
<1>3. IInv /\ [Next]_vars => [AtomicQueue!Next]_(AtomicQueue!queueVars)
  BY <1>2, NextStep
<1> QED BY <1>1, <1>3, InitSound, Inductive, PTL DEF Spec, ImplementsRunQueue, AtomicQueue!Spec
=============================================================================
