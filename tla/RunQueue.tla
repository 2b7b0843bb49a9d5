------------------------------- MODULE RunQueue -------------------------------
(***************************************************************************)
(* The run queue of ex51/main.c: a ring of task_structs linked both ways,  *)
(* entered through run_queue. kthread_create puts a task into it and       *)
(* schedule takes the running one, tp, round to the end. A task is its     *)
(* pid; every write to a pointer is one update, in the order of the code,  *)
(* since later ones read what earlier ones wrote.                          *)
(***************************************************************************)
EXTENDS Integers

CONSTANTS
  NUM_TASKS,   \* the tasks that are ever created
  NULL

Tasks == 0 .. (NUM_TASKS - 1)

ASSUME TasksAssumption ==
  /\ NUM_TASKS \in Nat \ {0}
  /\ NULL \notin Tasks

VARIABLES
  next,         \* task->next
  prev,         \* task->prev
  run_queue,
  nr_threads,   \* the tasks created so far
  tp            \* the running task, in the register tp

ringVars == <<next, prev, run_queue>>
queueVars == <<ringVars, nr_threads, tp>>

Created == 0 .. (nr_threads - 1)

InitQueue ==
  /\ next = [t \in Tasks |-> NULL]
  /\ prev = [t \in Tasks |-> NULL]
  /\ run_queue = NULL
  /\ nr_threads = 0
  /\ tp = NULL

-----------------------------------------------------------------------------
\* Mutant: the old head does not learn of its new predecessor.
Link_NoPrev(task) ==
  /\ next' = [next EXCEPT ![task] = run_queue, ![prev[run_queue]] = task]
  /\ prev' = [prev EXCEPT ![task] = prev[run_queue]]
  /\ run_queue' = task

\* enqueue into a ring that has a head: the task becomes the head, between
\* the old head and the tail.
Link(task) ==
  /\ next' = [next EXCEPT ![task] = run_queue, ![prev[run_queue]] = task]
  /\ prev' = [prev EXCEPT ![task] = prev[run_queue], ![run_queue] = task]
  /\ run_queue' = task

\* enqueue
Enqueue(task) ==
  \/ /\ run_queue = NULL
     /\ run_queue' = task
     /\ prev' = [prev EXCEPT ![task] = task]
     /\ next' = [next EXCEPT ![task] = task]
  \/ /\ run_queue # NULL
     /\ Link(task)

\* The two assignments that take a task out of the ring.
Unlinked_prev(task) == [prev EXCEPT ![next[task]] = prev[task]]
Unlinked_next(task) == [next EXCEPT ![prev[task]] = next[task]]

\* Mutant: the task is linked in without having been taken out.
MoveToTail_NotUnlinked(task) ==
  LET tail == prev[run_queue]
  IN  /\ next' = [next EXCEPT ![task] = run_queue, ![tail] = task]
      /\ prev' = [prev EXCEPT ![task] = tail, ![run_queue] = task]
      /\ UNCHANGED run_queue

\* A running task that is not the head goes between the tail and the head.
MoveToTail(task) ==
  LET p    == Unlinked_prev(task)
      n    == Unlinked_next(task)
      tail == p[run_queue]
  IN  /\ next' = [n EXCEPT ![task] = run_queue, ![tail] = task]
      /\ prev' = [p EXCEPT ![task] = tail, ![run_queue] = task]
      /\ UNCHANGED run_queue

\* A running task that is the head: turning the ring puts it at the end.
Rotate ==
  /\ run_queue' = next[tp]
  /\ UNCHANGED <<next, prev>>

\* schedule, up to the call of switch_to(prev, next): next is run_queue'.
ScheduleRing ==
  \/ tp = run_queue /\ Rotate
  \/ tp # run_queue /\ MoveToTail(tp)

-----------------------------------------------------------------------------
\* kthread_create by the running code. The first task created is made the
\* running one by start_kernel.
Create ==
  /\ nr_threads < NUM_TASKS
  /\ Enqueue(nr_threads)
  /\ nr_threads' = nr_threads + 1
  /\ tp' = IF tp = NULL THEN nr_threads ELSE tp

\* schedule by the running task; switch_to moves tp to the task it resumes.
Schedule ==
  /\ tp # NULL
  /\ ScheduleRing
  /\ tp' = run_queue'
  /\ UNCHANGED nr_threads

Init == InitQueue
Next == Create \/ Schedule

Spec == Init /\ [][Next]_queueVars

-----------------------------------------------------------------------------
(* Properties *)

\* Types; once a task has been created there is a head and a running task.
TypeOK ==
  /\ next \in [Tasks -> Tasks \cup {NULL}]
  /\ prev \in [Tasks -> Tasks \cup {NULL}]
  /\ nr_threads \in 0 .. NUM_TASKS
  /\ {run_queue, tp} \subseteq IF nr_threads = 0 THEN {NULL} ELSE Created

\* The ring as the sequence it stands for, head first.
RingFrom(head, n) ==
  LET walk[i \in 1 .. n] == IF i = 1 THEN head ELSE next[walk[i - 1]]
  IN  walk

Ring == RingFrom(run_queue, nr_threads)

\* Whatever the order of creations and yields, following next from the head
\* comes past every task once and back to the head, and prev is the way back.
RingSound ==
  nr_threads > 0 =>
    /\ {Ring[i] : i \in 1 .. nr_threads} = Created
    /\ next[Ring[nr_threads]] = run_queue
    /\ \A t \in Created : next[prev[t]] = t /\ prev[next[t]] = t

\* The ring is the abstract queue: both branches of schedule move the running
\* task to the end and run the front one, nobody else changes place.
Abstract == INSTANCE ReadyQueue WITH queue <- Ring, running <- tp
ImplementsReadyQueue == Abstract!Spec
=============================================================================
