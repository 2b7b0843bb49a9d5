------------------------------ MODULE ReadyQueue ------------------------------
(***************************************************************************)
(* What a cooperative round-robin scheduler promises, with no pointers: a  *)
(* queue of threads, in the order in which they will run. A new thread     *)
(* goes to the front, the thread that yields to the back, and the front    *)
(* thread runs next.                                                       *)
(***************************************************************************)
EXTENDS Naturals, Sequences, SequencesExt

CONSTANTS Tasks, NULL

VARIABLES
  queue,     \* the threads there are, the next to run first
  running    \* the thread on the processor

vars == <<queue, running>>

Init ==
  /\ queue = << >>
  /\ running = NULL

Create(t) ==
  /\ t \notin ToSet(queue)
  /\ queue' = <<t>> \o queue
  /\ running' = IF running = NULL THEN t ELSE running

Yield ==
  /\ running # NULL
  /\ \E i \in DOMAIN queue :
       /\ queue[i] = running
       /\ queue' = RemoveAt(queue, i) \o <<running>>
  /\ running' = Head(queue')

Next == Yield \/ \E t \in Tasks : Create(t)

Spec == Init /\ [][Next]_vars
=============================================================================
