--------------------------- MODULE DescriptorTable ---------------------------
(***************************************************************************)
(* What my_open, my_close, my_read and my_write of ex71 promise: files     *)
(* known by their paths, a table of descriptors, each with a position of   *)
(* its own, and a file object for every descriptor in use. No vnodes, no   *)
(* pointers, and every call is answered in one step.                       *)
(*                                                                         *)
(* A path is the sequence of what stands between its slashes. Nothing is   *)
(* promised, not even an answer, of opening a file that is not there       *)
(* without O_CREAT. Creating one where none can be created opens what was  *)
(* to be its directory: my_open goes on with the vnode it looked up there. *)
(***************************************************************************)
EXTENDS Integers, Sequences, SequencesExt, FiniteSets, FiniteSetsExt

CONSTANTS
  MAX_FD,    \* descriptors
  ENTRIES,   \* files in a directory
  SIZE,      \* units of data in a file
  Paths,     \* paths that are opened
  Data,      \* what a unit of data may be
  NONE

VARIABLES
  request,    \* the last call
  answered,   \* it has returned
  answer,     \* what it has returned
  contents,   \* the files and the root directory: what they hold
  fds,        \* the file and the position of each descriptor
  objects     \* the number of file objects

vars == <<request, answered, answer, contents, fds, objects>>

ROOT == << >>
Fds == 0 .. (MAX_FD - 1)
Free == {d \in Fds : fds[d] = NONE}

Requests ==
  [op : {"open"}, path : Paths, creat : BOOLEAN]
    \cup [op : {"close", "read"}, fd : Fds]
    \cup [op : {"write"}, fd : Fds, data : Data]

Init ==
  /\ request = NONE
  /\ answered = TRUE
  /\ answer = 0
  /\ contents = [p \in {ROOT} |-> << >>]
  /\ fds = [d \in Fds |-> NONE]
  /\ objects = 0

Call ==
  /\ answered
  /\ request' \in Requests
  /\ answered' = FALSE
  /\ UNCHANGED <<answer, contents, fds, objects>>

Answer(a) ==
  /\ answered' = TRUE
  /\ answer' = a
  /\ UNCHANGED request

\* The lowest free descriptor becomes one of file p, at its beginning.
Bind(p) ==
  /\ fds' = [fds EXCEPT ![Min(Free)] = [file |-> p, pos |-> 0]]
  /\ objects' = objects + 1
  /\ Answer(Min(Free))

CanCreate(p) == Front(p) = ROOT /\ Cardinality(DOMAIN contents \ {ROOT}) < ENTRIES

\* A new file is made only if there is a descriptor for it.
Open ==
  /\ request.op = "open"
  /\ LET p == request.path
         exists == p \in DOMAIN contents
         parent == Front(p) \in DOMAIN contents
     IN  \/ /\ Free = {} \/ (~exists /\ request.creat /\ ~parent)
            /\ Answer(-1)
            /\ UNCHANGED <<contents, fds, objects>>
         \/ Free # {} /\ exists /\ Bind(p) /\ UNCHANGED contents
         \/ /\ Free # {} /\ ~exists /\ request.creat /\ parent
            /\ IF CanCreate(p)
                 THEN /\ contents' = [q \in DOMAIN contents \cup {p} |->
                                       IF q = p THEN << >> ELSE contents[q]]
                      /\ Bind(p)
                 ELSE Bind(Front(p)) /\ UNCHANGED contents

Close ==
  /\ request.op = "close"
  /\ LET d == request.fd
     IN  /\ fds' = [fds EXCEPT ![d] = NONE]
         /\ objects' = objects - (IF d \in Free THEN 0 ELSE 1)
         /\ Answer(IF d \in Free THEN -1 ELSE 0)
  /\ UNCHANGED contents

\* The unit at the position is read or written, and the position moved on.
Access ==
  /\ request.op \in {"read", "write"}
  /\ LET d == request.fd
         p == fds[d].file
         at == fds[d].pos + 1
         Moved == fds' = [fds EXCEPT ![d].pos = at]
     IN  \/ /\ d \in Free \/ p = ROOT
            /\ Answer(-1)
            /\ UNCHANGED <<contents, fds>>
         \/ /\ d \notin Free /\ p # ROOT
            /\ IF request.op = "read"
                 THEN /\ UNCHANGED contents
                      /\ IF at <= Len(contents[p])
                           THEN Moved /\ Answer(contents[p][at])
                           ELSE UNCHANGED fds /\ Answer(0)
                 ELSE IF at <= SIZE
                   THEN /\ contents' = [contents EXCEPT ![p] =
                             SubSeq(@, 1, at - 1) \o <<request.data>>
                               \o SubSeq(@, at + 1, Len(@))]
                        /\ Moved /\ Answer(1)
                   ELSE UNCHANGED <<contents, fds>> /\ Answer(0)
  /\ UNCHANGED objects

Answers == ~answered /\ (Open \/ Close \/ Access)

Next == Call \/ Answers

\* A call of which anything is promised is answered.
Spec == Init /\ [][Next]_vars /\ WF_vars(Answers)
=============================================================================
