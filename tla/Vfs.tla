--------------------------------- MODULE Vfs ---------------------------------
(***************************************************************************)
(* The file system of ex71: my_open, my_close, my_read and my_write over   *)
(* vfs.c and tmpfs. In tmpfs.c the creation of vnodes, reading and writing *)
(* are bodies left to be written: they are external here, a tmpfs that     *)
(* does what struct tmpfs_vnode and main ask for.                          *)
(*                                                                         *)
(* A path is the sequence of what stands between its slashes: << >> is "", *)
(* <<"">> is "/". A vnode is its number, its internal a record; the root   *)
(* is vnode 1. No code sets the mount of a vnode, so lookups meet none.    *)
(***************************************************************************)
EXTENDS Integers, Sequences, SequencesExt, FiniteSets, FiniteSetsExt

CONSTANTS MAX_FD, ENTRIES, SIZE, Paths, Data, NONE

VARIABLES
  request,   \* the last call and its arguments
  answer,    \* what the last call to return has returned
  pc,        \* what is executed
  i,         \* my_open's counter
  node,      \* vfs_lookup's node, which becomes vfs_open's vnode
  rest,      \* the components that vfs_lookup has still to look up
  vnodes,    \* the internals of the vnodes
  fdt,       \* the file object of each descriptor, 0 for none
  heap       \* the file objects

vars == <<request, answer, pc, i, node, rest, vnodes, fdt, heap>>

\* The path of a vnode: all files lie in the root, as nothing makes directories.
PathOf(n) == IF n = 1 THEN << >> ELSE <<vnodes[n].name>>
VnodeAt(p) == CHOOSE n \in DOMAIN vnodes : PathOf(n) = p

Promise ==
  INSTANCE DescriptorTable WITH
    answered <- pc = "main",
    contents <- [p \in {PathOf(n) : n \in DOMAIN vnodes} |->
                   vnodes[VnodeAt(p)].data],
    fds <- [d \in 0 .. (MAX_FD - 1) |->
              IF fdt[d] = 0 THEN NONE
              ELSE [file |-> PathOf(heap[fdt[d]].vnode),
                    pos |-> heap[fdt[d]].f_pos]],
    objects <- Cardinality(DOMAIN heap)

\* What stands between the slashes of a path
Components == UNION {{p[k] : k \in DOMAIN p} : p \in Paths}

\* NONE is no open descriptor.
ASSUME VfsAssumption ==
  /\ MAX_FD \in Nat \ {0} /\ ENTRIES \in Nat /\ SIZE \in Nat
  /\ Paths \subseteq Seq(Components)
  /\ NONE \notin [file : Seq(Components), pos : Nat]

\* main has mounted a tmpfs as the root.
Init ==
  /\ request = NONE
  /\ answer = 0
  /\ pc = "main"
  /\ i = 0
  /\ node = 1
  /\ rest = << >>
  /\ vnodes = <<[type |-> "FS_DIR", name |-> "", entry |-> << >>, data |-> << >>]>>
  /\ fdt = [d \in 0 .. (MAX_FD - 1) |-> 0]
  /\ heap = << >>

\* Any call with any arguments, the descriptors in the table's bounds
Call ==
  /\ pc = "main"
  /\ request' \in Promise!Requests
  /\ pc' = request'.op
  /\ i' = 0
  /\ UNCHANGED <<answer, node, rest, vnodes, fdt, heap>>

Return(a) ==
  /\ pc' = "main"
  /\ answer' = a
  /\ UNCHANGED <<request, i, node, rest>>

-----------------------------------------------------------------------------
(* vfs_lookup *)

vfs_lookup(pathname, caller) ==
  /\ node' = 1
  /\ rest' = pathname
  /\ pc' = caller

\* The entries of a directory with a name; tmpfs_lookup takes the first.
Named(dir, component) ==
  {k \in DOMAIN vnodes[dir].entry :
     vnodes[vnodes[dir].entry[k]].name = component}

tmpfs_lookup(dir, component) == vnodes[dir].entry[Min(Named(dir, component))]

\* A component is found.
LookupGoesOn ==
  /\ pc \in {"lookup pathname", "lookup dirname"}
  /\ rest # << >>
  /\ Named(node, Head(rest)) # {}
  /\ node' = tmpfs_lookup(node, Head(rest))
  /\ rest' = Tail(rest)
  /\ UNCHANGED <<request, answer, pc, i, vnodes, fdt, heap>>

LookupSucceeds == rest = << >>
LookupFails == rest # << >> /\ Named(node, Head(rest)) = {}

-----------------------------------------------------------------------------
(* my_open and vfs_open *)

\* The loop of my_open over the table
my_open ==
  /\ pc = "open"
  /\ \/ /\ i = MAX_FD
        /\ Return(-1)
     \/ /\ i < MAX_FD /\ fdt[i] # 0
        /\ i' = i + 1
        /\ UNCHANGED <<request, answer, pc, node, rest>>
     \/ /\ i < MAX_FD /\ fdt[i] = 0
        /\ vfs_lookup(request.path, "lookup pathname")
        /\ UNCHANGED <<request, answer, i>>
  /\ UNCHANGED <<vnodes, fdt, heap>>

\* What malloc returns: memory that is not in use
malloc == Min((1 .. Cardinality(DOMAIN heap) + 1) \ DOMAIN heap)

\* The end of vfs_open and my_open, with tmpfs_open: a new object for vnode n
OpenVnode(n) ==
  /\ heap' = [o \in DOMAIN heap \cup {malloc} |->
                IF o = malloc THEN [vnode |-> n, f_pos |-> 0] ELSE heap[o]]
  /\ fdt' = [fdt EXCEPT ![i] = malloc]
  /\ Return(i)

\* Mutant: the last slash is copied too.
dirname_WithSlash == Append(Front(request.path), "")

\* What stands before the last slash
dirname == Front(request.path)

\* What vfs_open does when it knows whether the file is there. If not, and
\* without O_CREAT, vnode has never been set, and anything may happen.
AfterLookup ==
  /\ pc = "lookup pathname"
  /\ \/ LookupSucceeds /\ OpenVnode(node)
     \/ /\ LookupFails
        /\ IF request.creat
             THEN vfs_lookup(dirname, "lookup dirname")
             ELSE pc' = "undefined" /\ UNCHANGED <<node, rest>>
        /\ UNCHANGED <<request, answer, i, fdt, heap>>
  /\ UNCHANGED vnodes

\* create in a directory with room: a new vnode, in the first free entry
tmpfs_create ==
  LET n == Len(vnodes) + 1
  IN  /\ vnodes' = Append([vnodes EXCEPT ![node].entry = Append(@, n)],
                      [type |-> "FS_FILE", name |-> Last(request.path),
                       entry |-> << >>, data |-> << >>])
      /\ OpenVnode(n)

CanCreate == vnodes[node].type = "FS_DIR" /\ Len(vnodes[node].entry) < ENTRIES

\* The directory is found: create is called, and its result not looked at. If
\* it fails, vnode is still the directory. If there is no directory, vfs_open
\* fails, and my_open tries the next descriptor.
AfterDirLookup ==
  /\ pc = "lookup dirname"
  /\ \/ LookupSucceeds /\ CanCreate /\ tmpfs_create
     \/ LookupSucceeds /\ ~CanCreate /\ OpenVnode(node) /\ UNCHANGED vnodes
     \/ /\ LookupFails
        /\ i' = i + 1
        /\ pc' = "open"
        /\ UNCHANGED <<request, answer, node, rest, vnodes, fdt, heap>>

-----------------------------------------------------------------------------
\* my_close, vfs_close, tmpfs_close
my_close ==
  /\ pc = "close"
  /\ LET fd == request.fd
     IN  IF fdt[fd] # 0
           THEN /\ heap' = [o \in DOMAIN heap \ {fdt[fd]} |-> heap[o]]
                /\ fdt' = [fdt EXCEPT ![fd] = 0]
                /\ Return(0)
           ELSE Return(-1) /\ UNCHANGED <<fdt, heap>>
  /\ UNCHANGED vnodes

\* tmpfs_read and tmpfs_write of a unit, through file object o: what is read or
\* written begins at f_pos, which moves on.
tmpfs_read(o) ==
  LET data == vnodes[heap[o].vnode].data
      at == heap[o].f_pos + 1
  IN  /\ IF vnodes[heap[o].vnode].type = "FS_DIR"
           THEN Return(-1) /\ UNCHANGED heap
           ELSE IF at > Len(data)
             THEN Return(0) /\ UNCHANGED heap
             ELSE Return(data[at]) /\ heap' = [heap EXCEPT ![o].f_pos = at]
      /\ UNCHANGED vnodes

tmpfs_write(o, unit) ==
  LET n == heap[o].vnode
      at == heap[o].f_pos + 1
  IN  IF vnodes[n].type = "FS_DIR" \/ at > SIZE
        THEN /\ Return(IF vnodes[n].type = "FS_DIR" THEN -1 ELSE 0)
             /\ UNCHANGED <<heap, vnodes>>
        ELSE /\ vnodes' = [vnodes EXCEPT ![n].data =
                  IF at > Len(@) THEN Append(@, unit) ELSE ReplaceAt(@, at, unit)]
             /\ heap' = [heap EXCEPT ![o].f_pos = at]
             /\ Return(1)

my_read ==
  /\ pc = "read"
  /\ IF fdt[request.fd] # 0
       THEN tmpfs_read(fdt[request.fd])
       ELSE Return(-1) /\ UNCHANGED <<heap, vnodes>>
  /\ UNCHANGED fdt

my_write ==
  /\ pc = "write"
  /\ IF fdt[request.fd] # 0
       THEN tmpfs_write(fdt[request.fd], request.data)
       ELSE Return(-1) /\ UNCHANGED <<heap, vnodes>>
  /\ UNCHANGED fdt

-----------------------------------------------------------------------------
\* The calls, once made, go on to their end.
Calls ==
  \/ my_open \/ LookupGoesOn \/ AfterLookup \/ AfterDirLookup
  \/ my_close \/ my_read \/ my_write

Next == Call \/ Calls

Spec == Init /\ [][Next]_vars /\ WF_vars(Calls)

-----------------------------------------------------------------------------
(* Property *)

\* Through all walks, slots tried and objects allocated, the four functions do
\* what DescriptorTable promises: a path leads to its own file whichever way it
\* was made, a descriptor to the file and the position it was opened with, no
\* object is lost or freed twice, nothing is created when there is no
\* descriptor left, and every call that is defined comes back.
ImplementsDescriptorTable == Promise!Spec
=============================================================================
