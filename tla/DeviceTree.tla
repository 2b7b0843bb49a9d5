------------------------------ MODULE DeviceTree ------------------------------
(***************************************************************************)
(* ex21: fdt_path_offset walks the tokens of a flattened device tree until *)
(* it meets the node of a path, and fdt_getprop looks up a property there. *)
(* An offset is the number of a token: where the next one begins, past a   *)
(* name or a value and its padding, is left out. Names and paths are       *)
(* sequences of characters, since what matters is which of them match.     *)
(***************************************************************************)
EXTENDS Integers, Sequences, FiniteSets, FiniteSetsExt

CONSTANTS
  Trees,       \* trees looked at, as sequences of tokens
  Paths,       \* paths looked up, which begin with a slash
  PropNames    \* properties looked up

VARIABLES
  fdt, path, name,                    \* the arguments
  pc,                                 \* the function that runs, or "idle"
  cur_off, cur_depth, matching_depth, \* its local variables
  offset,                             \* what fdt_path_offset returns
  prop                                \* what fdt_getprop returns, 0 for NULL

vars == <<fdt, path, name, pc, cur_off, cur_depth, matching_depth, offset, prop>>

NUL == "NUL"
CharAt(s, n) == IF n \in DOMAIN s THEN s[n] ELSE NUL

Init ==
  /\ fdt \in Trees
  /\ path \in Paths
  /\ name \in PropNames
  /\ pc = "fdt_path_offset"
  /\ cur_off = 1
  /\ cur_depth = -2
  /\ matching_depth = 0
  /\ offset = 0
  /\ prop = 0

-----------------------------------------------------------------------------
Slashes == {n \in DOMAIN path : path[n] = "/"}
path_depth == Cardinality(Slashes)

\* path + path_idx[k]: the path from its k-th component to its end
Rest(k) ==
  LET slash == CHOOSE n \in Slashes : Cardinality({m \in Slashes : m < n}) = k
  IN  SubSeq(path, slash + 1, Len(path))

\* strncmp2(node_name, rest, strlen(node_name)): all characters of the node's
\* name are there, or all up to its '@', where the component ends, provided
\* that no '@' follows in the path.
strncmp2(node_name, rest) ==
  LET Differ == {n \in DOMAIN node_name : node_name[n] # CharAt(rest, n)}
      first == Min(Differ)
  IN  \/ Differ = {}
      \/ /\ \A n \in DOMAIN rest : rest[n] # "@"
         /\ node_name[first] = "@"
         /\ CharAt(rest, first) \in {"/", NUL}

Token == fdt[cur_off]

\* fdt_path_offset returns result, and main looks up a property there. Its first
\* call looks at the result before; the others do not, and with -1 fdt_getprop
\* then reads what is no token, of which nothing more is modelled.
Return(result) ==
  /\ offset' = result
  /\ pc' \in IF result > 0 THEN {"fdt_getprop"} ELSE {"idle", "undefined"}
  /\ cur_off' = IF result > 0 THEN result + 1 ELSE cur_off
  /\ UNCHANGED <<fdt, path, name, prop>>

Advance ==
  /\ cur_off' = cur_off + 1
  /\ UNCHANGED <<fdt, path, name, pc, offset, prop>>

\* case FDT_BEGIN_NODE
BeginNode ==
  /\ pc = "fdt_path_offset"
  /\ Token.kind = "FDT_BEGIN_NODE"
  /\ cur_depth' = cur_depth + 1
  /\ IF cur_depth' = matching_depth /\ strncmp2(Token.name, Rest(cur_depth'))
       THEN /\ matching_depth' = matching_depth + 1
            /\ IF matching_depth' = path_depth THEN Return(cur_off) ELSE Advance
       ELSE Advance /\ UNCHANGED matching_depth

\* Mutant: leaving the node that matched goes unnoticed.
LeavesMatched_Never(depth) == FALSE

\* Is the node that ends, above which the depth is the one given, the one that
\* matched last?
LeavesMatched(depth) == depth + 1 < matching_depth

\* case FDT_END_NODE
EndNode ==
  /\ pc = "fdt_path_offset"
  /\ Token.kind = "FDT_END_NODE"
  /\ cur_depth' = cur_depth - 1
  /\ IF LeavesMatched(cur_depth') THEN Return(-1) ELSE Advance
  /\ UNCHANGED matching_depth

\* case FDT_PROP, case FDT_NOP
SkipToken ==
  /\ pc = "fdt_path_offset"
  /\ Token.kind \in {"FDT_PROP", "FDT_NOP"}
  /\ Advance
  /\ UNCHANGED <<cur_depth, matching_depth>>

\* case FDT_END, default
EndOfTree ==
  /\ pc = "fdt_path_offset"
  /\ Token.kind \notin {"FDT_BEGIN_NODE", "FDT_END_NODE", "FDT_PROP", "FDT_NOP"}
  /\ Return(-1)
  /\ UNCHANGED <<cur_depth, matching_depth>>

\* Mutant: the loop passes over everything that is not a property.
MoreProps_ToEnd == Token.kind # "FDT_END"

\* The condition of fdt_getprop's loop
MoreProps == Token.kind = "FDT_PROP"

\* A turn of fdt_getprop's loop, or its end
fdt_getprop ==
  /\ pc = "fdt_getprop"
  /\ LET Found == Token.kind = "FDT_PROP" /\ Token.name = name
     IN  IF MoreProps /\ ~Found
           THEN cur_off' = cur_off + 1 /\ UNCHANGED <<pc, prop>>
           ELSE /\ prop' = IF MoreProps THEN cur_off ELSE prop
                /\ pc' = "idle"
                /\ UNCHANGED cur_off
  /\ UNCHANGED <<fdt, path, name, cur_depth, matching_depth, offset>>

Next == BeginNode \/ EndNode \/ SkipToken \/ EndOfTree \/ fdt_getprop

-----------------------------------------------------------------------------
(* Properties: what a path and a property are, with no walk *)

Nodes == {n \in DOMAIN fdt : fdt[n].kind = "FDT_BEGIN_NODE"}

\* How many nodes, itself included, the token at n lies in
Depth(n) ==
  Cardinality({m \in Nodes : m <= n})
    - Cardinality({m \in DOMAIN fdt : m < n /\ fdt[m].kind = "FDT_END_NODE"})

\* The node of depth d, the root having depth 1, that the node n lies in
Ancestor(n, d) == Max({m \in Nodes : m <= n /\ Depth(m) = d})

\* Component k of the path
Component(k) ==
  LET rest == Rest(k)
      end == Min({n \in 1 .. Len(rest) + 1 : CharAt(rest, n) \in {"/", NUL}})
  IN  SubSeq(rest, 1, end - 1)

HasUnit(s) == \E n \in DOMAIN s : s[n] = "@"
BaseName(s) ==
  SubSeq(s, 1, Min({n \in 1 .. Len(s) + 1 : CharAt(s, n) \in {"@", NUL}}) - 1)

\* A component names a node in full, or without its unit address.
Names(component, s) ==
  component \in {s, IF HasUnit(component) THEN s ELSE BaseName(s)}

\* The nodes that the path names
OnPath(n) ==
  /\ Depth(n) = path_depth + 1
  /\ \A k \in 0 .. (path_depth - 1) :
       Names(Component(k), fdt[Ancestor(n, k + 2)].name)

Matching == {n \in Nodes : OnPath(n)}
FirstMatch == IF Matching = {} THEN -1 ELSE Min(Matching)

\* The walk reads names as the path means them: no node's name is the beginning
\* of the component of its depth and no more, and a component without unit
\* address is not followed by one with.
PlainlyNamed ==
  /\ \A n \in Nodes :
       Depth(n) - 1 \in 1 .. path_depth =>
         LET c == Component(Depth(n) - 2)
             s == fdt[n].name
         IN  Len(s) < Len(c) => s # SubSeq(c, 1, Len(s))
  /\ \A k \in 0 .. (path_depth - 1) : HasUnit(Rest(k)) => HasUnit(Component(k))

\* Above its last component, the path can be followed two ways: two sisters
\* answer to the same component.
Forks ==
  \E m, n \in Nodes :
    /\ m < n
    /\ Depth(m) = Depth(n)
    /\ Depth(n) - 1 \in 1 .. (path_depth - 1)
    /\ Ancestor(m, Depth(m) - 1) = Ancestor(n, Depth(n) - 1)
    /\ \A x \in {m, n} : Names(Component(Depth(n) - 2), fdt[x].name)

\* A node that fdt_path_offset returns is the first of all that the path names,
\* wherever the others lie, also if sisters share its name; and it finds one if
\* there is one, but for a path that forks: it does not come back from the first
\* way to try the second.
FindsFirstMatch ==
  offset # 0 /\ PlainlyNamed =>
    offset = FirstMatch \/ (offset = -1 /\ Forks)

\* README.md:60 of ex21: "In `fdt_path_offset`, you should return the first match
\* node", whatever the names in the tree and the path, if there is one.
ReturnsFirstMatch == offset # 0 /\ Matching # {} => offset = FirstMatch

\* The properties of a node stand before its first subnode.
PropsOf(n) ==
  {m \in DOMAIN fdt :
     m > n /\ \A k \in (n + 1) .. m : fdt[k].kind \in {"FDT_PROP", "FDT_NOP"}}

\* fdt_getprop finds the first property with the name among those of the node
\* itself, never one of a subnode or a sister, whatever tokens the tree has; the
\* only one it misses is one behind an FDT_NOP, which ends its loop.
GetsProperty ==
  LET Named == {m \in PropsOf(offset) : fdt[m].kind = "FDT_PROP" /\ fdt[m].name = name}
      Missed == \E m \in PropsOf(offset) : fdt[m].kind = "FDT_NOP" /\ m < Min(Named)
  IN  pc = "idle" /\ offset > 0 =>
        prop = IF Named = {} \/ Missed THEN 0 ELSE Min(Named)
=============================================================================
