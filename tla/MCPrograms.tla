------------------------------ MODULE MCPrograms ------------------------------
(***************************************************************************)
(* The images, the sizes and the characters that the programs are checked  *)
(* with. The boot runs with the addresses of the board.                    *)
(***************************************************************************)
EXTENDS Programs

\* Names with and without unit address, one the beginning of another
NodeNames == {<<"c">>, <<"c", "d">>, <<"c", "@", "1">>, <<"c", "@", "2">>}

\* The tokens of a node, by its name, its properties and its subnodes
Node(s, props, subnodes) ==
  <<[kind |-> "FDT_BEGIN_NODE", name |-> s]>> \o props \o subnodes
    \o <<[kind |-> "FDT_END_NODE"]>>

Prop(s) == [kind |-> "FDT_PROP", name |-> s]
Nop == [kind |-> "FDT_NOP"]
PropLists == {<< >>, <<Prop("p")>>, <<Prop("q"), Prop("p")>>, <<Nop, Prop("p")>>}

\* A root with up to two nodes; each has up to one subnode, which has the
\* property that the node may lack.
Leaves == {<< >>} \cup {Node(s, <<Prop("p")>>, << >>) : s \in NodeNames}
Branches(props) ==
  {<< >>} \cup {Node(s, props, l) : s \in NodeNames, l \in Leaves}
MCTrees ==
  UNION {{Node(<< >>, << >>, b \o c) \o <<[kind |-> "FDT_END"]>> :
            b \in Branches(props), c \in Branches(<<Prop("p")>>)} :
         props \in PropLists}

\* Paths of one and two components. Those with c@2 would be the same ones again:
\* on either level, a tree with c@1 and c@2 exchanged is among the trees.
Components == NodeNames \ {<<"c", "@", "2">>}
MCPaths ==
  {<<"/">> \o s : s \in Components}
    \cup {<<"/">> \o s \o <<"/">> \o t : s \in Components, t \in Components}

\* Up to three files; a header is as far from a multiple of four as the real one
Entries ==
  [name : {"osc.txt", "prog.bin"}, namesize : {3, 4}, filesize : {0, 1, 4, 27}]
Trailer == [name |-> TRAILER, namesize |-> 3, filesize |-> 0]
MCArchives ==
  UNION {{Append(l, Trailer) : l \in [1 .. n -> Entries]} : n \in 0 .. 3}

MCBanner == <<"\n", "S">>
MCKeys == {"a", "\r", "\n"}

\* Up to three files, among them a ramfb or not
MCDirectories ==
  UNION {[1 .. n -> {"bootorder", "etc/e820", "etc/ramfb"}] : n \in 0 .. 3}

\* All images that fit
MCSizes == (1 .. FB_WIDTH) \X (1 .. FB_HEIGHT)
=============================================================================
