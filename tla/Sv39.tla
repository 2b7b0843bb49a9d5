--------------------------------- MODULE Sv39 ---------------------------------
(***************************************************************************)
(* Address translation as the processor does it in Sv39 mode: three levels *)
(* of tables, leaves allowed on each. An address is the number of its      *)
(* page. A table is a function from indices to entries; an entry is NONE   *)
(* or names a physical page and what it may be used for, "table" in an     *)
(* entry that points to the next level.                                    *)
(***************************************************************************)
EXTENDS Integers

CONSTANTS
  ENTRIES,   \* entries of a table: 512
  NONE       \* an entry without PTE_V; a translation that faults

ASSUME Sv39Assumption ==
  /\ ENTRIES \in Nat \ {0, 1}
  /\ NONE \notin Nat \cup [ppn : Nat, perm : {"table", "kernel", "rw", "rx"}]

Levels == 0 .. 2
Indices == 0 .. (ENTRIES - 1)

\* The pages below one entry of a level
Span(level) ==
  CASE level = 0 -> 1
    [] level = 1 -> ENTRIES
    [] level = 2 -> ENTRIES * ENTRIES

VirtualPages == 0 .. (ENTRIES * Span(2) - 1)

Index(vpn, level) == (vpn \div Span(level)) % ENTRIES

Entry(ppn, perm) == [ppn |-> ppn, perm |-> perm]
Zeroed == [i \in Indices |-> NONE]

\* The page an entry leads to that is the last one the processor looks at
LeafPage(entry, vpn, level) ==
  IF entry = NONE \/ entry.perm = "table"
    THEN NONE
    ELSE Entry(entry.ppn + (vpn % Span(level)), entry.perm)

\* The page that vpn stands for, with the tables in mem and the top one at root
Translate(mem, root, vpn) ==
  LET At(table, level) == mem[table][Index(vpn, level)]
      Leads(entry) == entry # NONE /\ entry.perm = "table"
      e2 == At(root, 2)
      e1 == At(e2.ppn, 1)
      e0 == At(e1.ppn, 0)
  IN  IF ~Leads(e2) THEN LeafPage(e2, vpn, 2)
      ELSE IF ~Leads(e1) THEN LeafPage(e1, vpn, 1)
      ELSE LeafPage(e0, vpn, 0)

\* Every page that serves as a table
TablePages(mem, root) ==
  LET Below(table) ==
        {mem[table][i].ppn : i \in
           {j \in Indices : mem[table][j] # NONE /\ mem[table][j].perm = "table"}}
  IN  {root} \cup Below(root) \cup UNION {Below(t) : t \in Below(root)}
=============================================================================
