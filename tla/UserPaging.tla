------------------------------ MODULE UserPaging ------------------------------
(***************************************************************************)
(* Page tables of ex62: setup_vm maps memory for the kernel, in one        *)
(* superpage per GiB from PAGE_OFFSET on; pagewalk adds single pages to    *)
(* the lower half; exec uses it to map a program and its stack.            *)
(*                                                                         *)
(* The kernel's pointers are virtual addresses, which the processor        *)
(* translates with the very tables they point to: a pointer is the number  *)
(* of a virtual page, an entry holds the number of a physical one. The     *)
(* break of the allocator and sizes are in units, several to a page.       *)
(***************************************************************************)
EXTENDS Sv39

CONSTANTS
  PAGE_SIZE,    \* in units
  NUM_PAGES,    \* the pages that setup_vm maps, in whole GiB
  RAM,          \* the physical pages there are
  PGD,          \* the page of pgd, in the kernel's image
  END,          \* _end, in units: where the kernel and its stack end
  FileSizes,    \* sizes that prog.bin may have
  CallPages,    \* virtual pages that other calls of map_pages begin with
  CallSizes     \* and their sizes

VARIABLES
  pc,           \* what the kernel executes
  mem,          \* physical pages: tables, or what exec has copied there
  curr,         \* the break of the allocator, a virtual address in units
  call,         \* map_pages: va, pa, size left, prot and where it returns to
  level,        \* pagewalk's level
  page_table,   \* pagewalk's pointer
  mapped,       \* history: the page last asked for at each virtual page
  program       \* history: the pages of prog.bin

vars == <<pc, mem, curr, call, level, page_table, mapped, program>>

PAGE_OFFSET == (ENTRIES \div 2) * Span(2)
UserPages == 0 .. (PAGE_OFFSET - 1)
STACK == PAGE_OFFSET - 1           \* 0x3ffffff000

phys_to_virt(ppn) == ppn + PAGE_OFFSET
virt_to_phys(vpn) == vpn - PAGE_OFFSET

\* The pages that an object of some size takes
PagesFor(size) == (size + PAGE_SIZE - 1) \div PAGE_SIZE

\* What setup_vm maps has room in the upper half, and all memory lies there.
ASSUME UserPagingAssumption ==
  /\ ENTRIES % 2 = 0
  /\ PAGE_SIZE \in Nat \ {0}
  /\ NUM_PAGES \in 0 .. PAGE_OFFSET
  /\ RAM \subseteq 0 .. (PAGE_OFFSET - 1)
  /\ \A f \in RAM : f \div Span(2) < NUM_PAGES \div Span(2)
  /\ PGD \in RAM
  /\ END \in Nat
  /\ END > PGD * PAGE_SIZE
  /\ CallPages \subseteq UserPages
  /\ FileSizes \cup CallSizes \subseteq Nat
  /\ \A va \in CallPages, size \in CallSizes : va + PagesFor(size) <= PAGE_OFFSET

\* What is in a page nobody has written: an entry any user may use.
JUNK == [i \in Indices |-> Entry(0, "rw")]

\* _start, translation still off
Init ==
  /\ pc = "setup_vm"
  /\ mem = [f \in RAM |-> JUNK]
  /\ curr = END + PAGE_OFFSET * PAGE_SIZE
  /\ call = NONE
  /\ level = 0
  /\ page_table = NONE
  /\ mapped = [v \in UserPages |-> NONE]
  /\ program = NONE

-----------------------------------------------------------------------------
\* pgd[256 + i]: the i-th GiB of physical memory
LinearMap ==
  [n \in Indices |->
     LET i == n - ENTRIES \div 2
     IN  IF i \in 0 .. (NUM_PAGES \div Span(2) - 1)
           THEN Entry(i * Span(2), "kernel")
           ELSE NONE]

setup_vm ==
  /\ pc = "setup_vm"
  /\ mem' = [mem EXCEPT ![PGD] = LinearMap]
  /\ pc' = "start_kernel"
  /\ UNCHANGED <<curr, call, level, page_table, mapped, program>>

-----------------------------------------------------------------------------
\* Mutant: the break is rounded down.
PageAlign_Down(addr) == (addr \div PAGE_SIZE) * PAGE_SIZE

PageAlign(addr) == PagesFor(addr) * PAGE_SIZE

\* alloc_page: the virtual page that the n-th of several calls in a row returns
Allocated(n) == PageAlign(curr) \div PAGE_SIZE + (n - 1)

\* Mutant: the break stays where the page begins.
CurrAfter_Same(n) == PageAlign(curr)

\* The break after n calls
CurrAfter(n) == PageAlign(curr) + n * PAGE_SIZE

\* Bound: there is memory for so many pages. The code takes it for granted.
MemoryFor(n) == \A k \in 1 .. n : virt_to_phys(Allocated(k)) \in RAM

\* map_pages(va, size, virt_to_phys(page), prot)
CallMapPages(va, size, page, prot, return) ==
  /\ call' = [va |-> va, left |-> size, pa |-> virt_to_phys(page),
              prot |-> prot, return |-> return]
  /\ pc' = "map_pages"

\* exec finds prog.bin: one page for it, whatever its size, then its map.
exec ==
  /\ pc = "start_kernel"
  /\ MemoryFor(6)
  /\ \E filesize \in FileSizes :
       LET page == Allocated(1)
           copy == [k \in 0 .. (PagesFor(filesize) - 1) |-> virt_to_phys(page) + k]
       IN  /\ mem' = [f \in RAM |->
                        IF \E k \in DOMAIN copy : copy[k] = f
                          THEN <<"prog.bin", f - virt_to_phys(page)>>
                          ELSE mem[f]]
           /\ program' = copy
           /\ CallMapPages(0, filesize, page, "rx", "exec_stack")
  /\ curr' = CurrAfter(1)
  /\ UNCHANGED <<level, page_table, mapped>>

\* Its stack
exec_stack ==
  /\ pc = "exec_stack"
  /\ CallMapPages(STACK, PAGE_SIZE, Allocated(1), "rw", "user")
  /\ curr' = CurrAfter(1)
  /\ UNCHANGED <<mem, level, page_table, mapped, program>>

\* exec finds no prog.bin and start_kernel echoes what is typed.
exec_fails ==
  /\ pc = "start_kernel"
  /\ pc' = "echo"
  /\ UNCHANGED <<mem, curr, call, level, page_table, mapped, program>>

\* map_pages is not exec's own: before exec, the kernel may map other fresh
\* pages for the user.
OtherCall ==
  /\ pc = "start_kernel"
  /\ \E va \in CallPages, size \in CallSizes :
       LET n == PagesFor(size)
       IN  /\ MemoryFor(3 * n)
           /\ CallMapPages(va, size, Allocated(1), "rw", "start_kernel")
           /\ curr' = CurrAfter(n)
  /\ UNCHANGED <<mem, level, page_table, mapped, program>>

-----------------------------------------------------------------------------
\* The physical page that a pointer of the kernel leads to; none if the access
\* faults. Supervisor mode may not use user pages either.
Deref(pointer) ==
  LET page == Translate(mem, PGD, pointer)
  IN  IF page # NONE /\ page.perm = "kernel" THEN page.ppn ELSE NONE

\* A turn of map_pages' loop: pagewalk starts with pgd.
map_pages ==
  /\ pc = "map_pages"
  /\ call.left > 0
  /\ pc' = "pagewalk"
  /\ level' = 2
  /\ page_table' = phys_to_virt(PGD)
  /\ UNCHANGED <<mem, curr, call, mapped, program>>

map_pages_returns ==
  /\ pc = "map_pages"
  /\ call.left <= 0
  /\ pc' = call.return
  /\ call' = NONE
  /\ UNCHANGED <<mem, curr, level, page_table, mapped, program>>

\* pagewalk's read of page_table[idx]
InTable ==
  /\ pc = "pagewalk"
  /\ Deref(page_table) # NONE
PageTableEntry == mem[Deref(page_table)][Index(call.va, level)]

\* The address that an entry holds is used as it is.
Descend ==
  /\ InTable
  /\ level > 0
  /\ PageTableEntry # NONE
  /\ page_table' = PageTableEntry.ppn
  /\ level' = level - 1
  /\ UNCHANGED <<pc, mem, curr, call, mapped, program>>

\* Mutant: the new table is used as it comes.
Fresh_Junk == JUNK

\* What memset makes of the new table
Fresh == Zeroed

\* Mutant: the walk goes on with the physical address of the new table.
NewTable_Physical ==
  /\ InTable
  /\ level > 0
  /\ PageTableEntry = NONE
  /\ LET ppn == virt_to_phys(Allocated(1))
     IN  /\ mem' = [mem EXCEPT
                      ![ppn] = Fresh,
                      ![Deref(page_table)][Index(call.va, level)] = Entry(ppn, "table")]
         /\ page_table' = ppn
  /\ curr' = CurrAfter(1)
  /\ level' = level - 1
  /\ UNCHANGED <<pc, call, mapped, program>>

\* There is no table: one is allocated, cleared and linked.
NewTable ==
  /\ InTable
  /\ level > 0
  /\ PageTableEntry = NONE
  /\ LET next_page_table == Allocated(1)
         ppn == virt_to_phys(next_page_table)
     IN  /\ mem' = [mem EXCEPT
                      ![ppn] = Fresh,
                      ![Deref(page_table)][Index(call.va, level)] = Entry(ppn, "table")]
         /\ page_table' = next_page_table
  /\ curr' = CurrAfter(1)
  /\ level' = level - 1
  /\ UNCHANGED <<pc, call, mapped, program>>

\* Level 0: the page is entered, and map_pages goes on with the next one.
EnterPage ==
  /\ InTable
  /\ level = 0
  /\ mem' = [mem EXCEPT ![Deref(page_table)][Index(call.va, 0)] =
                           Entry(call.pa, call.prot)]
  /\ mapped' = [mapped EXCEPT ![call.va] = Entry(call.pa, call.prot)]
  /\ call' = [call EXCEPT !.va = @ + 1, !.pa = @ + 1, !.left = @ - PAGE_SIZE]
  /\ pc' = "map_pages"
  /\ UNCHANGED <<curr, level, page_table, program>>

\* page_table is not an address the kernel can use. do_trap steps over the
\* instruction; what pagewalk then does with an undefined idx or page_table is
\* not modelled.
Fault ==
  /\ pc = "pagewalk"
  /\ Deref(page_table) = NONE
  /\ pc' = "fault"
  /\ UNCHANGED <<mem, curr, call, level, page_table, mapped, program>>

pagewalk == Descend \/ NewTable \/ EnterPage \/ Fault

Next ==
  \/ setup_vm
  \/ exec \/ exec_stack \/ exec_fails \/ OtherCall
  \/ map_pages \/ map_pages_returns \/ pagewalk

Spec == Init /\ [][Next]_vars

-----------------------------------------------------------------------------
(* Properties *)

\* In every state, in the middle of a walk and after a fault as well, the user
\* sees at each page exactly what was last asked for there, and nothing where
\* nothing was asked for.
MapsAsAsked ==
  pc # "setup_vm" =>
    \A v \in UserPages : Translate(mem, PGD, v) = mapped[v]

\* The kernel's map of memory stays what setup_vm made it, and no user page is a page
\* table or a page of the kernel's image and stack.
Isolated ==
  pc # "setup_vm" =>
    /\ \A f \in RAM : Translate(mem, PGD, phys_to_virt(f)) = Entry(f, "kernel")
    /\ \A v \in UserPages :
         LET page == Translate(mem, PGD, v)
         IN  page # NONE =>
               /\ page.ppn \notin TablePages(mem, PGD)
               /\ page.ppn * PAGE_SIZE >= END

\* When the program starts, it finds itself from address 0 on, all of it, and
\* a stack page of its own.
ProgramLoaded ==
  pc = "user" =>
    /\ \A k \in DOMAIN program :
         /\ Translate(mem, PGD, k) = Entry(program[k], "rx")
         /\ mem[program[k]] = <<"prog.bin", k>>
    /\ LET stack == Translate(mem, PGD, STACK)
       IN  stack # NONE /\ stack.perm = "rw"

\* pagewalk fails only below an entry of pgd that an earlier page has set up:
\* the first page in each GiB can always be mapped, and so the two that exec
\* asks for, in the first and the last one.
FaultOnlyInUsedGiB ==
  pc = "fault" =>
    \E v \in UserPages :
      mapped[v] # NONE /\ Index(v, 2) = Index(call.va, 2)

\* README.md:21-22 of ex62: the walk checks for the next table and allocates it
\* if it does not exist; if it does exist, it is the one to go on with.
WalkNeverFaults == pc # "fault"
=============================================================================
