------------------------------ MODULE HigherHalf ------------------------------
(***************************************************************************)
(* The boot of ex61: _start runs at its physical address, setup_vm builds  *)
(* tables that map the kernel both there and at PAGE_OFFSET above it and   *)
(* turns translation on, _start jumps up and moves the stack pointer, and  *)
(* drop_identity_map takes the lower map away.                             *)
(*                                                                         *)
(* Addresses are numbers of pages. Which translations the processor has    *)
(* cached is kept by entry of pgd: it may use any that was valid at some   *)
(* time since the last sfence.vma.                                         *)
(***************************************************************************)
EXTENDS Sv39

CONSTANTS
  START,    \* the pages of the image and its stack: from _start
  END,      \*   to _end
  PGD,      \* the page of pgd
  PMD,      \* the first of the pages of pmd
  UART      \* the page of the UART

VARIABLES
  pc,       \* what the processor executes next
  base,     \* where it executes: 0, or PAGE_OFFSET above the load address
  sp,       \* the base of the stack pointer
  satp,     \* translation is on
  mem,      \* the tables
  i,        \* the counter of the loop that runs
  cached    \* entries of pgd that may be in the translation cache

vars == <<pc, base, sp, satp, mem, i, cached>>

PAGE_OFFSET == (ENTRIES \div 2) * Span(2)
ID_MAP == PMD
HH_MAP == PMD + 1
UART_MAP == PMD + 2

\* The GiB that x lies in
GiB(x) == x \div Span(2)

\* The image lies in one GiB, as its entry of pgd is the only one for it; the
\* UART lies in another, as its entry replaces what is there.
ASSUME HigherHalfAssumption ==
  /\ ENTRIES % 2 = 0
  /\ START \in 0 .. (PAGE_OFFSET - 1)
  /\ END \in START .. (PAGE_OFFSET - 1)
  /\ {PGD, ID_MAP, HH_MAP, UART_MAP} \subseteq START .. END
  /\ PGD \notin {ID_MAP, HH_MAP, UART_MAP}
  /\ UART \in 0 .. (PAGE_OFFSET - 1)
  /\ GiB(END) = GiB(START) /\ GiB(UART) # GiB(START)

\* x & SUPER_L1: the superpage of 2 MiB that x lies in
SuperPage(x) == x - (x % Span(1))

\* The entries of pgd that are valid with tables m
Valid(m) == {n \in Indices : m[PGD][n] # NONE}

\* _start, at its load address, its tables in .data and zero
Init ==
  /\ pc = "_start"
  /\ base = 0
  /\ sp = 0
  /\ satp = FALSE
  /\ mem = [t \in {PGD, ID_MAP, HH_MAP, UART_MAP} |-> Zeroed]
  /\ i = 0
  /\ cached = {}

-----------------------------------------------------------------------------
\* setup_vm's pa and va, at the start and in turn i of the loop
Pa(turn) == SuperPage(START) + turn * Span(1)
Va(turn) == Pa(turn) + PAGE_OFFSET

\* The two entries of pgd that lead to the kernel
Linked ==
  [mem EXCEPT ![PGD] =
     [@ EXCEPT ![Index(Va(0), 2)] = Entry(HH_MAP, "table"),
               ![Index(Pa(0), 2)] = Entry(ID_MAP, "table")]]

\* setup_vm up to its loop
setup_vm_pgd ==
  /\ pc = "_start"
  /\ mem' = Linked
  /\ pc' = "setup_vm_loop"
  /\ UNCHANGED <<base, sp, satp, i, cached>>

\* A turn of the loop: a superpage in both maps
setup_vm_loop ==
  /\ pc = "setup_vm_loop"
  /\ mem' = [mem EXCEPT ![HH_MAP][Index(Va(i), 1)] = Entry(Pa(i), "kernel"),
                        ![ID_MAP][Index(Pa(i), 1)] = Entry(Pa(i), "kernel")]
  /\ i' = i + 1
  /\ pc' = IF i' < ENTRIES THEN pc ELSE "setup_vm_uart"
  /\ UNCHANGED <<base, sp, satp, cached>>

setup_vm_uart ==
  /\ pc = "setup_vm_uart"
  /\ LET uart_vir == UART + PAGE_OFFSET
     IN  mem' = [mem EXCEPT
                   ![PGD][Index(uart_vir, 2)] = Entry(UART_MAP, "table"),
                   ![UART_MAP][Index(uart_vir, 1)] = Entry(SuperPage(UART), "kernel")]
  /\ pc' = "setup_vm_satp"
  /\ UNCHANGED <<base, sp, satp, i, cached>>

\* satp is written and the cache emptied; the next fetch is translated.
setup_vm_satp ==
  /\ pc = "setup_vm_satp"
  /\ satp' = TRUE
  /\ cached' = Valid(mem)
  /\ pc' = "jump"
  /\ UNCHANGED <<base, sp, mem, i>>

\* setup_vm returns and _start jumps to the same place PAGE_OFFSET above.
jump ==
  /\ pc = "jump"
  /\ base' = PAGE_OFFSET
  /\ pc' = "load_sp"
  /\ UNCHANGED <<sp, satp, mem, i, cached>>

\* Mutant: the stack pointer stays below.
load_sp_Same ==
  /\ pc = "load_sp"
  /\ i' = 0
  /\ pc' = "drop_loop"
  /\ UNCHANGED <<base, sp, satp, mem, cached>>

\* add sp, sp, a3; then .bss is cleared, where no table is.
load_sp ==
  /\ pc = "load_sp"
  /\ sp' = sp + PAGE_OFFSET
  /\ i' = 0
  /\ pc' = "drop_loop"
  /\ UNCHANGED <<base, satp, mem, cached>>

\* A turn of drop_identity_map's loop
drop_loop ==
  /\ pc = "drop_loop"
  /\ mem' = [mem EXCEPT ![PGD][i] = NONE]
  /\ i' = i + 1
  /\ pc' = IF i' < ENTRIES \div 2 THEN pc ELSE "drop_sfence"
  /\ UNCHANGED <<base, sp, satp, cached>>

\* Mutant: drop_identity_map without sfence.vma
AfterSfence_Stale == cached

\* What the cache can hold after an sfence.vma
AfterSfence == Valid(mem)

drop_sfence ==
  /\ pc = "drop_sfence"
  /\ cached' = AfterSfence
  /\ pc' = "start_kernel"
  /\ UNCHANGED <<base, sp, satp, mem, i>>

Next ==
  \/ setup_vm_pgd \/ setup_vm_loop \/ setup_vm_uart \/ setup_vm_satp
  \/ jump \/ load_sp
  \/ drop_loop \/ drop_sfence

Spec == Init /\ [][Next]_vars

-----------------------------------------------------------------------------
(* Properties *)

Reaches(vpn, ppn) == Translate(mem, PGD, vpn) = Entry(ppn, "kernel")

\* From the write to satp on, the processor finds, in every step, the image
\* where it executes, among it the tables it still writes to, and the stack
\* where sp points, in the tables themselves and not only in its cache.
BootRuns ==
  satp => \A p \in START .. END : Reaches(p + base, p) /\ Reaches(p + sp, p)

\* When start_kernel runs: nothing below PAGE_OFFSET is mapped any more, or
\* cached; the UART is where uart.c looks for it; and memory from the kernel's
\* superpage to the end of its GiB is PAGE_OFFSET above its address. So are not
\* the superpages below the kernel's: the last turns of setup_vm's loop come
\* round to their indices, and what is there begins the next GiB.
FinalMap ==
  pc = "start_kernel" =>
    /\ Valid(mem) \cup cached \subseteq (ENTRIES \div 2) .. (ENTRIES - 1)
    /\ Reaches(UART + PAGE_OFFSET, UART)
    /\ \A b \in Indices :
         LET p == GiB(START) * Span(2) + b * Span(1)
         IN  Reaches(p + PAGE_OFFSET, IF b < Index(START, 1) THEN p + Span(2) ELSE p)
=============================================================================
