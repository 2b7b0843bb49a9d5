# Formal models of the OSC 2026 exercises

TLA+ models of the C, C++ and RISC-V assembly in this repository, model-checked
with TLC and, for the allocators, the scheduler, the trap code, the interrupts, both
page tables, the walks over device trees and archives, the frame buffer and the file
system, proved with TLAPS for every value of the parameters. The repository is a series of small
kernels, one directory per exercise; each builds on its own, so the components below interact inside an exercise and
are the same code, or nearly so, where two exercises share them.

## The system

| Part | Source | State | Operations | What makes it hard |
|---|---|---|---|---|
| Buddy allocator | `ex31/main.cpp` | `mem_map` (order and refcount of each page), `free_area` (a list per order) | `alloc_pages`, `free_pages` | any history of splits and merges; stale order fields; the top order |
| Memory reservation | `ex32/main.cpp` | the same | `memory_reserve`, called by `mm_init` | byte to page borders; the search for the next order; a second call |
| Run queue | `ex51/main.c` | ring of `task_struct`s, `run_queue`, `tp` | `enqueue`, `kthread_create`, `schedule` | six dependent pointer writes on small rings |
| Context switch | `ex51/start.S`, `ex51/main.c` | registers, `task->thread`, stacks | `schedule`, `switch_to`, `idle`, `foo` | one piece of code on two stacks; the assembly reads the compiler's frame |
| Trap entry | `start.S` of ex41, ex42, ex51, ex62 | registers, `sscratch`, `sepc`, `sstatus`, trap frames | `handle_exception`, `do_trap`, `ret_from_exception`, `exec` | `sscratch` both selects the stack and says where the trap came from |
| PLIC and UART interrupts | `ex42/main.c` | PLIC and UART registers | `plic_init`, `plic_claim`, `plic_complete`, `uart_init`, `do_trap` | claim and complete against interrupts that arrive meanwhile |
| Higher-half map | `ex61/main.c`, `ex61/start.S` | two levels of page tables, `satp` | `setup_vm`, `drop_identity_map` | index wrap-around; switching the map under running code |
| User paging | `ex62/main.c`, `ex62/utils.c` | three levels of page tables, `curr` | `setup_vm`, `pagewalk`, `map_pages`, `exec`, `alloc_page` | physical and virtual pointers to the same table |
| Device tree | `ex21/main.c` | none kept | `fdt_path_offset`, `fdt_getprop` | nesting depth against matched depth; where a name ends |
| Initial RAM disk | `ex22/main.c`, `exec` in ex41 and ex62 | none kept | `initrd_list`, `initrd_cat` | two roundings per entry; sizes in digits; where a file ends |
| Virtual file system | `ex71` | vnodes, file objects, descriptor table | `my_open`, `my_close`, `my_read`, `my_write` over `vfs_*` and `tmpfs_*` | error paths; a full table; where a path ends and a name begins |
| Frame buffer | `ex52` | a DMA request, the directory of the device; pixels in cache and memory | `video_init`, `video_bmp_display`, `flush_dcache` | a device that answers when it likes; rows that begin and end inside cache lines |
| Polled UART | `ex11`, `ex12/uart.c` | UART registers | `uart_getc`, `uart_putc`, `uart_puts` | the device goes on between a poll and the access |
| SBI calls | `ex12/main.c` | none | `sbi_*` | nothing: two stateless calls |

`ex72/main.c` (`my_realpath`) and half of `ex71/tmpfs.c` are bodies left to be
written. `test.c` is a scratch program, mostly commented out.

`ex31` and `ex32` share their data; in `ex51`, `schedule` works on the ring of
the run queue and hands its head to `switch_to`; in `ex41` and `ex62`, `exec`
prepares the registers that `handle_exception` later relies on; in `ex42`,
interrupts enter through the same code while the kernel loops, and `do_trap` runs the
handshakes with the devices inside it; in `ex71`, the descriptor table calls `vfs.c`,
which calls tmpfs through function pointers.

What makes each part correct:

* *Allocators*: free and used blocks tile memory; lists and page fields agree;
  free buddies are merged; a request fails only if nothing fits; a reservation
  takes exactly the pages it touches; every call returns.
* *Scheduling*: the ring is a round-robin queue; a thread
  finds its registers and its stack as it left them; the output is the one of
  the exercise.
* *Traps*: the interrupted code cannot tell that there was a trap; the kernel
  finds its stack after any number of them; nobody's memory is touched.
* *Interrupts*: every character received is read, none is read twice, no read is in vain.
* *Paging*: the user sees what was mapped, only that, and no page of the kernel; the
  kernel can execute and reach its stack in every step of a change of the map.
* *Images*: the node, property or file found is the one that the path or name means.
* *Files*: a path leads to its own file, a descriptor to the file and the position it
  was opened with; no descriptor or object is lost.
* *Devices*: what is received is sent back, whole and in order; a display shows whole frames.

## Modules

| Module | Models | Role |
|---|---|---|
| `BuddyPages` | `struct page`, `mem_map`, `free_area`, `get_buddy`, the initial lists | data shared by the two allocators |
| `PageAllocator` | the promise of a page allocator | abstract specification: blocks held, no lists |
| `BuddyAllocator` | `alloc_pages`, `free_pages` | one action per turn of each loop |
| `BuddyPagesLemmas`, `BuddyAllocatorProofs` | | lemmas on sizes, tilings, lists; the invariant of the allocator and its refinement of `PageAllocator` |
| `MemoryReserve` | `memory_reserve` | one action per turn of the outer and the inner loop |
| `MemoryReserveProofs` | | its invariant, and that of the path of a call |
| `ReadyQueue` | a round-robin ready queue | abstract specification: a sequence of threads |
| `RunQueue` | `enqueue`, `kthread_create`, `schedule` up to `switch_to` | the ring of pointers, shown to implement `ReadyQueue` |
| `RunQueueProofs` | | its invariant and refinement |
| `Threads` | `start_kernel`, `idle`, `foo`, `schedule`, `switch_to` | composes `RunQueue` with registers and stacks |
| `ThreadsProofs` | | its invariant and refinement of `RunQueue` |
| `TrapEntry` | `handle_exception` to `sret`, the end of `exec`, `do_trap` | three programs with the same entry code |
| `PlicUart` | ex42's `start_kernel`, `plic_*`, `uart_init`, `do_trap`; PLIC and UART as they are used | one action per access to a device |
| `Interrupts` | all of ex42 | composes `PlicUart` with `TrapEntry` |
| `InterruptsProofs` | | the invariants of `TrapEntry` and of `PlicUart`; what the composition keeps of both |
| `Sv39` | address translation by the hardware | external; used by the next two |
| `UserPaging` | ex62's `setup_vm`, `pagewalk`, `map_pages`, `exec`, `alloc_page` | one action per level of a walk |
| `UserPagingProofs` | | its invariant |
| `HigherHalf` | ex61's `_start`, `setup_vm`, `drop_identity_map` | one action per turn of a loop, with the translation cache |
| `DeviceTree` | `fdt_path_offset`, `strncmp2`, `fdt_getprop` | one action per token |
| `Archive` | `initrd_list`, `initrd_cat`, `hextoi`, the search of both `exec` | one action per archive entry |
| `DescriptorTable` | the promise of `my_open`, `my_close`, `my_read`, `my_write` | abstract specification: files by path, no vnodes, no walks |
| `Vfs` | these four, `vfs.c` and `tmpfs.c` | one action per slot tried and per component looked up, shown to implement `DescriptorTable` |
| `PolledUart` | the UART of ex11 and the one of `ex12/uart.c`, the echo | one action per poll and per access |
| `FwCfg` | `video_init` and what it calls; the fw_cfg device | one action per DMA transfer on either side |
| `FrameBuffer` | `display_video`, `video_bmp_display`, `flush_dcache`; a data cache | one action per row copied and per line flushed |
| `Programs` | | the six programs that do not meet (`HigherHalf`, `DeviceTree`, `Archive`, `PolledUart`, `FwCfg`, `FrameBuffer`), one of them in each behaviour; what they may be given |
| `ProgramsProofs` | | the invariants of the boot, of the walks and of the frame buffer; that of `Vfs` and its refinement of `DescriptorTable` |
| `MC...` | | constants for TLC |

How state corresponds to code:

* **Pages.** A `struct page *` is its index in `mem_map`; a `std::list` is a
  sequence. `BlockSize[k]` is `1 << k`, given as a function so that the proofs
  need only what the code uses of it: sizes double and divide one another.
  `get_buddy` flips a bit by adding or subtracting one block. Both programs run
  alone on one thread, so a turn of a loop is a step: what matters is that the
  invariants also hold between turns, where the next turn relies on them.
* **`BuddyAllocator`.** `pc` says which loop is running, `tmp_i`, `req` and `page`
  are the locals. `AllocFound`/`AllocFails` are the search, `Split` a turn of
  the split loop, `AllocReturn` lines 45-49, `FreeCall` the code past the early
  return, `Merge` a turn of the merge loop, `FreeReturn` the final push. `free_pages`
  may be given any page with a non-zero refcount. Given another one it returns
  at once and nothing changes.
* **`MemoryReserve`.** `ReserveBlock` and `SplitBlock` are the two branches on
  a listed block, `AfterBlock` is where the first goes next; `FoundOrder` and
  `LowerOrder` are the search for the next order; `NotFound` is the `exit`. `asked`
  and `before` are history variables: the pages the calls are for.
* **`RunQueue`.** A `task_struct` is its pid; `next` and `prev` are functions, and
  each pointer assignment is an update in the order of the code. `tp` moves with
  the ring here; `Threads` shows that this atomicity is earned.
* **`Threads`.** Registers `ra`, `sp`, `s0` and one for `s1` to `s11`. A stack
  pointer is a stack and a number of frames; `frame` holds the `ra` and `s0` that
  a prologue has pushed, in the layout of the unoptimised build the Makefile
  asks for (no `-O`), which `switch_to` depends on when it reads `16(sp)`. What a
  thread leaves in `s1` is arbitrary. No interrupt is enabled in ex51, so
  only the running thread's own calls switch. The two instructions of `switch_to`
  after the jump run only if `idle` or `foo` returned, which neither does.
* **`TrapEntry`.** Stacks are counted in trap frames. `regs.s1` stands for the
  callee-saved registers the entry code uses to read CSRs, `regs.a0` for
  the caller-saved ones. The entry code runs with interrupts off
  and its instructions fault nowhere, so it is divided where an order of
  its instructions matters: entry, save, `do_trap`, restore. `do_trap` also writes
  below the frame, as C code does. `prog.bin` is external: any program that
  computes, pushes, pops and traps. The firmware is assumed to start the kernel
  with `sscratch` zero, as no exercise sets it.
* **`PlicUart`.** A character is its number; `rx` is what the receiver holds. `Type` and `Gateway`
  are what the devices do by themselves: the gateway makes one interrupt pending for a
  raised line and is shut from the claim to the completion. `plic_init`, `uart_init` and
  `irq_enable` are taken one register at a time. A character that finds the receiver full is lost,
  and no property is about it. Hart 0 boots, which is what `boot_cpu_hartid` says.
* **`Sv39`.** An address is a page number, a table a function from indices to entries;
  `ENTRIES` is the only size. Leaves may be on any level, as `setup_vm` of both exercises uses them.
* **`UserPaging`.** `mem` maps physical pages to tables or contents, a pointer of the kernel
  is a virtual page: `Deref` translates it with the tables it points into, so that a
  physical address taken for a pointer leads to the user's half, where every access of the kernel faults. Memory that nobody has written holds `JUNK`, an
  entry any user could use. `curr` is the break of `alloc_page`. `NUM_PAGES` is the memory that `setup_vm` maps, in whole
  gigabytes. `OtherCall` lets
  `map_pages` be called before `exec` for any page and a few sizes, always with fresh pages: it is a
  function for general use, of which the exercise makes two calls. After a fault nothing more is modelled:
  `do_trap` steps over the load, and the walk goes on with what the register held.
* **`HigherHalf`.** `base` says where the processor executes and `sp` where the stack lies,
  as distances from the physical addresses; `cached` holds the entries of `pgd` whose
  translations may still be cached. The loops of `setup_vm` and `drop_identity_map`
  take a step a turn.
* **`DeviceTree`.** A tree is a sequence of tokens and an offset the number of one, so the
  lengths and paddings in bytes and the byte order are left out; names are sequences of characters, as
  `strncmp2` is about which of them match. `Return` is the way back to `main`, whose first lookup ends the
  program if it fails (`pc` "idle"), while its other two go on to `fdt_getprop` with -1 (`pc` "undefined").
* **`Archive`.** An archive is a sequence of names and sizes; `AddressOf` is where the
  archiver puts an entry and `cur` where the code looks. The code rounds sizes in the one
  program and addresses in the other, and both are there (`RoundsSizes`). `Field` is a size as
  the archiver writes it, in hexadecimal digits, and `hextoi` what the code makes of it. `printed` is how far
  `printf("%s")` goes: file data is taken to hold no NUL, as in a text.
* **`Interrupts`.** The trap code of `TrapEntry` with the handshakes of `PlicUart` for its `do_trap`: an
  interrupt is taken by both at once, `do_trap` returns when the completion is written, and
  `sret` of the one is that of the other. Each keeps its own idea of `sstatus.SIE`.
* **`Vfs`.** A path is a sequence of components, a vnode its number and its `internal` a record;
  `fdt` holds numbers of file objects, which `malloc` gives out again after they have been freed. `node` is the
  local of `vfs_lookup` and becomes `vnode` in `vfs_open`; `Return` is the way back to the
  caller. A read or write is of one unit of data. The four bodies of `tmpfs.c` left to be written are
  external: `tmpfs_create` enters a new file in the first free entry or fails, reads and writes go on at `f_pos`.
  In `DescriptorTable` an open that has no promise is never answered: `vnode` is then not
  initialised in the code (`pc` "undefined").
* **`PolledUart`.** `version` selects one of the two drivers, which differ in where CR and LF are
  added; `out` holds what the nested calls of `uart_putc` still have to send. `thr` takes a write at
  any time, and a character not yet sent is lost.
* **`FwCfg`.** The directory is read by a cursor of the device that goes on from one transfer to the
  next. The kernel's `count` and `file` change when the device serves the request; until then
  they hold what they held before, a value the stack may well hold. The polled word is
  not `volatile` in the code; it is read each time here, as the unoptimised build does.
* **`FrameBuffer`.** `view` is what the kernel sees, through its cache, `memory` what the display sees; any
  dirty line may be written back at any time. The pixels of each frame are distinct, so a
  pixel of another frame is noticed. `usleep` only waits.

## Runs

| Run | Configuration | Question |
|---|---|---|
| `buddy` | 8 pages, `MAX_ORDER` 2 (two top blocks), all request sizes up to one too large, frees of any page | tiling, list soundness, full merging, initial lists restored, `PageAllocator` implemented, calls return |
| `reserve` | 16 pages of 2 bytes, `MAX_ORDER` 3, all byte ranges that begin in the first top block, those of the second that reach the end, one beyond it; any number of calls | exact reservation, no needless split, where a call may give up, both loops end |
| `reserve_twice` | the same | **violated**: see Findings |
| `run_queue` | six tasks | ring soundness; `ReadyQueue` implemented, whatever the order of creations and yields |
| `threads` | four tasks, five rounds: ex51 as it is | a thread resumes with the registers and the stack it left, all lines in order, `RunQueue` implemented |
| `traps` | *ex41 and ex62*: two words on the user stack; *ex42*: five characters, a receiver of two, arriving anywhere in the trap code | context kept, `sscratch` protocol, user stack of ex62 untouched, traps return; every received character read, no read in vain, interrupts on and off when they should be |
| `trap_ex41` | ex41 alone | **violated**: see Findings |
| `paging` | tables of four entries, 16 pages of memory in the upper gigabyte, calls for one to two pages anywhere but at the last page, `prog.bin` of up to a page | the user's view is what was asked for, kernel map and tables out of its reach, program in place, where a walk may fail |
| `paging_long` | the same, `prog.bin` a little larger than a page | **violated**: see Findings |
| `programs` | *device trees*: all of a root, up to two nodes and a subnode each, four names of which some begin with another; *archives*: up to three files with names and sizes of all paddings that matter; *ex61* as it is, 512 entries and the board's addresses; *UART*: three characters, a receiver of two; *fw_cfg*: all directories of up to three files; *frames*: all sizes up to 6 x 3 in a buffer of 6 x 4, cache lines of 4, two frames in turn | the walks find what the path or name means; code, stack and tables of ex61 are reachable in every step; everything received is echoed; the display is configured and shows whole frames |
| `first_match` | the trees and paths of `programs` | **violated**: see Findings |
| `vfs` | two descriptors, a directory of two entries, files of one unit, two data values; the paths `""`, `/`, two files and one below a file, with and without `O_CREAT` | `DescriptorTable` implemented, its liveness included |

Why the bounds are enough. Three orders and two top blocks give the allocator
every relation two blocks can have (halves, cousins, different top blocks) and
merges that stop for each of the three reasons; the proofs then remove the bounds
for the safety properties, as they do for the queue, the threads, the traps, the interrupts, both
page tables, the walks over images, the frame buffer and the file system. Four orders are the fewest for which the inner
search of `memory_reserve` takes both of its branches before it ends; the page
of two bytes has one border inside and one at its edge. Six tasks let creations
and yields interleave on rings of one to six. The program of `threads` has no bound that
ex51 does not have, but the two values of a register. Two words on the user
stack allow a trap at a smaller, an equal and a larger depth than the one before. Four
entries are the fewest that give each half of the address space a table with a first and
a last index of its own; a page of two units has one size that fills it and one that does not. Five
characters and a receiver of two let characters come before, between and after every
step, fill the receiver and be lost. Two descriptors and two entries can both run out, in either order, with a position at the
beginning and at the end of a file; a third path below a file makes every lookup fail where it can. A row of one and
a half cache lines begins on a border, in the middle of a line, and shares lines with the rows
around it. Two levels of nodes are where a name can match at the wrong depth, or below the wrong sister.

`CHECK_DEADLOCK FALSE` stands where a program ends: `exec` has entered user mode, or the kernel
loops for ever in a state that no longer changes.

Each property is paired, in `PROJECT.json`, with a mutation of the modelled code
that breaks it: the operators named `<definition>_<what is wrong>` beside the
definition they stand in for. No specification uses them.

### Fairness

`BuddyAllocator`, `MemoryReserve`: weak fairness of the turns of a call in
progress and none of making calls: the code runs on one thread that nothing
blocks. `RunQueue` states safety only: how often its tasks yield
is up to them. `Threads`: weak fairness of the next-state relation: one processor that executes
its next instruction. `TrapEntry`: weak fairness of the handler, which runs with
interrupts off; user code and interrupts are under no obligation. `PlicUart`: weak
fairness of the gateway, which is hardware, and of the kernel's next step; nobody has to type.
`Interrupts`: the same for the processor as a whole and for the gateway (`MCTraps` states the one for ex41 and ex62,
the other for ex42). `PolledUart`: the kernel's next step and the
transmitter, which is hardware; the receiver is under no obligation. `FwCfg`: the device, which serves what it is asked
for, and the kernel; without the first, the polling loop has no end. `Vfs`: the turns of a call in progress, and
none of making calls. `UserPaging`, `HigherHalf`, `DeviceTree`, `Archive` and `FrameBuffer` state safety only.

### What the runs show

* The allocator never loses or duplicates a page, never leaves two free buddies
  apart and never refuses a request that fits (`ImplementsPageAllocator`), although
  `free_pages` decides by the `order` field of a page that may be a leftover.
* `memory_reserve` is exact for any byte range, and a single call never fails.
* Both branches of `schedule`, with the pointer writes in the order they have, are
  "to the back of the queue". Nothing is claimed about waiting: `enqueue` puts a new task in front of
  all others, so a program that created one for every yield would keep the old ones waiting for ever. ex51
  creates four, all before the first yield.
* The hand-written reading of `s0` in `switch_to` is right for this frame layout.
  It is also redundant: `schedule`'s own epilogue restores `s0`.
* All fifteen lines are out before the first thread spins for good.
* The common trap code keeps the context in all three exercises.
* ex42 reads one character per interrupt without looking at the status register, and that
  is enough: while more are waiting the line stays up, and the completion lets the next
  interrupt through. Nothing is lost that came before the devices were configured.
* `pagewalk` gives each page what was asked for, and never a table or a kernel page to
  the user, wherever it does not fail; it fails only below an entry of `pgd` in use.
* ex61 can execute, use its stack and write its tables at every point of the boot.
* The node that the walk of the device tree returns is the first one on the path, same-named sisters or not, in
  every tree that meets the two conditions of `PlainlyNamed`; both are needed (TLC finds a tree without either).
  It may miss a node where the path forks above its last component (`Forks`), as it does not come back
  from the first way to try the second.
* `fdt_getprop` finds the properties of the node itself and of no other, but none behind a `FDT_NOP`.
* Rounding addresses and rounding sizes come to the same, as the archive lies at a multiple
  of four. `hextoi` reads the digits of an archive right; it takes upper-case digits only, which is what
  archivers write.
* What each half of ex42 assumes of the other holds: the handler runs with interrupts off from the
  trap to the completion, and they are on again as soon as the loop goes on (`SIEAgrees`).
* The file system of ex71 does what a table of descriptors promises wherever its code is
  defined; where a file cannot be created the directory looked up is opened in its place. All this is given a tmpfs that does what its declarations ask for.
* A character is never overwritten on its way out, in either driver, and each line end is sent as two.
* `video_init` returns whatever files the device has, and configures the display if it can be.
* `flush_dcache` covers the row it is given, however the row lies in the lines; when the
  kernel sleeps all of the frame is in memory.

### Findings

* **ex32, second reservation** (`reserve_twice`). The README lists several regions
  to reserve and says that blocks outside a region are passed over. The code
  looks up one head page per order, from `MAX_ORDER` down, and takes a miss for an
  error. Once a call has split a top block, a later call for other, free pages of
  that block prints `Not found!` and exits. `AbortsOnlyOnTouched` shows that this
  is the only way (but for a region beyond memory), so `mm_init`'s one call is safe.
* **ex41, trap frames on the user stack** (`trap_ex41`). `exec` leaves `sscratch` zero
  and gives the program no stack. The first trap is taken for one from the kernel
  and puts its frame below the program's `sp`; on return that `sp` goes into `sscratch` as
  the "kernel stack", so later frames go to the same place, whatever the program
  has pushed since. The README asks to "handle traps safely without corrupting the
  running program". The shipped `prog.bin` uses no stack and is not affected; `exec`
  of ex62 sets both registers, and `UserStackKept` holds there.
* **ex62, second page under one table** (`paging_long`). When the next table exists,
  `pagewalk` goes on with the physical address from the entry, although its pointers are
  virtual since `setup_vm`; it does it right for a table it has just allocated. The second
  page of a program larger than a page needs that table again, and the walk reads an address
  in the lower half that is not mapped. The README asks for a walk that allocates tables only if
  they do not exist. The program of the exercise takes one page, its stack lies under
  another entry of `pgd`, and `FaultOnlyInUsedGiB` shows that this is why it runs.
* **ex21, not the first match** (`first_match`). The README asks that `fdt_path_offset` "return the first match
  node". `strncmp2` compares as far as the node's name goes and does not look whether the component ends there,
  so `/cd` finds a node `c` that stands before `cd`. `ReturnsFirstMatch` fails in two more ways: of two sisters `c@1`
  and `c@2`, of which only the second holds a `c`, the walk tries the first alone and answers -1 to `/c/c`; and an `@`
  further down the path keeps a component without unit address from matching a node with one.
  `FindsFirstMatch` says that these three are all. The paths `main` looks up in `qemu.dtb` meet none of them.

Seen in the code and not worth a run: the echo of ex42 is commented out (`main.c:115`),
while its README expects what is typed on the screen; ex61 maps one gigabyte where its README
says four, and of this gigabyte the superpages below the kernel's own show
the beginning of the next one, since the loop runs on from the kernel's index (`FinalMap` says so of each of them).
`initrd_cat` (`ex22/main.c:82`) prints a file as a string: one whose size is a multiple of 4 has no
padding behind it, and the header and the name of the next entry are printed too (`WalksRight` says exactly when). Neither the magic of a header nor the end of the image is ever checked.
`vfs_open` (`ex71/vfs.c:33`) drops the result of `create`: with a full directory, or below a file, the open
succeeds on the directory it looked up, which `DescriptorTable` states. Opening a file that is not there without `O_CREAT` uses `vnode` uninitialised
(`ex71/vfs.c:37`), and `main` does not look at the descriptor it gets. `start_kernel` of ex52 loops before
`display_video` (`ex52/main.c:30-31`), while its README shows an animation; `FrameShown` is about what that would do.
ex21's README calls a `FDT_NOP` "Ignored" (line 51), but one among the properties ends the loop of `fdt_getprop`
(`main.c:143`), as `GetsProperty` says; `magic`, which the README asks to check, is never read; and `main` does not look at the result
of its second and third lookup (`main.c:198`, `main.c:203`). `usleep` multiplies in 32 bits, so its delay wraps around. `fw_cfg_find_file`'s -1 becomes selector 0xffff, and
the loop in `fw_cfg_dma_transfer` takes the error for the end.

## Proofs

Each proof is of one inductive invariant, `IInv`, a conjunction of named parts, with a lemma
for every action; TLC has checked each of these invariants on the instances of the runs. What is
assumed of the constants is named in the modules that declare them, and TLC evaluates it in every run.

| Assumption | What it says | Why the code has it |
|---|---|---|
| `SizesAssumption`, `PagesAssumption` | block sizes start at 1, double and divide one another; `mem_map` is whole top blocks | `1 << k`; `NUM_PAGES` is 0x280000, `MAX_ORDER` 10 |
| `RegionsAssumption` | ranges are not empty | see Not modelled |
| `TasksAssumption`, `ThreadsAssumption` | there is a task; `NULL` is no task, pointer or register value | idle is created before anything is scheduled |
| `TrapAssumption` | what user code computes is no pointer, and neither of the marks of a stack slot | the models tell values apart by what they are for |
| `InterruptsAssumption` | the interrupt number is not 0, the receiver holds something | number 10; 0 means no interrupt |
| `Sv39Assumption` | a table has two entries or more; no entry is `NONE` | 512; `PTE_V` is clear in an empty one |
| `UserPagingAssumption` | an even number of entries; memory in the lower half of the map, and no more than `setup_vm` maps; `pgd` below `_end`; calls of `map_pages` for pages of the user | `PAGE_OFFSET`; `NUM_PAGES` is 0x280000, ten gigabytes; the linker script; the two calls of `exec` |
| `HigherHalfAssumption` | an even number of entries; the image, its tables in it, lies in one GiB of the lower half and the UART in another | `PAGE_OFFSET`; the linker script; the board's addresses |
| `TreesAssumption`, `PathsAssumption` | begins and ends of nodes match, `FDT_END` is last, names have no slash; paths begin with one | the format of a flattened tree; the paths `main` looks up |
| `ArchivesAssumption` | an archive lies at a word and ends with the trailer; a name has at least its NUL; sizes fit in an `int` with room for the rounding | `newc`; the firmware's `initrd` |
| `FramesAssumption` | an image fits in the frame buffer | `video_bmp_display` does not clip |
| `VfsAssumption` | there is a descriptor; a path is a sequence of components; `NONE` is no open descriptor | `vfs_lookup` takes what stands between slashes; 0 is no pointer |

`BuddyPagesLemmas`: arithmetic on multiples of a size; two aligned blocks are nested
or apart (`NestedOrApart`); cutting a block of a tiling in two or joining two
buddies gives a tiling (`SplitTiles`, `MergeTiles`); what `push_front`, `pop_front` and
`remove` do to a list of distinct pages; `get_buddy` is an involution; the initial
lists are a sound tiling; a set of orders has a least one.

`BuddyAllocatorProofs`: `TypeOK`, `BlocksTilePages`, `FreeListsSound` and
`FreeBuddiesMerged` are not inductive by themselves: `Split` relies on the block it
halves being in front of its list and on its buddy half being no listed page, and
`Merge` on the page in hand being the head of a block that nothing else lists.
`IInv` adds this as `SplitSound` and `MergeSound`. The argument turns on
`BuddyIsListed`: if the buddy of the block in hand has the same `order` and
`refcount` 0, then it *is* a free block of that order. The tiling decides: the
buddy page lies in some block; that block is aligned, does not contain the block in
hand, and so is the buddy itself or lies inside it; headed by the buddy page with a
true `order` field, it is the buddy. A leftover field can never be mistaken for a
free buddy.

The refinement of `PageAllocator` is exact in both directions. Success is the tiling. Refusal
needs `RunIsListed`: an aligned run of free pages lies in *one* free block. If only smaller
blocks covered it, one of least order among them would have a buddy inside the run; the block over
the buddy is no smaller and does not reach over, so it is the buddy, and two free buddies
are apart, against `FreeBuddiesMerged`. `AllFreedAlwaysRestores` is the same lemma for the top
blocks when nothing is in use, and a count of them.

`MemoryReserveProofs`: `IInv` has the same parts for `memory_reserve`, `ReservedExactly`,
`CallSound` (the pages from `start_pfn` to `end_pfn` are exactly those asked for and
not yet reserved) and `InnerLoopSound` (`cur_base` is a multiple of twice the size at hand
and the offset lies between it and twice that size above it). From the last it
follows that the search always ends with an order (`OrderAlwaysFound`).
A second invariant, `PathInv`, is about the way a call takes: a top block without a reserved
page is listed whole (`UntouchedTops`); in a top block new to this call, every block with
`start_pfn` in its left half has its right half free (`ScanSound`, `OrderSound`), so
that the block the search goes on with is listed; and the only two free buddies there ever are
are the halves of the block just split (`FreePairs`). The last is `NoNeedlessSplit` between
calls; the others leave `NotFound` only where `AbortsOnlyOnTouched` says.

`RunQueueProofs`: `RingSound` counts a walk; its inductive form `IsRing` says that the walk
from `run_queue` is a permutation of the tasks with `next` and `prev` leading from each to its
neighbours. The walk is a recursive function, so `WalkIsRing` shows it to be whatever satisfies `IsRing`;
each of the pointer writes of `enqueue` and `schedule` is then followed on rings of one, two
and more tasks. With the walk as the queue, `enqueue` puts a task in
front of all others and `schedule` moves the running one, wherever it is, to the back: `ReadyQueue`.

`ThreadsProofs`: a task that is not running has either never run, and then its `task_struct` holds
`threadfn` and an empty stack, or waits in `schedule` (`InSchedule`): its frame holds where it
was called and its `s0`, and the `task_struct` the rest. Nobody else writes to that frame, as all
pointers of a task are into a stack of its own. Between the turn of the ring and the move of `tp` the
processor is in `switch_to`; seen with `tp` moved at once, the two are one `Schedule` of `RunQueue`, whose proofs
this module uses through an instance.

`InterruptsProofs` begins with `TrapEntry`: the interrupted context is followed from the registers
(`ContextInRegs`) into the frame (`ContextInFrame`) and back; meanwhile the CSRs hold what the hardware
left (`TrapCsrs`), and `sscratch` what the next trap needs (`Scratch`, `UserScratch`). The three exercises
differ in where the user's stack lies, which `Context` and `KernelStack` tell apart. For ex41 all
but `UserStackKept` holds too: the frame overwrites what the program has pushed, and yet every context comes back.

Then the handshakes: `ReadsFindChars` speaks of the moment of the read only. `HandshakeInv` adds that
from the trap to the claim the interrupt stays on offer and that the gateway is shut exactly from
claim to completion (`Handshake`), and that an interrupt on its way, in the PLIC or in the
handler before its read, means a character waits (`InterruptsHaveChars`): only the handler
takes characters away, and while it does none becomes pending. Last, the composition: every step of the
whole of ex42 is a step of `PlicUart` or leaves it alone, and the same of `TrapEntry`
(`ImplementsPlicUart`, `ImplementsTrapEntry`), so both invariants hold of it. `SIEAgrees` needs the second one:
`sret` turns interrupts on because the interrupted context, which was the loop, had them on.

`UserPagingProofs`: everything `alloc_page` has given lies below the break and above `_end` (`Used`); the
tables below `pgd` are such pages (`Tables`), none of them is in two places (`Apart`) or a page
of a call or of the user (`Data`); the upper half of `pgd` is the kernel's (`KernelHalf`). Then an
entry written on the way changes one user page and no other (`NewLevel1`, `NewLevel0`,
`NewLeaf`), and `Translate` finds what `mapped` says (`UserSees`). `Walk` says where a walk is: at a table
it has just made, or at a physical address, `Lost`, through which nothing can be read, with another page
in the same entry of `pgd` (`Occupied`). `Calls` carries the memory that is left, as `MemoryFor`
asks for before a call, and why the program's loop gets past its first page only to end or to fault.
`OnePageNeverFaults` needs a second invariant, `ExecInv`: with `exec` as the only caller and a
program of at most a page, the two pages asked for are under different entries of `pgd`, each empty before.

`ProgramsProofs` has an invariant for each of four of the six programs; `OneInv` says that the
one that runs keeps its own.

* *The boot of ex61.* `Filled` says what each turn of `setup_vm`'s loop has entered; the indices of the
  turns, modulo the size of a table, do not meet, so that after the last one both maps hold every
  superpage from the kernel's own to the end of its GiB. With the superpages of the image among them, code and
  stack are mapped on either side of the jump (`BootSafe`). `drop_identity_map` clears what lies below the half
  entry by entry, and `sfence` what the cache has kept of it (`BootEnds`). The turns past the end of the table come round
  to the indices before the kernel's with addresses one GiB up (`WrappedReached`).
* *The frame buffer.* The rows copied are the frame's, in the kernel's view (`Copied`), and nobody writes beside
  it (`Beside`). The rows before `y` are in memory, and of row `y` whatever lies in a line before `line`
  (`Flushed`). A line may be shared with another row or hold pixels beside the frame, so this is said of pixels.
* *Device trees.* The nodes that enclose a token are named by depth: `Last(c, d)` is the last one
  before `c` at depth `d`, and while `c` is inside it, it is the one that encloses it (`Crossing`: depths change by
  one). `WalkInv` says that those up to `matching_depth` answer to their components, that the next
  does not, and that no node passed matches the whole path. `NameMatches`
  shows what `strncmp2` accepts, for strings of any length. Once the node
  that matched last has ended, the walk matches no other at its depth; if a node on the path lies there all the same, the path
  forks (`TwoWays`).
* *Archives.* `FieldRead`: eight digits written by division are read back by `hextoi`. `RoundedSum`
  makes the two roundings one, so each step goes from one header to the next (`HeaderRead`), and what
  has been passed is listed or does not have the name looked for.

`Vfs` keeps state of its own in the same module. Its invariant: the root lists every file under a name of its
own (`RootSound`), each object in the heap belongs to one descriptor and its position lies in the file
(`TableSound`), and a call in progress knows what it needs for its end (`CallSound`): the slots
below `slot` are taken or no slot will do (`Hopeless`: neither the file nor its directory is there), and what
is left of a path, put behind the path of `node`, is the path asked for (`Reached`). Walks and turns of the loop over the slots then
leave alone what `DescriptorTable` speaks of, and the last step of each call is its `Open`, `Close` or `Access`:
the slot found is the least free descriptor (`LowestFree`), the file found the one of the path, since paths
are one to one (`FilePath`), a directory has room when it has fewer files than entries (`RoomLeft`, by counting), and
a unit appended or replaced is the data with one unit exchanged (`UnitWritten`).

Where a definition takes a set's least or first element, the proofs get it from the well-foundedness of `<`, in
the form that a non-empty set of numbers has a least one (`LeastNumber`); what would be an
induction over tokens or entries is the step from one to the next of the invariant.

Theorems:

* allocator: `Inductive`, `TypeCorrect`, `TilesAlways`, `ListsAlwaysSound`, `BuddiesAlwaysMerged`,
  `AllFreedAlwaysRestores`, `ImplementsAbstract`;
* reservation: `Inductive`, `TypeCorrect`, `TilesAlways`, `ListsAlwaysSound`, `AlwaysReservedExactly`,
  `OrderAlwaysFound`, `PathInductive`, `NeverSplitsNeedlessly`, `AbortsAreExplained`;
* run queue: `Inductive`, `TypeCorrect`, `RingAlwaysSound`, `ImplementsQueue`;
* threads: `Inductive`, `AlwaysResumesAsLeft`, `ImplementsQueue`;
* traps: `Inductive`, `ScratchProtocolHolds`, `UserStackKeptHolds`, `ContextKeptHolds`;
* interrupts: `HandshakesInductive`, `HandshakesTypeCorrect`, `AlwaysReadsFindChars` of the handshakes; `ImplementsPlicUart`,
  `ImplementsTrapEntry`, `SystemReadsFindChars`, `SIEAlwaysAgrees` of the whole;
* user paging: `Inductive`, `AlwaysMapsAsAsked`, `AlwaysIsolated`, `AlwaysProgramLoaded`,
  `FaultsOnlyInUsedGiB`, `OnePageNeverFaults`;
* boot, images, frames: `ProgramsInductive`, `AlwaysBootRuns`, `AlwaysFinalMap`, `AlwaysFindsFirstMatch`,
  `AlwaysGetsProperty`, `AlwaysWalksRight`, `AlwaysFrameShown`;
* file system: `FilesInductive`, `ImplementsPromise`.

### Only model-checked

* Liveness (`CallsReturn`, `CallsEnd`, `PrintsAllLines`, `TrapsReturn`,
  `EveryCharRead`, `EchoesAll`, `Configures`, and that of `DescriptorTable`): beyond the prover, which has
  no rule for fairness and `ENABLED` here.
* `PolledUart` and `FwCfg`, whose properties `EchoesAll` and `Configures` are liveness: that
  everything comes back, and that the loops end.
* `PlainlyNamed` and `Forks` are conditions of `FindsFirstMatch`, not results: TLC has shown each of them to be needed, and
  `first_match` shows what happens without.

## Plan

1. *(done)* The allocators, the run queue, context switches, trap entry; their first proofs.
2. *(done)* Interrupts, both page tables, the device tree, the archive; ex42 as a whole; the file
   system of ex71, the polled UART, the display of ex52.
3. *(done)* Proofs about the allocators: the refinement of `PageAllocator`, `AllFreedRestores`,
   `NoNeedlessSplit` and `AbortsOnlyOnTouched`.
4. *(done)* Proofs about the scheduler, the trap code and their compositions: `RunQueue`, `Threads`,
   `TrapEntry`, `Interrupts`.
5. *(done)* Proofs about `UserPaging`, from an invariant on the tree of tables.
6. *(done)* Proofs about the programs that do not meet: the boot of ex61, the walks over both images, the
   frame buffer; the safety part of the refinement of `DescriptorTable` by `Vfs`.
7. Composition: `TrapEntry` over the page tables of ex62, where the frame must be reachable in
   the map in force.

## Not modelled

The SBI calls of `ex12/main.c` are stateless calls into the firmware, and `uart_hex` formats their
results; `ex72` is an empty body. `bird.h`, 97,672 of the repository's lines, is the picture data of
`display_video`. In `ex71`, `tmpfs_create_vnode`, `tmpfs_create`, `tmpfs_read` and `tmpfs_write` are empty and modelled
from how they are used; `register_filesystem` is called once, before everything else, and no vnode ever has
a `mount`, so the loops over mounts in `vfs_lookup` are left out, as are the limits on the length of names and paths.
`path_idx` of ex21 has room for the ten components that no path has more of here.
`test.c` is not part of any exercise. `memory_reserve` with size 0 is left out: nothing calls
it so, and its `end_pfn` then wraps. Memory for `kmalloc` and `alloc_page` is
taken not to run out, as in the code. Text output is modelled only where a
property is about it (`Threads`, `Archive`, `PolledUart`); `bswap32` and the like are left out with the bytes they read.
