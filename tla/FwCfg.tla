-------------------------------- MODULE FwCfg --------------------------------
(***************************************************************************)
(* video_init of ex52: the kernel looks for the file etc/ramfb in the      *)
(* directory of QEMU's fw_cfg device and writes the frame buffer's         *)
(* configuration to it. Every transfer is a DMA of the device, which takes *)
(* its time; the kernel polls the control word of its request.             *)
(***************************************************************************)
EXTENDS Integers, Sequences

CONSTANT Directories   \* the files the device may have: sequences of names

VARIABLES
  files,    \* the device's files; file n has selector n
  pc,       \* the transfer that the kernel waits for
  i, count, file,   \* fw_cfg_find_file's locals
  access,   \* the DMA request: what for, what follows it, its control word
  cursor,   \* the selected entry, and how much of it has been read
  config    \* the device has the frame buffer's configuration

vars == <<files, pc, i, count, file, access, cursor, config>>

RAMFB == "etc/ramfb"
FILE_DIR == 0

Init ==
  /\ files \in Directories
  /\ pc = "video_init"
  /\ i = 0
  /\ count = 0
  /\ file = [name |-> "", select |-> 0]
  /\ access = [op |-> "none", select |-> FILE_DIR, for |-> "none", control |-> "0"]
  /\ cursor = [entry |-> FILE_DIR, at |-> 0]
  /\ config = FALSE

-----------------------------------------------------------------------------
(* The device *)

\* Where a request begins: "read" goes on, the others select an entry.
Start ==
  IF access.op = "read" THEN cursor ELSE [entry |-> access.select, at |-> 0]

\* The directory is the number of files, then the files. Reading beyond gives
\* zeroes. Only etc/ramfb can be written, and only that is no error.
Serve ==
  /\ access.control = "asked"
  /\ cursor' = [Start EXCEPT !.at = @ + 1]
  /\ IF access.op = "select, write"
       THEN LET ok == Start.entry \in DOMAIN files /\ files[Start.entry] = RAMFB
            IN  /\ config' = (config \/ ok)
                /\ access' = [access EXCEPT !.control = IF ok THEN "0" ELSE "ERROR"]
                /\ UNCHANGED <<count, file>>
       ELSE /\ count' = IF access.for = "count" THEN Len(files) ELSE count
            /\ file' = IF access.for # "compare" THEN file
                       ELSE IF Start.at \in DOMAIN files
                         THEN [name |-> files[Start.at], select |-> Start.at]
                         ELSE [name |-> "", select |-> 0]
            /\ access' = [access EXCEPT !.control = "0"]
            /\ UNCHANGED config
  /\ UNCHANGED <<files, pc, i>>

-----------------------------------------------------------------------------
(* The kernel *)

\* fw_cfg_dma_transfer up to its loop, which ends where pc goes
fw_cfg_dma_transfer(op, select, next) ==
  /\ access' = [op |-> op, select |-> select, for |-> next, control |-> "asked"]
  /\ pc' = next

\* Mutant: the control word is not polled.
Transferred_Unpolled == TRUE

\* The end of that loop: nothing is left but perhaps the error bit.
Transferred == access.control \in {"0", "ERROR"}

\* video_init calls fw_cfg_find_file, which asks for the number of files.
ReadCount ==
  /\ pc = "video_init"
  /\ fw_cfg_dma_transfer("select, read", FILE_DIR, "count")
  /\ UNCHANGED i

\* fw_cfg_find_file returns e, and video_init writes entry e; the -1 for a
\* file that is not there is no entry either.
WriteConfig(e) == fw_cfg_dma_transfer("select, write", e, "written")

\* The loop of fw_cfg_find_file at file n
ReadFile(n) ==
  IF n < count
    THEN fw_cfg_dma_transfer("read", FILE_DIR, "compare")
    ELSE WriteConfig(-1)

FirstFile ==
  /\ pc = "count"
  /\ Transferred
  /\ ReadFile(0)
  /\ UNCHANGED i

Compare ==
  /\ pc = "compare"
  /\ Transferred
  /\ IF file.name = RAMFB
       THEN WriteConfig(file.select) /\ UNCHANGED i
       ELSE i' = i + 1 /\ ReadFile(i')

video_init_returns ==
  /\ pc = "written"
  /\ Transferred
  /\ pc' = "returned"
  /\ UNCHANGED <<i, access>>

Kernel ==
  /\ ReadCount \/ FirstFile \/ Compare \/ video_init_returns
  /\ UNCHANGED <<files, count, file, cursor, config>>

Next == Serve \/ Kernel

\* The device serves what it is asked for, and the kernel executes.
Fairness == WF_vars(Serve) /\ WF_vars(Kernel)

Spec == Init /\ [][Next]_vars /\ Fairness

-----------------------------------------------------------------------------
(* Properties *)

\* video_init returns, with or without a ramfb in the machine, and no entry of
\* the directory is passed over: the frame buffer is configured if it is there
\* at all. That a write to no entry ends in an error, which the polling loop
\* takes for an end like any other, is what makes it return.
Configures ==
  <>(pc = "returned" /\ config = (\E n \in DOMAIN files : files[n] = RAMFB))
=============================================================================
