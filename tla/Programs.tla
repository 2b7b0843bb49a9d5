------------------------------- MODULE Programs -------------------------------
(***************************************************************************)
(* The programs that have nothing to do with each other: the readers of    *)
(* the two images the firmware hands over, the boot of ex61, the polled    *)
(* UART and the two parts of ex52. A behaviour is one of one of them.      *)
(***************************************************************************)
EXTENDS HigherHalf, Sequences, FiniteSets

CONSTANTS
  Trees, Paths, PropNames,                               \* of DeviceTree
  HEADER, TRAILER, Archives, Bases, FileNames,           \* of Archive
  Banner, Keys, CHARS, RX_CAPACITY,                      \* of PolledUart
  Directories,                                           \* of FwCfg
  FB_WIDTH, FB_HEIGHT, LINE, Sizes, FRAME_COUNT          \* of FrameBuffer

VARIABLES
  program,   \* the one a behaviour is of
  fdt, path, name, dpc, cur_off, cur_depth, matching_depth, offset, prop,
  archive, abase, filename, reader, apc, cur, listed, file, printed,
  version, upc, out, rx, thr, received, sent,
  files, cpc, ci, count, entry, access, cursor, config,
  size, f, fpc, y, line, memory, view, dirty

treeVars ==
  <<fdt, path, name, dpc, cur_off, cur_depth, matching_depth, offset, prop>>
archiveVars == <<archive, abase, filename, reader, apc, cur, listed, file, printed>>
uartVars == <<version, upc, out, rx, thr, received, sent>>
fwCfgVars == <<files, cpc, ci, count, entry, access, cursor, config>>
frameVars == <<size, f, fpc, y, line, memory, view, dirty>>

-----------------------------------------------------------------------------
DT == INSTANCE DeviceTree WITH pc <- dpc
AR == INSTANCE Archive WITH pc <- apc, base <- abase
PU == INSTANCE PolledUart WITH pc <- upc
FC == INSTANCE FwCfg WITH pc <- cpc, i <- ci, file <- entry
FB == INSTANCE FrameBuffer WITH pc <- fpc

-----------------------------------------------------------------------------
(* What the programs are given *)

IsSeq(s) == s \in Seq({s[n] : n \in DOMAIN s})
NonEmptySeq(s) == s # << >> /\ IsSeq(s)

\* A string of C, and a node's name: slashes are in paths only.
IsString(s) == IsSeq(s) /\ \A n \in DOMAIN s : s[n] # DT!NUL
IsNodeName(s) == IsString(s) /\ \A n \in DOMAIN s : s[n] # "/"

\* How many tokens of a kind a tree has before the one at n
Before(t, n, kind) == Cardinality({m \in DOMAIN t : m < n /\ t[m].kind = kind})

\* The tokens of a tree; FDT_END ends it. What ends in it has begun, and all nodes
\* but one, the first, lie in another.
Tokens == {"FDT_BEGIN_NODE", "FDT_END_NODE", "FDT_PROP", "FDT_NOP", "FDT_END"}
ASSUME TreesAssumption ==
  \A t \in Trees :
    /\ NonEmptySeq(t)
    /\ \A n \in DOMAIN t :
         /\ t[n].kind \in Tokens
         /\ t[n].kind = "FDT_END" <=> n = Len(t)
         /\ t[n].kind = "FDT_BEGIN_NODE" => IsNodeName(t[n].name)
         /\ \/ t[n].kind = "FDT_END_NODE"
            \/ t[n].kind = "FDT_BEGIN_NODE" /\ Before(t, n, "FDT_BEGIN_NODE") > 0
            => Before(t, n, "FDT_END_NODE") < Before(t, n, "FDT_BEGIN_NODE")

\* main looks up paths that begin with a slash, and path_idx has ten entries.
ASSUME PathsAssumption ==
  \A p \in Paths :
    /\ p # << >> /\ IsString(p) /\ p[1] = "/"
    /\ Cardinality({n \in DOMAIN p : p[n] = "/"}) <= 10

\* The largest size in an archive, with room to spare in an int
MaxSize == 1073741823
FieldSizes == {n \in Nat : n <= MaxSize}

\* An archive lies at a word and ends with the trailer, which is no file. The
\* size of a name counts its NUL.
ASSUME ArchivesAssumption ==
  /\ HEADER \in Nat \ {0} /\ TRAILER \notin FileNames
  /\ \A b \in Bases : b \in Nat /\ (b % 4) = 0
  /\ \A a \in Archives :
       /\ NonEmptySeq(a)
       /\ \A n \in DOMAIN a :
            /\ a[n].namesize \in FieldSizes \ {0} /\ a[n].filesize \in FieldSizes
            /\ a[n].name = TRAILER <=> n = Len(a)

\* video_bmp_display has no clipping: an image fits in the frame buffer.
ASSUME FramesAssumption ==
  /\ FB_WIDTH \in Nat \ {0} /\ FB_HEIGHT \in Nat \ {0}
  /\ Sizes \subseteq (1 .. FB_WIDTH) \X (1 .. FB_HEIGHT)
  /\ LINE \in Nat \ {0} /\ FRAME_COUNT \in Nat \ {0}

-----------------------------------------------------------------------------
\* What the variables of the programs that do not run hold
Idle == "idle"
TreeIdle ==
  /\ fdt = Idle /\ path = Idle /\ name = Idle /\ dpc = Idle /\ cur_off = Idle
  /\ cur_depth = Idle /\ matching_depth = Idle /\ offset = Idle
  /\ prop = Idle
ArchiveIdle ==
  /\ archive = Idle /\ abase = Idle /\ filename = Idle /\ reader = Idle
  /\ apc = Idle /\ cur = Idle /\ listed = Idle /\ file = Idle
  /\ printed = Idle
BootIdle ==
  /\ pc = Idle /\ base = Idle /\ sp = Idle /\ satp = FALSE /\ mem = Idle
  /\ i = Idle /\ cached = Idle
UartIdle ==
  /\ version = Idle /\ upc = Idle /\ out = << >> /\ rx = << >> /\ thr = << >>
  /\ received = << >> /\ sent = << >>
FwCfgIdle ==
  /\ files = Idle /\ cpc = Idle /\ ci = Idle /\ count = Idle /\ entry = Idle
  /\ access = Idle /\ cursor = Idle /\ config = Idle
FrameIdle ==
  /\ size = Idle /\ f = Idle /\ fpc = Idle /\ y = Idle /\ line = Idle
  /\ memory = Idle /\ view = Idle /\ dirty = Idle

InitOfOne ==
  \/ /\ program = "DeviceTree" /\ DT!Init
     /\ ArchiveIdle /\ BootIdle /\ UartIdle /\ FwCfgIdle /\ FrameIdle
  \/ /\ program = "Archive" /\ AR!Init
     /\ TreeIdle /\ BootIdle /\ UartIdle /\ FwCfgIdle /\ FrameIdle
  \/ /\ program = "HigherHalf" /\ Init
     /\ TreeIdle /\ ArchiveIdle /\ UartIdle /\ FwCfgIdle /\ FrameIdle
  \/ /\ program = "PolledUart" /\ PU!Init
     /\ TreeIdle /\ ArchiveIdle /\ BootIdle /\ FwCfgIdle /\ FrameIdle
  \/ /\ program = "FwCfg" /\ FC!Init
     /\ TreeIdle /\ ArchiveIdle /\ BootIdle /\ UartIdle /\ FrameIdle
  \/ /\ program = "FrameBuffer" /\ FB!Init
     /\ TreeIdle /\ ArchiveIdle /\ BootIdle /\ UartIdle /\ FwCfgIdle

\* Which program a step is of
OnlyTree ==
  /\ program = "DeviceTree"
  /\ UNCHANGED <<program, archiveVars, vars, uartVars, fwCfgVars, frameVars>>
OnlyArchive ==
  /\ program = "Archive"
  /\ UNCHANGED <<program, treeVars, vars, uartVars, fwCfgVars, frameVars>>
OnlyBoot ==
  /\ program = "HigherHalf"
  /\ UNCHANGED <<program, treeVars, archiveVars, uartVars, fwCfgVars, frameVars>>
OnlyUart ==
  /\ program = "PolledUart"
  /\ UNCHANGED <<program, treeVars, archiveVars, vars, fwCfgVars, frameVars>>
OnlyFwCfg ==
  /\ program = "FwCfg"
  /\ UNCHANGED <<program, treeVars, archiveVars, vars, uartVars, frameVars>>
OnlyFrame ==
  /\ program = "FrameBuffer"
  /\ UNCHANGED <<program, treeVars, archiveVars, vars, uartVars, fwCfgVars>>

NextOfOne ==
  \/ OnlyTree /\ DT!Next
  \/ OnlyArchive /\ AR!Next
  \/ OnlyBoot /\ Next
  \/ OnlyUart /\ PU!Next
  \/ OnlyFwCfg /\ FC!Next
  \/ OnlyFrame /\ FB!Next

allVars ==
  <<program, treeVars, archiveVars, vars, uartVars, fwCfgVars, frameVars>>

\* With the fairness of the programs that have any
SpecOfOne ==
  /\ InitOfOne /\ [][NextOfOne]_allVars
  /\ WF_allVars(OnlyUart /\ PU!Kernel) /\ WF_allVars(OnlyUart /\ PU!Transmit)
  /\ WF_allVars(OnlyFwCfg /\ FC!Kernel) /\ WF_allVars(OnlyFwCfg /\ FC!Serve)

-----------------------------------------------------------------------------
(* The properties of the programs, beside BootRuns and FinalMap *)

FindsFirstMatch == program = "DeviceTree" => DT!FindsFirstMatch
ReturnsFirstMatch == program = "DeviceTree" => DT!ReturnsFirstMatch
GetsProperty == program = "DeviceTree" => DT!GetsProperty
WalksRight == program = "Archive" => AR!WalksRight
FrameShown == program = "FrameBuffer" => FB!FrameShown
EchoesAll == program = "PolledUart" => PU!EchoesAll
Configures == program = "FwCfg" => FC!Configures
=============================================================================
