CONSTANTS
  ENTRIES = 512
  NONE = NONE
  START = 524800
  END = 524815
  PGD = 524802
  PMD = 524803
  UART = 65536
  Trees <- MCTrees
  Paths <- MCPaths
  PropNames = {"p"}
  HEADER = 6
  TRAILER = "TRAILER!!!"
  Archives <- MCArchives
  Bases = {4}
  FileNames = {"prog.bin"}
  Banner <- MCBanner
  Keys <- MCKeys
  CHARS = 3
  RX_CAPACITY = 2
  Directories <- MCDirectories
  FB_WIDTH = 6
  FB_HEIGHT = 4
  LINE = 4
  Sizes <- MCSizes
  FRAME_COUNT = 2
SPECIFICATION SpecOfOne
INVARIANTS
  FindsFirstMatch
  GetsProperty
  WalksRight
  BootRuns
  FinalMap
  FrameShown
PROPERTIES
  EchoesAll
  Configures
CHECK_DEADLOCK FALSE
