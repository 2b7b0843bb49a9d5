CONSTANTS
  ENTRIES = 4
  NONE = NONE
  PAGE_SIZE = 2
  NUM_PAGES = 32
  RAM <- MCRAM
  PGD = 17
  END = 37
  FileSizes = {0, 1, 2}
  CallPages <- MCCallPages
  CallSizes = {1, 2, 3}
SPECIFICATION Spec
INVARIANTS
  MapsAsAsked
  Isolated
  ProgramLoaded
  FaultOnlyInUsedGiB
CHECK_DEADLOCK FALSE
