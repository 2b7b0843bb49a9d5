CONSTANTS
  ENTRIES = 4
  NONE = NONE
  PAGE_SIZE = 2
  NUM_PAGES = 32
  RAM <- MCRAM
  PGD = 17
  END = 37
  FileSizes = {3}
  CallPages = {}
  CallSizes = {}
SPECIFICATION Spec
INVARIANT WalkNeverFaults
CHECK_DEADLOCK FALSE
