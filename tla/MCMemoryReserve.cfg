CONSTANTS
  NUM_PAGES = 16
  MAX_ORDER = 3
  BlockSize <- MCBlockSize
  NULL = NULL
  PAGE_SIZE = 2
  Regions <- MCRegions
SPECIFICATION FairSpec
INVARIANTS
  TypeOK
  BlocksTilePages
  FreeListsSound
  ReservedExactly
  NoNeedlessSplit
  AbortsOnlyOnTouched
PROPERTIES
  CallsEnd
CHECK_DEADLOCK FALSE
