CONSTANTS
  NUM_PAGES = 8
  MAX_ORDER = 2
  BlockSize <- MCBlockSize
  NULL = NULL
SPECIFICATION FairSpec
INVARIANTS
  TypeOK
  BlocksTilePages
  FreeListsSound
  FreeBuddiesMerged
  AllFreedRestores
PROPERTIES
  ImplementsPageAllocator
  CallsReturn
