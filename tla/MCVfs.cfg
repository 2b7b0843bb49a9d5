CONSTANTS
  MAX_FD = 2
  ENTRIES = 2
  SIZE = 1
  Paths <- MCPaths
  Data = {d1, d2}
  NONE = NONE
SPECIFICATION Spec
PROPERTY ImplementsDescriptorTable
CHECK_DEADLOCK FALSE
