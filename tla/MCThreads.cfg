CONSTANTS
  NUM_TASKS = 4
  ROUNDS = 5
  Values = {v1, v2}
  NULL = NULL
SPECIFICATION FairSpec
INVARIANT ResumesAsLeft
PROPERTIES
  PrintsAllLines
  ImplementsRunQueue
