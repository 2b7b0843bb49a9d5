CONSTANTS
  NUM_TASKS = 6
  NULL = NULL
SPECIFICATION Spec
INVARIANT RingSound
PROPERTY ImplementsReadyQueue
