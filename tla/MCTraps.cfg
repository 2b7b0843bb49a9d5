CONSTANTS
  Exercises = {"ex41", "ex42", "ex62"}
  Values = {v1, v2}
  USER_DEPTH = 2
  UART_IRQ = 10
  CHARS = 5
  RX_CAPACITY = 2
SPECIFICATION Traps
INVARIANTS
  ScratchProtocol
  UserStackKept
  ReadsFindChars
  SIEAgrees
PROPERTIES
  ContextKept
  TrapsReturn
  EveryCharRead
CHECK_DEADLOCK FALSE
