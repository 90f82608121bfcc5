SPECIFICATION Spec
CONSTANTS
  NUM_RX = 2
  NUM_TX = 2
  POOL = 2
INVARIANT
  BuffersReturned
CHECK_DEADLOCK FALSE
