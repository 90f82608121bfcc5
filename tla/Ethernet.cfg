SPECIFICATION Spec
CONSTANTS
  NUM_RX = 2
  NUM_TX = 2
  POOL = 1
INVARIANTS
  TypeOK
  FramesNotForgotten
  RingIsQueue
  TransmitAwake
  FewDatagramsDropped
CHECK_DEADLOCK FALSE
