SPECIFICATION Spec
CONSTANTS
  c1 = c1
  c2 = c2
  blank = blank
  Data <- MCData
  DefaultConfig = c1
  Blank = blank
  MAX_SECTORS = 3
  BLOCKS = 2
  MaxBcc = 14
  MaxFails = 3
  FaultSets <- Either
INVARIANTS
  TypeOK
  NewestKnown
PROPERTIES
  ImplementsStore
