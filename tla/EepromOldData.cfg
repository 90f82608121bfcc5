SPECIFICATION Spec
CONSTANTS
  c1 = c1
  c2 = c2
  blank = blank
  Data <- MCData
  DefaultConfig = c1
  Blank = blank
  MAX_SECTORS = 2
  BLOCKS = 2
  MaxBcc = 3
  MaxFails = 1
  FaultSets <- NoneOfThem
INVARIANTS
  OldDataStillBoots
