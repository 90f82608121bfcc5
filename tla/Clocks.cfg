SPECIFICATION FairSpec
CONSTANTS
  MAX_TMR = 2
  Periods = {2}
  PERIOD = 2
  MaxBehind = 3
INVARIANT
  StampWithinMillisecond
PROPERTIES
  ImplementsService
  HandlerEnds
