SPECIFICATION FairSpec
PROPERTIES
  ResetHappens
CHECK_DEADLOCK FALSE
