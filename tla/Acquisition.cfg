SPECIFICATION FairSpec
CONSTANTS
  NUM_TC = 2
  SEQ = 2
  MaxEvents = 1
INVARIANTS
  TypeOK
  TransferAccepted
  RightSlave
  StampNotOlder
  BroughtUp
PROPERTIES
  ThermocouplesServed
  AdcBusServed
