SPECIFICATION Spec
CONSTANTS
  NUM_TC = 2
  SEQ = 2
  MaxEvents = 1
INVARIANTS
  SentWhenReceived
