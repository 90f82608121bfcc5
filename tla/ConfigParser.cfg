SPECIFICATION Spec
CONSTANTS
  Params <- MCParams
  Values <- MCValues
  Ports <- MCPorts
  Cut <- MCCut
  Files <- MCFiles
  Start <- MCStart
INVARIANTS
  ComputesCommands
CHECK_DEADLOCK FALSE
