SPECIFICATION Spec
CONSTANTS
  Params <- MCParams
  Values <- MCValues
  Ports <- MCPorts
  Cut <- MCCut
  SrcIp <- MCSrcIp
  Clients <- MCClients
  Packets <- MCPackets
  BLOCK_SIZE = 2
  TFTP_BUFFER_SIZE = 6
  HELP_LEN = 5
  TIMEOUT = 1
INVARIANT
  BufferHoldsOnlyThisTransfer
