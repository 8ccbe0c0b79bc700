SPECIFICATION FairSpec
CONSTANTS
  Peers <- MCPeers
  Poke <- MCPoke
  MaxBacklog = 2
INVARIANTS AcceptedIsDelivered DeliveredWasAccepted
PROPERTIES ClientNeverHangs ShutdownReturns
CHECK_DEADLOCK FALSE
