CONSTANTS
  Capacity = 2
  MaxPackets = 4
SPECIFICATION FairSpec
INVARIANTS DeviceInOrder TunnelInOrder ClosedOnReturn
PROPERTIES StopReturns FailedStartReturns
CHECK_DEADLOCK FALSE
