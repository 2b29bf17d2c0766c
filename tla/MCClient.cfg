SPECIFICATION FairSpec
CONSTANTS
  MaxSocks = 2
  MaxFrames = 3
  MaxInPair = 4
  QueueMax = 2
  MaxPingFailures = 2
  Callers = {"user", "fatal", "login"}
INVARIANTS TypeOK FramesInOrder NoLeakedConnection ConnectedIsSupervised
PROPERTIES SessionEnds KeepaliveCloses DisconnectReturns
CHECK_DEADLOCK FALSE
