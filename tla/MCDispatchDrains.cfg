SPECIFICATION FairSpec
CONSTANTS
  MsgsA = 1
  MsgsB = 0
  OpksA = 0
  OpksB = 1
  Msgs <- MCMsgs
  Opks <- MCOpks
  MaxFaults = 2
  MaxOverlapFaults = 2
  MaxSkip = 10
  MaxSkippedTotal = 10
PROPERTY DispatchKeepsDraining
CHECK_DEADLOCK FALSE
