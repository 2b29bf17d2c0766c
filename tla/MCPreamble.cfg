SPECIFICATION Spec
CONSTANTS
  MsgsA = 2
  MsgsB = 0
  OpksA = 0
  OpksB = 1
  Msgs <- MCMsgs
  Opks <- MCOpks
  MaxFaults = 1
  MaxOverlapFaults = 1
  MaxSkip = 10
  MaxSkippedTotal = 10
INVARIANT PreambleUntilHeard
CHECK_DEADLOCK FALSE
