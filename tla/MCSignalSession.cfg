SPECIFICATION Spec
CONSTANTS
  MsgsA = 2
  MsgsB = 1
  OpksA = 1
  OpksB = 1
  Msgs <- MCMsgs
  Opks <- MCOpks
  MaxFaults = 2
  MaxOverlapFaults = 1
  MaxSkip = 10
  MaxSkippedTotal = 10
INVARIANTS NoKeyReuse SharedSessionDecrypts PreambleKeptInProcess OpkSessionsReplayProof ResendsBounded
CONSTRAINT Explored
CHECK_DEADLOCK FALSE
