SPECIFICATION PairSpec
CONSTANTS
  MaxSkip = 2
  MaxSkippedTotal = 2
  MaxMsgs = 5
INVARIANTS TypeOK NoReplay AnyOrder LateKeysKept KeysUsedOnce
CHECK_DEADLOCK FALSE
