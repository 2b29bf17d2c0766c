CONSTANTS
  MaxKeys = 3
  MaxAttempts = 3
  MaxIqs = 2
  MaxRefs = 3
  MaxCrashes = 2
SPECIFICATION Spec
INVARIANTS PairedIsGenuine RotationStops
PROPERTIES LinkedKeysKept
CHECK_DEADLOCK FALSE
