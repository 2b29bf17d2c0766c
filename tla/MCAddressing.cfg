CONSTANTS
  MaxSessions = 3
  MaxMessages = 4
  MaxFetches = 2
SPECIFICATION Spec
INVARIANTS SessionsMoveWhole
PROPERTIES KnownPeerDecrypts
CHECK_DEADLOCK FALSE
