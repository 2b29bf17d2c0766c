SPECIFICATION Spec
CONSTANTS
  MaxMsgs = 3
  MaxCancels = 1
  RekeyInterval = 2
INVARIANTS HandshakeAgrees NonceNeverReused NextFrameOpens
PROPERTIES ImplementsChannel
CHECK_DEADLOCK FALSE
