SPECIFICATION FairSpec
CONSTANTS
  c1 = c1
  c2 = c2
  Conns <- MCConns
  Count = 2
  MinCount = 2
  MaxId = 4
  MaxGen = 6
  IdSpace = 8
INVARIANTS TypeOK PublishedKeysUsable SingleUse
PROPERTY RefillEnds
CHECK_DEADLOCK FALSE
