CONSTANTS
  Devices = {d1}
  MaxAtOnce = 2
  MaxSends = 3
  MaxDeliveries = 4
  MaxJump = 1
SPECIFICATION Spec
INVARIANTS GroupKeysFresh ReachesMembers ReplayNeedsRewind
CHECK_DEADLOCK FALSE
