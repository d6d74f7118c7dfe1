SPECIFICATION FairSpec
CONSTANTS
  NoTarget = NoTarget
  Piece = {t1}
  Client = {c1}
  Restore = {r1}
  MaxRows = 9
  SlowPool = TRUE
  Faults = 2
INVARIANTS TypeOK NewestIsLive
PROPERTIES ChangeStored
CHECK_DEADLOCK FALSE
