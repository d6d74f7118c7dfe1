SPECIFICATION Spec
CONSTANTS
  NoTarget = NoTarget
  Piece = {t1, t2}
  Client = {c1}
  Restore = {r1}
  MaxRows = 3
  SlowPool = FALSE
  Faults = 0
INVARIANTS ShownOnce
CHECK_DEADLOCK FALSE
