SPECIFICATION Spec
CONSTANTS
  NoTask = NoTask
  Task = {t1}
  Canceller = {c1, c2}
  Viewer = {v1}
  MaxChunks = 1
  MaxCrashes = 1
  MaxFaults = 1
INVARIANTS TypeOK CancelledHolds OutcomeKept
PROPERTIES EveryTaskSettles
CHECK_DEADLOCK FALSE
