SPECIFICATION FairSpec
CONSTANTS
  NoTask = NoTask
  Task = {t1}
  Canceller = {c1, c2}
  Viewer = {v1}
  MaxChunks = 1
  BufferLimit = 4
  MaxCrashes = 0
  RedisFaults = FALSE
PROPERTIES ViewerReleased CancellingAnswered
CHECK_DEADLOCK FALSE
