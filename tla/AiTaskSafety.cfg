SPECIFICATION Spec
CONSTANTS
  NoTask = NoTask
  Task = {t1}
  Canceller = {c1, c2}
  Viewer = {v1}
  MaxChunks = 1
  BufferLimit = 4
  MaxCrashes = 1
  RedisFaults = TRUE
SYMMETRY RequestSymmetry
INVARIANTS TypeOK GenerationStopsAtTerminal CancelledAnswerHolds ViewersAgree
PROPERTIES StatusNeverResurrected NoProposalAfterCancelled ProposalNeverLost ImplementsPromise
CHECK_DEADLOCK FALSE
