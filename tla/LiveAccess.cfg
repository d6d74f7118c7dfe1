SPECIFICATION MCFairSpec
CONSTANTS
  NoUser = NoUser
  User = {u1, u2}
  Request = {q1, q2, q3}
  Session = {s1, s2}
  MaxLosses = 1
  Faults = TRUE
  Earlier = q1
  Collaborator = u1
INVARIANTS TypeOK CutOff
PROPERTIES StaleSessionEnds
CHECK_DEADLOCK FALSE
