SPECIFICATION Spec
CONSTANTS
  c1 = c1
  c2 = c2
  u1 = u1
  u2 = u2
  Client = {c1, c2}
  User = {u1, u2}
  UserOf <- MCUserOf
  Handler = {h1}
  MaxErrors = 1
  MaxRetries = 1
INVARIANTS TypeOK
PROPERTIES AvatarsSettle HashFollowsPages
CHECK_DEADLOCK FALSE
