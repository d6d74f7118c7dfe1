SPECIFICATION Spec
CONSTANTS
  b1 = b1
  b2 = b2
  c1 = c1
  c2 = c2
  c3 = c3
  Browser = {b1, b2}
  Call = {c1, c2, c3}
  BrowserOf <- TwoAndOne
  MaxTokens = 4
  Mishaps = 1
INVARIANTS TypeOK OneLiveToken SessionKept RevokedStaysClosed NoFalseReplay
CHECK_DEADLOCK FALSE
