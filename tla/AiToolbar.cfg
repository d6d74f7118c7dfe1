SPECIFICATION Spec
CONSTANTS
  a = a
  b = b
  p = p
  None = None
  Run = {r1, r2}
  Click = {}
  Typed = z
  Sentence <- MCSentence
  FirstDoc <- MCFirstDoc
  Proposed <- MCProposed
  MaxEdits = 0
  PieceLength = 2
  Pieces = 1
  Cancel = {c1, c2}
  Kinds = {"write"}
  Ranges <- MCOneRange
PROPERTIES ToolbarSettles
CHECK_DEADLOCK FALSE
