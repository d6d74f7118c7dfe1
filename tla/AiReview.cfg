SPECIFICATION Spec
CONSTANTS
  a = a
  b = b
  p = p
  None = None
  Run = {r1, r2}
  Click = {k1}
  Typed = z
  Sentence <- MCSentence
  FirstDoc <- MCFirstDoc
  Proposed <- MCProposed
  MaxEdits = 1
  PieceLength = 2
  Pieces = 0
  Cancel = {}
  Kinds = {"read", "write"}
  Ranges <- MCRanges
SYMMETRY MCSymmetry
INVARIANTS TypeOK FreshWhenAccepted PanelKeepsBoth
CHECK_DEADLOCK FALSE
