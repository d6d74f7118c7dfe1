SPECIFICATION Spec
CONSTANTS
  Person = {alice, bob}
  Slot = {s1, s2}
  plain = plain
  padded = padded
  Untitled = u
  Blank = blank
  Title <- MCTitle
  Trim <- MCTrim
  None = None
  MaxSends = 6
  MaxFaults = 1
INVARIANTS TypeOK OwnerKept TitleSaved PanelsShowRows
SYMMETRY WorkspaceSymmetry
CHECK_DEADLOCK FALSE
