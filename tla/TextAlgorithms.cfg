SPECIFICATION Spec
CONSTANTS
  Letter = {"a", "b"}
  Leaf <- MCLeaf
  Marked <- MCMarked
  MaxText = 6
  CharLimit = 4
  LineLimit = 2
INVARIANTS AcceptKeepsPlainText SentencesKeepHtml ReplacementKeepsText PreviewBegins
CHECK_DEADLOCK FALSE
