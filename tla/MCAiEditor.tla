----------------------------- MODULE MCAiEditor -----------------------------
(* AiEditor for TLC: a document of two sentences, of which the model keeps  *)
(* the first and rewrites the second.                                      *)
EXTENDS AiEditor

CONSTANTS a, b, p

MCFirstDoc == <<a, b>>
MCProposed == <<a, p>>
MCSentence == {a, b, p, Typed}
MCRanges == {<<1, 1>>, <<1, 2>>}
MCOneRange == {<<1, 1>>}

(* Used where no liveness is checked.                                      *)
MCSymmetry == Permutations(Run) \union Permutations(Click)
=============================================================================
