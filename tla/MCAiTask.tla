------------------------------ MODULE MCAiTask ------------------------------
(* AiTask for TLC: requests of a kind are interchangeable.                 *)
EXTENDS AiTask, TLC

RequestSymmetry == Permutations(Canceller) \union Permutations(Viewer)
=============================================================================
