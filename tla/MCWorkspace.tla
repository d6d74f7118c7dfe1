----------------------------- MODULE MCWorkspace -----------------------------
(* Workspace for TLC: people, and the slots of requests, are               *)
(* interchangeable, and no property here is one of liveness.  A title is   *)
(* typed plain, with blanks around it, or is nothing but blanks.           *)
EXTENDS Workspace, TLC

CONSTANTS plain, padded

MCTrim == [t \in Titles |-> IF t = padded THEN plain ELSE t]
MCTitle == {plain, padded, Blank}

WorkspaceSymmetry == Permutations(Person) \union Permutations(Slot)
=============================================================================
