----------------------------- MODULE MCPresence -----------------------------
(* Presence for TLC: two pages, of one user each.                           *)
EXTENDS Presence, TLC

CONSTANTS c1, c2, u1, u2

MCUserOf == c1 :> u1 @@ c2 :> u2
=============================================================================
