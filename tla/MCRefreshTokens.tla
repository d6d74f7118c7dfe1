--------------------------- MODULE MCRefreshTokens ---------------------------
(* RefreshTokens for TLC: which call is made in which browser.             *)
EXTENDS RefreshTokens, TLC

CONSTANTS b1, b2, c1, c2, c3

\* Two calls at once in one browser and one in the other.
TwoAndOne == c1 :> b1 @@ c2 :> b1 @@ c3 :> b2
=============================================================================
