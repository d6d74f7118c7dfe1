-------------------------- MODULE MCTextAlgorithms --------------------------
(* TextAlgorithms for TLC: texts at, before and around the end of a sentence. *)
EXTENDS TextAlgorithms

MCLeaf == {<<"a", ".">>, <<" ", "b">>, <<"b", ".", "a">>}
MCMarked == {<<" ", "b">>}
=============================================================================
