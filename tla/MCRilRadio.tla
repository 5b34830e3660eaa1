------------------------------ MODULE MCRilRadio ------------------------------
(* Power, SIM and radio state, checked with a handful of tokens.           *)
EXTENDS RilRadio, TLC

Symmetry == Permutations(Token)
=============================================================================
