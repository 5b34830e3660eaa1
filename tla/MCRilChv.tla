------------------------------- MODULE MCRilChv -------------------------------
(* PIN and PUK requests over the radio state, checked with a few tokens.   *)
EXTENDS RilChv, TLC

Symmetry == Permutations(Token)
=============================================================================
