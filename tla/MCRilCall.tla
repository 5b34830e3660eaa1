------------------------------ MODULE MCRilCall ------------------------------
(* Small instances of RilCall: MAX_CALLS slots, as many calls at the modem *)
(* and tokens of the framework.                                            *)
EXTENDS RilCall, TLC

Symmetry == Permutations(Token) \cup Permutations(CallId)
=============================================================================
