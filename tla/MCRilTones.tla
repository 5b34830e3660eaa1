------------------------------ MODULE MCRilTones ------------------------------
(* DTMF tones on two calls.                                                *)
EXTENDS RilTones
=============================================================================
