---------------------------- MODULE MCGprsTunnel ----------------------------
(* The tunnel threads on a small instance.                                 *)
EXTENDS GprsTunnel
=============================================================================
