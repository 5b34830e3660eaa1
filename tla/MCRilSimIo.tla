----------------------------- MODULE MCRilSimIo -----------------------------
(* SIM file access on small instances.                                     *)
EXTENDS RilSimIo
=============================================================================
