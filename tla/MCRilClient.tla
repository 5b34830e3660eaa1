----------------------------- MODULE MCRilClient -----------------------------
(* The client of the modem on a small instance.                            *)
EXTENDS RilClient
=============================================================================
