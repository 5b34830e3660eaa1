------------------------------ MODULE MCRilSms ------------------------------
(* Outgoing messages on small instances.                                   *)
EXTENDS RilSms
=============================================================================
