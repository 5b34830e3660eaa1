---------------------------- MODULE MCRilNetwork ----------------------------
(* Network selection and search on a small instance.                       *)
EXTENDS RilNetwork
=============================================================================
