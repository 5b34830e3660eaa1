------------------------------ MODULE MCRilGprs ------------------------------
(* Data connections on small instances.                                    *)
EXTENDS RilGprs
=============================================================================
