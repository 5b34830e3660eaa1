---------------------------- MODULE MCSrsServer ----------------------------
(* Instances of SrsServer for TLC.                                         *)
EXTENDS SrsServer
=============================================================================
