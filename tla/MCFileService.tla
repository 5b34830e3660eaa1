---------------------------- MODULE MCFileService ----------------------------
(* The file service over frames on a small instance: a frame holds four    *)
(* units, and a header is as long as three.                                *)
EXTENDS FileService
=============================================================================
