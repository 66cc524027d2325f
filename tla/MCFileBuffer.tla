---------------------------- MODULE MCFileBuffer ----------------------------
(***************************************************************************)
(* A file of seven bytes seen through a window of three.                   *)
(***************************************************************************)
EXTENDS FileBuffer
=============================================================================
