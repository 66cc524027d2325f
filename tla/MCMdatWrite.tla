---------------------------- MODULE MCMdatWrite ----------------------------
(***************************************************************************)
(* A file of fourteen bytes read through a window of three, whose mdat has *)
(* up to eight; what four bytes count lies between the lengths written.    *)
(***************************************************************************)
EXTENDS MdatWrite
=============================================================================
