------------------------------- MODULE MCFile -------------------------------
(***************************************************************************)
(* Model checking of SharedFile, with the files of MCFileWrite.            *)
(***************************************************************************)
EXTENDS SharedFile, MCFileWrite
=============================================================================
