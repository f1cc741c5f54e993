---------------------------- MODULE MCWorkingCopy ----------------------------
(* StoredFileWorkingCopy for TLC. *)
EXTENDS WorkingCopy
=============================================================================
