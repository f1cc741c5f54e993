-------------------------- MODULE MCExtHostStartup --------------------------
(* The start of an extension host process for TLC. *)
EXTENDS ExtHostStartup
=============================================================================
