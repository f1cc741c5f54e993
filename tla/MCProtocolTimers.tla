-------------------------- MODULE MCProtocolTimers --------------------------
(* Instances of ProtocolTimers for TLC; the .cfg files give the durations.   *)
EXTENDS ProtocolTimers
=============================================================================
