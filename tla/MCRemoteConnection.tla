------------------------- MODULE MCRemoteConnection -------------------------
(* Values for the constants of RemoteConnection.                             *)
EXTENDS RemoteConnection

ExtHostOnly == [c \in {"e"} |-> "s1"]
Both == [c \in {"m", "e"} |-> IF c = "m" THEN "s1" ELSE "s2"]

=============================================================================
