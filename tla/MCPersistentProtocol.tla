------------------------ MODULE MCPersistentProtocol ------------------------
(* Small instances of PersistentProtocol.                                    *)
EXTENDS PersistentProtocol, TLC

\* Payloads are opaque, and sockets other than the first are interchangeable.
Symmetry == Permutations(Data) \cup Permutations(Sockets \ {FirstSocket})
=============================================================================
