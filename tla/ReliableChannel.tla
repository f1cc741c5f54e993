--------------------------- MODULE ReliableChannel ---------------------------
(***************************************************************************)
(* What PersistentProtocol promises the two programs that use it: a pair   *)
(* of loss-free, duplicate-free, in-order message streams, one in each     *)
(* direction, whatever happens to the sockets underneath.                  *)
(***************************************************************************)
EXTENDS Naturals, Sequences

CONSTANTS Data,     \* the payloads of Regular messages
          MaxMsgs   \* bound: Regular messages each side may send

VARIABLES sent,      \* sent[p]: the payloads p has passed to send()
          delivered  \* delivered[p]: the payloads onMessage fired at p

Sides == {"client", "server"}
Peer(p) == IF p = "client" THEN "server" ELSE "client"

chVars == <<sent, delivered>>

ChInit ==
    /\ sent = [p \in Sides |-> <<>>]
    /\ delivered = [p \in Sides |-> <<>>]

ChSend(p, d) ==
    /\ Len(sent[p]) < MaxMsgs
    /\ sent' = [sent EXCEPT ![p] = Append(@, d)]
    /\ UNCHANGED delivered

ChDeliver(p) ==
    /\ Len(delivered[p]) < Len(sent[Peer(p)])
    /\ delivered' = [delivered EXCEPT
                        ![p] = Append(@, sent[Peer(p)][Len(@) + 1])]
    /\ UNCHANGED sent

ChNext == \E p \in Sides : ChDeliver(p) \/ \E d \in Data : ChSend(p, d)

ChSafety == ChInit /\ [][ChNext]_chVars
ChSpec == ChSafety /\ \A p \in Sides : WF_chVars(ChDeliver(p))
=============================================================================
