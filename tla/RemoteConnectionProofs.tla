----------------------- MODULE RemoteConnectionProofs -----------------------
(***************************************************************************)
(* Proofs about RemoteConnection, for any set of connections and sockets   *)
(* and any number of faults: the grace timers (GraceInv), and what the two *)
(* ends of a connection know of each other (RemoteInv: the loops and their *)
(* events, the sockets, and how far every hand-shake is).                  *)
(***************************************************************************)
EXTENDS RemoteConnection, SequenceTheorems, TLAPS

\* The part of the state the grace timers depend on has its shape.
Shape ==
    /\ runner1 \in [Conns -> BOOLEAN] /\ runner2 \in [Conns -> BOOLEAN]
    /\ registered \in [Conns -> BOOLEAN] /\ alive \in [Conns -> BOOLEAN]
    /\ ssock = [c \in Conns |-> ssock[c]]

\* GraceOnlyWhenDisconnected is inductive once the shape is known: a closed
\* socket becomes open only when its name is recycled, which Free forbids for
\* the socket of a registered connection.
GraceInv == Shape /\ GraceOnlyWhenDisconnected

\* What the actions that leave the server's connections alone do to the
\* invariant: it suffices that no socket in use is opened.
LEMMA KeepsGrace ==
    ASSUME GraceInv, UNCHANGED <<registered, alive, ssock, runner1, runner2>>,
           \A c \in Conns : registered[c] /\ ssock[c] \in closed => ssock[c] \in closed'
    PROVE  GraceInv'
BY DEF GraceInv, Shape, GraceOnlyWhenDisconnected

\* The permanent failure of any set of connections only closes sockets.
LEMMA FailureCloses ==
    ASSUME NEW F, GotoPermanentFailure(F)
    PROVE  closed \subseteq closed'
BY DEF GotoPermanentFailure

\* The failure of one connection, and of what it takes down, only closes sockets.
LEMMA PermanentFailureCloses ==
    ASSUME NEW c, NEW why, OnReconnectionPermanentFailure(c, why)
    PROVE  closed \subseteq closed'
BY FailureCloses DEF OnReconnectionPermanentFailure, FailsWith

\* What a failure takes down: a fatal one the management connection and all the
\* others but at most one, any other failure the connection itself.
LEMMA TakenDownSets ==
    ASSUME NEW c \in Conns, NEW F \in TakenDown(c)
    PROVE  /\ F \in SUBSET Conns
           /\ c \notin Management => F = {c}
           /\ c \in Management => F \in ReachedByFailure
BY DEF TakenDown, ReachedByFailure, Instances

LEMMA ReachedSets ==
    ASSUME NEW F \in ReachedByFailure
    PROVE  /\ F \in SUBSET Conns /\ Instances \cap Management \subseteq F
           /\ \A d, e \in Instances \ F : d = e
BY DEF ReachedByFailure, Instances

\* Every step of the client leaves the server's part alone and opens at most a
\* socket that nobody uses.
LEMMA ClientStep ==
    ASSUME GraceInv, ClientNext
    PROVE  GraceInv'
<1>1. CASE InitialConnectionFails
  BY <1>1, KeepsGrace, FailureCloses DEF InitialConnectionFails, server, timers
<1>2. ASSUME NEW c \in Conns, BeginReconnecting(c) \/ AttemptFails(c) \/ ResolverFails(c)
                              \/ ReceiveControl(c)
      PROVE GraceInv'
  <2>1. UNCHANGED <<registered, alive, ssock, runner1, runner2>>
    BY <1>2 DEF BeginReconnecting, AttemptFails, ResolverFails, ReceiveControl, server, timers
  <2>2. closed \subseteq closed'
    BY <1>2, PermanentFailureCloses DEF BeginReconnecting, AttemptFails, ResolverFails,
        ReceiveControl, HandleControl
  <2> QED BY <2>1, <2>2, KeepsGrace
<1>3. ASSUME NEW c \in Conns, WaitEnds(c) \/ LoopGraceEnds(c) \/ Dispose(c) \/ UpdateGraceTime(c)
      PROVE GraceInv'
  BY <1>3, KeepsGrace DEF WaitEnds, LoopGraceEnds, Dispose, UpdateGraceTime, server, timers, network
<1>4. ASSUME NEW c \in Conns, NEW s \in Sockets, SocketReady(c, s)
      PROVE GraceInv'
  <2>1. \A d \in Conns : registered[d] => ssock[d] # s
    BY <1>4 DEF SocketReady, Free
  <2>2. closed' = (closed \cup {csock[c]}) \ {s} /\ UNCHANGED server
    BY <1>4 DEF SocketReady
  <2> QED BY <2>1, <2>2, KeepsGrace DEF server, timers
<1> QED BY <1>1, <1>2, <1>3, <1>4 DEF ClientNext

\* A reconnection is accepted with both timers cancelled; the hand-shake of
\* one connection starts the short timer of another only beside the long one.
LEMMA ServerStep ==
    ASSUME GraceInv, ServerNext
    PROVE  GraceInv'
<1> USE DEF GraceInv, Shape, GraceOnlyWhenDisconnected
<1>1. ASSUME NEW s \in Sockets, ServerReceivesAuth(s) \/ ServerRefuses(s) \/ ServerHandlesExtHost(s)
      PROVE GraceInv'
  <2>1. UNCHANGED <<registered, alive, ssock, runner1, runner2>> /\ closed \subseteq closed'
    BY <1>1 DEF ServerReceivesAuth, ServerRefuses, ServerHandlesExtHost, Reject, server, timers
  <2> QED BY <2>1, KeepsGrace
<1>2. ASSUME NEW s \in Sockets, ServerReceivesConnectionType(s)
      PROVE GraceInv'
  <2> DEFINE c == token[s]
  <2>1. closed \subseteq closed' /\ UNCHANGED <<registered, alive>>
    BY <1>2 DEF ServerReceivesConnectionType, Reject
  <2>2. CASE runner1' = runner1 /\ ssock' = ssock
             /\ runner2' = [d \in Conns |-> IF d \in Management THEN Shortened(d) ELSE runner2[d]]
    BY <2>1, <2>2 DEF Shortened
  <2>3. CASE /\ runner1' = [runner1 EXCEPT ![c] = FALSE]
             /\ ssock' = [ssock EXCEPT ![c] = s]
             /\ runner2' = [d \in Conns |-> IF d = c THEN FALSE
                            ELSE IF d \in Management THEN Shortened(d) ELSE runner2[d]]
    <3>1. Shape'
      BY <2>1, <2>3 DEF Shortened
    <3>2. ASSUME NEW d \in Conns, runner1'[d] \/ runner2'[d]
          PROVE  registered'[d] /\ alive'[d] /\ ssock'[d] \in closed'
      <4>1. d # c
        BY <2>3, <3>2
      <4>2. ssock'[d] = ssock[d]
        BY <2>3, <4>1
      <4>3. runner1[d] \/ runner2[d]
        BY <2>3, <3>2, <4>1 DEF Shortened
      <4> QED BY <2>1, <4>2, <4>3
    <3> QED BY <3>1, <3>2
  <2> QED BY <1>2, <2>2, <2>3 DEF ServerReceivesConnectionType, Runner2AfterAccept
<1>3. ASSUME NEW c \in Conns, ExtHostReceives(c)
      PROVE GraceInv'
  <2>1. CASE Accept(c, Head(ipc[c]))
    BY <1>3, <2>1 DEF ExtHostReceives, Accept, Replaced, Runner2AfterAccept
  <2>2. CASE UNCHANGED <<timers, ssock, closed>>
    BY <1>3, <2>2 DEF ExtHostReceives, timers
  <2>3. CASE runner2' = [runner2 EXCEPT ![c] = Shortened(c)] /\ UNCHANGED <<runner1, ssock, closed>>
    BY <1>3, <2>3 DEF ExtHostReceives, Shortened
  <2> QED BY <1>3, <2>1, <2>2, <2>3 DEF ExtHostReceives
<1>4. ASSUME NEW c \in Conns, ServerSeesClose(c)
      PROVE GraceInv'
  BY <1>4 DEF ServerSeesClose, HearsClose, network
<1>5. ASSUME NEW c \in Conns, GraceExpires(c) \/ ServerReceivesDisconnect(c) \/ ExtHostCrashes(c)
      PROVE GraceInv'
  <2>1. CleanResources(c) /\ UNCHANGED ssock
    BY <1>5 DEF GraceExpires, ServerReceivesDisconnect, ExtHostCrashes
  <2> QED BY <2>1 DEF CleanResources
<1>6. ASSUME NEW c \in Conns, ServerSeesExit(c)
      PROVE GraceInv'
  BY <1>6 DEF ServerSeesExit, timers, network
<1>7. ASSUME NEW c \in Conns, NEW s \in Sockets, SocketDrained(c, s)
      PROVE GraceInv'
  BY <1>7, KeepsGrace DEF SocketDrained, timers, network
<1>8. CASE ServerRestarts
  BY <1>8 DEF ServerRestarts
<1> QED BY <1>1, <1>2, <1>3, <1>4, <1>5, <1>6, <1>7, <1>8 DEF ServerNext

\* For any number of connections, sockets and faults, a grace timer never
\* runs against a connection that has an open socket.
THEOREM GraceSafe == Spec => []GraceOnlyWhenDisconnected
<1>1. Init => GraceInv
  <2> SUFFICES ASSUME Init PROVE GraceInv
    OBVIOUS
  <2>1. ssock = [c \in Conns |-> ssock[c]]
    BY RemoteAssumption DEF Init
  <2> QED BY <2>1 DEF Init, GraceInv, Shape, GraceOnlyWhenDisconnected
<1>2. GraceInv /\ [Next]_vars => GraceInv'
  <2> SUFFICES ASSUME GraceInv, [Next]_vars PROVE GraceInv'
    OBVIOUS
  <2>1. CASE ClientNext
    BY <2>1, ClientStep
  <2>2. CASE ServerNext
    BY <2>2, ServerStep
  <2>3. CASE NetworkNext
    <3>1. UNCHANGED server /\ closed \subseteq closed'
      BY <2>3 DEF NetworkNext, Break, LoseTail, DisconnectLost
    <3> QED BY <3>1, KeepsGrace DEF server, timers
  <2>4. CASE UNCHANGED vars
    BY <2>4, KeepsGrace DEF vars, server, timers, network
  <2> QED BY <2>1, <2>2, <2>3, <2>4 DEF Next
<1>3. GraceInv => GraceOnlyWhenDisconnected
  BY DEF GraceInv
<1> QED BY <1>1, <1>2, <1>3, PTL DEF Spec

-----------------------------------------------------------------------------
(* Type correctness.                                                         *)

Phases == {"idle", "waiting", "resolving", "auth", "confirm"}
Events == {"ConnectionGain", "ReconnectionWait", "ReconnectionRunning",
           "ReconnectionPermanentFailure"}
Causes == {"none", "fatal", "graceless", "late", "resolver", "refused", "rejected"}

\* The types of the loops, of the client's protocols, of the server and of the network.
LoopTypes ==
    /\ phase \in [Conns -> Phases] /\ late \in [Conns -> BOOLEAN]
    /\ graceless \in [Conns -> BOOLEAN] /\ failed \in BOOLEAN
    /\ disposed \in [Conns -> BOOLEAN] /\ event \in [Conns -> Events]
    /\ cause \in [Conns -> Causes]
ClientTypes ==
    /\ csock \in [Conns -> Sockets] /\ attached \in [Conns -> BOOLEAN]
    /\ buffered \in [Conns -> Seq(Control)]
ServerTypes ==
    /\ registered \in [Conns -> BOOLEAN] /\ alive \in [Conns -> BOOLEAN]
    /\ ssock \in [Conns -> Sockets]
    /\ runner1 \in [Conns -> BOOLEAN] /\ runner2 \in [Conns -> BOOLEAN]
    /\ draining \in [Conns -> SUBSET Sockets]
    /\ ipc \in [Conns -> Seq(Sockets \cup {Reduce})]
NetworkTypes ==
    /\ hs \in [Sockets -> {"none", "WaitingForAuth", "WaitingForConnectionType", "Port"}]
    /\ token \in [Sockets -> Conns]
    /\ toServer \in [Sockets -> Seq(Control)] /\ toClient \in [Sockets -> Seq(Control)]
    /\ closed \in SUBSET Sockets

\* TypeOK is the conjunction of the four.
LEMMA TypeParts ==
    TypeOK <=> LoopTypes /\ ClientTypes /\ ServerTypes /\ NetworkTypes /\ faults \in 0..MaxFaults
BY DEF TypeOK, LoopTypes, ClientTypes, ServerTypes, NetworkTypes, Phases, Events, Causes

\* The same of the next state.
LEMMA TypesAfter ==
    ASSUME LoopTypes', ClientTypes', ServerTypes', NetworkTypes', faults' \in 0..MaxFaults
    PROVE  TypeOK'
BY DEF TypeOK, LoopTypes, ClientTypes, ServerTypes, NetworkTypes, Phases, Events, Causes

\* A part that an action leaves alone keeps its types.
LEMMA SameTypes ==
    /\ LoopTypes /\ UNCHANGED loop => LoopTypes'
    /\ ClientTypes /\ UNCHANGED client => ClientTypes'
    /\ ServerTypes /\ UNCHANGED server => ServerTypes'
    /\ NetworkTypes /\ UNCHANGED network => NetworkTypes'
<1>1. LoopTypes /\ UNCHANGED loop => LoopTypes'
  BY DEF LoopTypes, loop
<1>2. ClientTypes /\ UNCHANGED client => ClientTypes'
  BY DEF ClientTypes, client
<1>3. ServerTypes /\ UNCHANGED server => ServerTypes'
  BY DEF ServerTypes, server, timers, handoff
<1>4. NetworkTypes /\ UNCHANGED network => NetworkTypes'
  BY DEF NetworkTypes, network
<1> QED BY <1>1, <1>2, <1>3, <1>4

\* A fault is counted.
LEMMA FaultCounted ==
    ASSUME faults \in 0..MaxFaults, Fault \/ UNCHANGED faults
    PROVE  faults' \in 0..MaxFaults
BY RemoteAssumption DEF Fault

\* Writing a control message on a socket.
LEMMA WrittenType ==
    ASSUME NEW stream \in [Sockets -> Seq(Control)], NEW s \in Sockets, NEW m \in Control
    PROVE  Written(stream, s, m) \in [Sockets -> Seq(Control)]
<1>1. Append(stream[s], m) \in Seq(Control)
  BY AppendProperties
<1> QED BY <1>1 DEF Written

\* The permanent failure of a set of connections.
LEMMA FailureTypes ==
    ASSUME LoopTypes, ClientTypes, NetworkTypes, NEW F \in SUBSET Conns, GotoPermanentFailure(F)
    PROVE  /\ event' \in [Conns -> Events] /\ disposed' \in [Conns -> BOOLEAN]
           /\ attached' \in [Conns -> BOOLEAN] /\ closed' \in SUBSET Sockets
           /\ toServer' \in [Sockets -> Seq(Control)]
<1>1. event' \in [Conns -> Events]
  <2>1. "ReconnectionPermanentFailure" \in Events
    BY DEF Events
  <2> QED BY <2>1 DEF GotoPermanentFailure, LoopTypes
<1>2. disposed' \in [Conns -> BOOLEAN] /\ attached' \in [Conns -> BOOLEAN]
  BY DEF GotoPermanentFailure, LoopTypes, ClientTypes
<1>3. closed' \in SUBSET Sockets
  BY DEF GotoPermanentFailure, ClientTypes, NetworkTypes
<1>4. toServer' \in [Sockets -> Seq(Control)]
  <2>1. \A s \in Sockets : Append(toServer[s], "disconnect") \in Seq(Control)
    BY AppendProperties DEF NetworkTypes, Control
  <2> QED BY <2>1 DEF GotoPermanentFailure, NetworkTypes
<1> QED BY <1>1, <1>2, <1>3, <1>4

\* The permanent failure of one connection and of those it takes down.
LEMMA PermanentFailureTypes ==
    ASSUME LoopTypes, ClientTypes, NetworkTypes, NEW c \in Conns, NEW why \in Causes,
           OnReconnectionPermanentFailure(c, why)
    PROVE  /\ phase' \in [Conns -> Phases] /\ failed' \in BOOLEAN /\ cause' \in [Conns -> Causes]
           /\ event' \in [Conns -> Events] /\ disposed' \in [Conns -> BOOLEAN]
           /\ attached' \in [Conns -> BOOLEAN] /\ closed' \in SUBSET Sockets
           /\ toServer' \in [Sockets -> Seq(Control)]
<1>1. PICK F \in TakenDown(c) : FailsWith(c, why, F)
  BY DEF OnReconnectionPermanentFailure
<1>2. /\ event' \in [Conns -> Events] /\ disposed' \in [Conns -> BOOLEAN]
      /\ attached' \in [Conns -> BOOLEAN] /\ closed' \in SUBSET Sockets
      /\ toServer' \in [Sockets -> Seq(Control)]
  BY <1>1, TakenDownSets, FailureTypes DEF FailsWith
<1>3. phase' \in [Conns -> Phases]
  <2>1. "idle" \in Phases
    BY DEF Phases
  <2> QED BY <1>1, <2>1 DEF FailsWith, LoopTypes
<1>4. failed' \in BOOLEAN
  BY <1>1 DEF FailsWith, LoopTypes
<1>5. cause' \in [Conns -> Causes]
  <2>1. "fatal" \in Causes
    BY DEF Causes
  <2> QED BY <1>1, <2>1 DEF FailsWith, LoopTypes
<1> QED BY <1>2, <1>3, <1>4, <1>5

\* A control message is handled.
LEMMA HandleTypes ==
    ASSUME LoopTypes, ClientTypes, NetworkTypes, NEW c \in Conns, NEW m, HandleControl(c, m)
    PROVE  /\ phase' \in [Conns -> Phases] /\ failed' \in BOOLEAN /\ cause' \in [Conns -> Causes]
           /\ event' \in [Conns -> Events] /\ disposed' \in [Conns -> BOOLEAN]
           /\ attached' \in [Conns -> BOOLEAN] /\ closed' \in SUBSET Sockets
           /\ toServer' \in [Sockets -> Seq(Control)]
<1>1. CASE /\ phase' = [phase EXCEPT ![c] = "confirm"]
           /\ toServer' = Written(toServer, csock[c], "connectionType")
           /\ UNCHANGED <<event, failed, disposed, cause, attached, closed>>
  <2>1. toServer' \in [Sockets -> Seq(Control)]
    <3>1. toServer \in [Sockets -> Seq(Control)] /\ csock[c] \in Sockets /\ "connectionType" \in Control
      BY DEF NetworkTypes, ClientTypes, Control
    <3> QED BY <1>1, <3>1, WrittenType
  <2>2. phase' \in [Conns -> Phases]
    BY <1>1 DEF LoopTypes, Phases
  <2> QED BY <1>1, <2>1, <2>2 DEF LoopTypes, ClientTypes, NetworkTypes
<1>2. CASE /\ phase' = [phase EXCEPT ![c] = "idle"]
           /\ event' = IF disposed[c] THEN event ELSE [event EXCEPT ![c] = "ConnectionGain"]
           /\ UNCHANGED <<toServer, failed, disposed, cause, attached, closed>>
  <2>1. phase' \in [Conns -> Phases]
    BY <1>2 DEF LoopTypes, Phases
  <2>2. event' \in [Conns -> Events]
    BY <1>2 DEF LoopTypes, Events
  <2> QED BY <1>2, <2>1, <2>2 DEF LoopTypes, ClientTypes, NetworkTypes
<1>3. CASE OnReconnectionPermanentFailure(c, IF m = "refused" THEN "refused" ELSE "rejected")
  <2>1. (IF m = "refused" THEN "refused" ELSE "rejected") \in Causes
    BY DEF Causes
  <2> QED BY <1>3, <2>1, PermanentFailureTypes
<1> QED BY <1>1, <1>2, <1>3 DEF HandleControl

\* Every step of the client keeps the types.
LEMMA ClientTypesStep ==
    ASSUME TypeOK, ClientNext
    PROVE  TypeOK'
<1>0. LoopTypes /\ ClientTypes /\ ServerTypes /\ NetworkTypes /\ faults \in 0..MaxFaults
  BY TypeParts
<1>1. CASE InitialConnectionFails
  <2>1. PICK F \in ReachedByFailure :
            /\ GotoPermanentFailure(F)
            /\ cause' = [c \in Conns |-> IF c \in F THEN "fatal" ELSE cause[c]]
    BY <1>1 DEF InitialConnectionFails
  <2>2. /\ event' \in [Conns -> Events] /\ disposed' \in [Conns -> BOOLEAN]
        /\ attached' \in [Conns -> BOOLEAN] /\ closed' \in SUBSET Sockets
        /\ toServer' \in [Sockets -> Seq(Control)]
    BY <1>0, <2>1, ReachedSets, FailureTypes
  <2>3. cause' \in [Conns -> Causes] /\ failed' \in BOOLEAN
    <3>1. "fatal" \in Causes
      BY DEF Causes
    <3> QED BY <1>0, <1>1, <2>1, <3>1 DEF InitialConnectionFails, LoopTypes
  <2>4. LoopTypes' /\ ClientTypes' /\ NetworkTypes'
    BY <1>0, <1>1, <2>2, <2>3 DEF InitialConnectionFails, LoopTypes, ClientTypes, NetworkTypes
  <2>5. ServerTypes' /\ faults' \in 0..MaxFaults
    BY <1>0, <1>1, SameTypes, FaultCounted DEF InitialConnectionFails
  <2> QED BY <2>4, <2>5, TypesAfter
<1>2. ASSUME NEW c \in Conns, BeginReconnecting(c) PROVE TypeOK'
  <2>1. /\ late' = [late EXCEPT ![c] = FALSE] /\ UNCHANGED <<graceless, csock, buffered, hs, token, toClient>>
        /\ UNCHANGED server
    BY <1>2 DEF BeginReconnecting
  <2>2. /\ phase' \in [Conns -> Phases] /\ failed' \in BOOLEAN /\ cause' \in [Conns -> Causes]
        /\ event' \in [Conns -> Events] /\ disposed' \in [Conns -> BOOLEAN]
        /\ attached' \in [Conns -> BOOLEAN] /\ closed' \in SUBSET Sockets
        /\ toServer' \in [Sockets -> Seq(Control)]
    <3>1. CASE OnReconnectionPermanentFailure(c, "graceless")
      <4>1. "graceless" \in Causes
        BY DEF Causes
      <4> QED BY <1>0, <3>1, <4>1, PermanentFailureTypes
    <3>2. CASE /\ phase' = [phase EXCEPT ![c] = "resolving"]
               /\ event' = [event EXCEPT ![c] = "ReconnectionRunning"]
               /\ UNCHANGED <<failed, disposed, cause, attached, toServer, closed>>
      <4>1. "resolving" \in Phases /\ "ReconnectionRunning" \in Events
        BY DEF Phases, Events
      <4> QED BY <1>0, <3>2, <4>1 DEF LoopTypes, ClientTypes, NetworkTypes
    <3> QED BY <1>2, <3>1, <3>2 DEF BeginReconnecting
  <2>3. LoopTypes' /\ ClientTypes' /\ NetworkTypes'
    BY <1>0, <2>1, <2>2 DEF LoopTypes, ClientTypes, NetworkTypes
  <2>4. ServerTypes' /\ faults' \in 0..MaxFaults
    BY <1>0, <1>2, <2>1, SameTypes, FaultCounted DEF BeginReconnecting, SocketLost
  <2> QED BY <2>3, <2>4, TypesAfter
<1>3. ASSUME NEW c \in Conns, WaitEnds(c) PROVE TypeOK'
  <2>1. phase' \in [Conns -> Phases] /\ event' \in [Conns -> Events]
    <3>1. {"idle", "resolving"} \subseteq Phases /\ "ReconnectionRunning" \in Events
      BY DEF Phases, Events
    <3> QED BY <1>0, <1>3, <3>1 DEF WaitEnds, LoopTypes
  <2>2. LoopTypes'
    BY <1>0, <1>3, <2>1 DEF WaitEnds, LoopTypes
  <2> QED BY <1>0, <1>3, <2>2, SameTypes, TypesAfter DEF WaitEnds
<1>4. ASSUME NEW c \in Conns, LoopGraceEnds(c) PROVE TypeOK'
  <2>1. LoopTypes'
    BY <1>0, <1>4 DEF LoopGraceEnds, LoopTypes
  <2> QED BY <1>0, <1>4, <2>1, SameTypes, FaultCounted, TypesAfter DEF LoopGraceEnds
<1>5. ASSUME NEW c \in Conns, AttemptFails(c) \/ ResolverFails(c) PROVE TypeOK'
  <2>1. /\ phase' \in [Conns -> Phases] /\ failed' \in BOOLEAN /\ cause' \in [Conns -> Causes]
        /\ event' \in [Conns -> Events] /\ disposed' \in [Conns -> BOOLEAN]
        /\ attached' \in [Conns -> BOOLEAN] /\ closed' \in SUBSET Sockets
        /\ toServer' \in [Sockets -> Seq(Control)]
    <3>1. CASE OnReconnectionPermanentFailure(c, "late") \/ OnReconnectionPermanentFailure(c, "resolver")
      <4>1. "late" \in Causes /\ "resolver" \in Causes
        BY DEF Causes
      <4> QED BY <1>0, <3>1, <4>1, PermanentFailureTypes
    <3>2. CASE /\ \/ phase' = [phase EXCEPT ![c] = "idle"] /\ event' = event
                  \/ /\ phase' = [phase EXCEPT ![c] = "waiting"]
                     /\ event' = [event EXCEPT ![c] = "ReconnectionWait"]
               /\ UNCHANGED <<failed, disposed, cause, attached, toServer, closed>>
      <4>1. "idle" \in Phases /\ "waiting" \in Phases /\ "ReconnectionWait" \in Events
        BY DEF Phases, Events
      <4>2. phase' \in [Conns -> Phases] /\ event' \in [Conns -> Events]
        BY <1>0, <3>2, <4>1 DEF LoopTypes
      <4>3. UNCHANGED <<failed, disposed, cause, attached, toServer, closed>>
        BY <3>2
      <4> QED BY <1>0, <4>2, <4>3 DEF LoopTypes, ClientTypes, NetworkTypes
    <3> QED BY <1>5, <3>1, <3>2 DEF AttemptFails, ResolverFails
  <2>2. UNCHANGED <<late, graceless, csock, buffered, hs, token, toClient>> /\ UNCHANGED server
    BY <1>5 DEF AttemptFails, ResolverFails
  <2>3. LoopTypes' /\ ClientTypes' /\ NetworkTypes'
    BY <1>0, <2>1, <2>2 DEF LoopTypes, ClientTypes, NetworkTypes
  <2>4. ServerTypes' /\ faults' \in 0..MaxFaults
    BY <1>0, <1>5, <2>2, SameTypes, FaultCounted DEF AttemptFails, ResolverFails
  <2> QED BY <2>3, <2>4, TypesAfter
<1>6. ASSUME NEW c \in Conns, ReceiveControl(c) PROVE TypeOK'
  <2> DEFINE s == csock[c]
  <2>1. /\ UNCHANGED <<late, graceless, csock, hs, token, faults>> /\ UNCHANGED server
    BY <1>6 DEF ReceiveControl
  <2>2. s \in Sockets /\ toClient[s] \in Seq(Control) /\ buffered[c] \in Seq(Control)
    BY <1>0 DEF ClientTypes, NetworkTypes
  <2>3. CASE /\ HandleControl(c, NextControl(c)) /\ buffered[c] \o toClient[s] # <<>>
             /\ IF buffered[c] = <<>>
                THEN toClient' = [toClient EXCEPT ![s] = Tail(@)] /\ UNCHANGED buffered
                ELSE buffered' = [buffered EXCEPT ![c] = Tail(@)] /\ UNCHANGED toClient
    <3>1. /\ phase' \in [Conns -> Phases] /\ failed' \in BOOLEAN /\ cause' \in [Conns -> Causes]
          /\ event' \in [Conns -> Events] /\ disposed' \in [Conns -> BOOLEAN]
          /\ attached' \in [Conns -> BOOLEAN] /\ closed' \in SUBSET Sockets
          /\ toServer' \in [Sockets -> Seq(Control)]
      BY <1>0, <2>3, HandleTypes
    <3>2. toClient' \in [Sockets -> Seq(Control)] /\ buffered' \in [Conns -> Seq(Control)]
      <4>1. CASE buffered[c] = <<>>
        <5>1. toClient[s] # <<>>
          BY <2>2, <2>3, <4>1
        <5>2. Tail(toClient[s]) \in Seq(Control)
          BY <2>2, <5>1, HeadTailProperties
        <5> QED BY <1>0, <2>2, <2>3, <4>1, <5>2 DEF ClientTypes, NetworkTypes
      <4>2. CASE buffered[c] # <<>>
        <5>1. Tail(buffered[c]) \in Seq(Control)
          BY <2>2, <4>2, HeadTailProperties
        <5> QED BY <1>0, <2>2, <2>3, <4>2, <5>1 DEF ClientTypes, NetworkTypes
      <4> QED BY <4>1, <4>2
    <3>3. LoopTypes' /\ ClientTypes' /\ NetworkTypes'
      BY <1>0, <2>1, <3>1, <3>2 DEF LoopTypes, ClientTypes, NetworkTypes
    <3> QED BY <1>0, <2>1, <3>3, SameTypes, TypesAfter
  <2>4. CASE /\ toClient[s] # <<>>
             /\ buffered' = [buffered EXCEPT ![c] = Append(@, Head(toClient[s]))]
             /\ toClient' = [toClient EXCEPT ![s] = Tail(@)]
             /\ UNCHANGED <<phase, event, failed, disposed, cause, attached, toServer, closed>>
    <3>1. Head(toClient[s]) \in Control /\ Tail(toClient[s]) \in Seq(Control)
      BY <2>2, <2>4, HeadTailProperties
    <3>2. Append(buffered[c], Head(toClient[s])) \in Seq(Control)
      BY <2>2, <3>1, AppendProperties
    <3>3. toClient' \in [Sockets -> Seq(Control)] /\ buffered' \in [Conns -> Seq(Control)]
      BY <1>0, <2>2, <2>4, <3>1, <3>2 DEF ClientTypes, NetworkTypes
    <3>4. LoopTypes' /\ ClientTypes' /\ NetworkTypes'
      BY <1>0, <2>1, <2>4, <3>3 DEF LoopTypes, ClientTypes, NetworkTypes
    <3> QED BY <1>0, <2>1, <3>4, SameTypes, TypesAfter
  <2> QED BY <1>6, <2>3, <2>4 DEF ReceiveControl
<1>7. ASSUME NEW c \in Conns, Dispose(c) PROVE TypeOK'
  <2>1. csock[c] \in Sockets /\ "disconnect" \in Control
    BY <1>0 DEF ClientTypes, Control
  <2>2. toServer' \in [Sockets -> Seq(Control)]
    BY <1>0, <1>7, <2>1, WrittenType DEF Dispose, NetworkTypes
  <2>3. LoopTypes'
    BY <1>0, <1>7 DEF Dispose, LoopTypes
  <2>4. ClientTypes'
    BY <1>0, <1>7 DEF Dispose, ClientTypes
  <2>5. NetworkTypes'
    BY <1>0, <1>7, <2>1, <2>2 DEF Dispose, NetworkTypes
  <2>6. ServerTypes' /\ faults' \in 0..MaxFaults
    BY <1>0, <1>7, SameTypes, FaultCounted DEF Dispose
  <2> QED BY <2>3, <2>4, <2>5, <2>6, TypesAfter
<1>8. ASSUME NEW c \in Conns, UpdateGraceTime(c) PROVE TypeOK'
  <2>1. LoopTypes'
    BY <1>0, <1>8 DEF UpdateGraceTime, LoopTypes
  <2> QED BY <1>0, <1>8, <2>1, SameTypes, FaultCounted, TypesAfter DEF UpdateGraceTime
<1>9. ASSUME NEW c \in Conns, NEW s \in Sockets, SocketReady(c, s) PROVE TypeOK'
  <2>1. LoopTypes'
    <3>1. "auth" \in Phases
      BY DEF Phases
    <3> QED BY <1>0, <1>9, <3>1 DEF SocketReady, LoopTypes
  <2>2. ClientTypes'
    BY <1>0, <1>9 DEF SocketReady, ClientTypes, FlushBuffer
  <2>3. NetworkTypes'
    <3>1. <<"auth">> \in Seq(Control) /\ <<>> \in Seq(Control)
      BY DEF Control
    <3>2. csock[c] \in Sockets
      BY <1>0 DEF ClientTypes
    <3> QED BY <1>0, <1>9, <3>1, <3>2 DEF SocketReady, NetworkTypes
  <2> QED BY <1>0, <1>9, <2>1, <2>2, <2>3, SameTypes, TypesAfter DEF SocketReady
<1> QED BY <1>1, <1>2, <1>3, <1>4, <1>5, <1>6, <1>7, <1>8, <1>9 DEF ClientNext

\* The reaction of the server to a message that asks it to shorten a timer.
LEMMA ShortenedType ==
    ASSUME ServerTypes, NEW d \in Conns PROVE Shortened(d) \in BOOLEAN
BY DEF ServerTypes, Shortened

\* The notice to an extension host process.
LEMMA ToldType ==
    ASSUME ServerTypes, NEW d \in Conns PROVE Told(d) \in Seq(Sockets \cup {Reduce})
<1>1. ipc[d] \in Seq(Sockets \cup {Reduce})
  BY DEF ServerTypes
<1>2. Append(ipc[d], Reduce) \in Seq(Sockets \cup {Reduce})
  BY <1>1, AppendProperties
<1> QED BY <1>1, <1>2 DEF Told

\* Every step of the server keeps the types.
LEMMA ServerTypesStep ==
    ASSUME TypeOK, ServerNext
    PROVE  TypeOK'
<1>0. LoopTypes /\ ClientTypes /\ ServerTypes /\ NetworkTypes /\ faults \in 0..MaxFaults
  BY TypeParts
<1>00. /\ "sign" \in Control /\ "refused" \in Control /\ "unknown" \in Control /\ "ok" \in Control
       /\ toClient \in [Sockets -> Seq(Control)]
  BY <1>0 DEF Control, NetworkTypes
<1>1. ASSUME NEW s \in Sockets, ServerReceivesAuth(s) \/ ServerRefuses(s) PROVE TypeOK'
  <2>1. toServer[s] \in Seq(Control) /\ toServer[s] # <<>>
    BY <1>0, <1>1 DEF ServerReceivesAuth, ServerRefuses, NetworkTypes
  <2>2. Tail(toServer[s]) \in Seq(Control)
    BY <2>1, HeadTailProperties
  <2>3. toServer' \in [Sockets -> Seq(Control)]
    BY <1>0, <1>1, <2>2 DEF ServerReceivesAuth, ServerRefuses, NetworkTypes
  <2>4. toClient' = Written(toClient, s, "sign") \/ toClient' = Written(toClient, s, "refused")
    BY <1>1 DEF ServerReceivesAuth, ServerRefuses, Reject
  <2>5. toClient' \in [Sockets -> Seq(Control)]
    BY <1>00, <2>4, WrittenType
  <2>6. closed' \in SUBSET Sockets /\ token' = token
    BY <1>0, <1>1 DEF ServerReceivesAuth, ServerRefuses, Reject, NetworkTypes
  <2>7. hs' \in [Sockets -> {"none", "WaitingForAuth", "WaitingForConnectionType", "Port"}]
    BY <1>0, <1>1 DEF ServerReceivesAuth, ServerRefuses, NetworkTypes
  <2>8. NetworkTypes'
    BY <1>0, <2>3, <2>5, <2>6, <2>7 DEF NetworkTypes
  <2>9. UNCHANGED <<loop, client, server>> /\ (Fault \/ UNCHANGED faults)
    BY <1>1 DEF ServerReceivesAuth, ServerRefuses
  <2> QED BY <1>0, <2>8, <2>9, SameTypes, FaultCounted, TypesAfter
<1>2. ASSUME NEW s \in Sockets, ServerReceivesConnectionType(s) PROVE TypeOK'
  <2>1. toServer[s] \in Seq(Control) /\ toServer[s] # <<>>
    BY <1>0, <1>2 DEF ServerReceivesConnectionType, NetworkTypes
  <2>2. Tail(toServer[s]) \in Seq(Control)
    BY <2>1, HeadTailProperties
  <2>3. toServer' \in [Sockets -> Seq(Control)]
    BY <1>0, <1>2, <2>2 DEF ServerReceivesConnectionType, NetworkTypes
  <2>4. \/ toClient' = Written(toClient, s, "unknown")
        \/ toClient' = Written(toClient, s, "ok")
        \/ toClient' = toClient
    BY <1>2 DEF ServerReceivesConnectionType, Reject
  <2>5. toClient' \in [Sockets -> Seq(Control)]
    BY <1>00, <2>4, WrittenType
  <2>6. token[s] \in Conns
    BY <1>0 DEF NetworkTypes
  <2>7. closed' \in SUBSET Sockets /\ token' = token
    BY <1>0, <1>2, <2>6 DEF ServerReceivesConnectionType, Reject, Replaced, NetworkTypes, ServerTypes
  <2>8. hs' \in [Sockets -> {"none", "WaitingForAuth", "WaitingForConnectionType", "Port"}]
    BY <1>0, <1>2 DEF ServerReceivesConnectionType, NetworkTypes
  <2>9. NetworkTypes'
    BY <1>0, <2>3, <2>5, <2>7, <2>8 DEF NetworkTypes
  <2>10. ipc' \in [Conns -> Seq(Sockets \cup {Reduce})]
    BY <1>0, <1>2, ToldType DEF ServerReceivesConnectionType, ServerTypes
  <2>11. runner1' \in [Conns -> BOOLEAN] /\ ssock' \in [Conns -> Sockets]
    BY <1>0, <1>2 DEF ServerReceivesConnectionType, ServerTypes
  <2>12. runner2' \in [Conns -> BOOLEAN]
    BY <1>0, <1>2, ShortenedType DEF ServerReceivesConnectionType, ServerTypes, Runner2AfterAccept
  <2>13. ServerTypes'
    BY <1>0, <1>2, <2>10, <2>11, <2>12 DEF ServerReceivesConnectionType, ServerTypes
  <2>14. UNCHANGED <<loop, client, faults>>
    BY <1>2 DEF ServerReceivesConnectionType
  <2> QED BY <1>0, <2>9, <2>13, <2>14, SameTypes, TypesAfter
<1>3. ASSUME NEW s \in Sockets, ServerHandlesExtHost(s) PROVE TypeOK'
  <2>1. toClient' \in [Sockets -> Seq(Control)]
    BY <1>00, <1>3, WrittenType DEF ServerHandlesExtHost, Reject
  <2>2. closed' \in SUBSET Sockets
    BY <1>0, <1>3 DEF ServerHandlesExtHost, Reject, NetworkTypes
  <2>3. NetworkTypes'
    BY <1>0, <1>3, <2>1, <2>2 DEF ServerHandlesExtHost, NetworkTypes
  <2>4. draining' \in [Conns -> SUBSET Sockets]
    <3>1. draining' = draining \/ draining' = [draining EXCEPT ![token[s]] = @ \cup {s}]
      BY <1>3 DEF ServerHandlesExtHost
    <3>2. draining \in [Conns -> SUBSET Sockets] /\ token[s] \in Conns
      BY <1>0 DEF NetworkTypes, ServerTypes
    <3>3. draining[token[s]] \cup {s} \in SUBSET Sockets
      BY <3>2
    <3>4. CASE draining' = [draining EXCEPT ![token[s]] = @ \cup {s}]
      BY <3>2, <3>3, <3>4
    <3> QED BY <3>1, <3>2, <3>4
  <2>5. ServerTypes'
    BY <1>0, <1>3, <2>4 DEF ServerHandlesExtHost, ServerTypes, timers
  <2>6. UNCHANGED <<loop, client, faults>>
    BY <1>3 DEF ServerHandlesExtHost
  <2> QED BY <1>0, <2>3, <2>5, <2>6, SameTypes, TypesAfter
<1>4. ASSUME NEW c \in Conns, NEW s \in Sockets, SocketDrained(c, s) PROVE TypeOK'
  <2>1. draining' \in [Conns -> SUBSET Sockets]
    BY <1>0, <1>4 DEF SocketDrained, ServerTypes
  <2>2. ipc' \in [Conns -> Seq(Sockets \cup {Reduce})]
    <3>1. ipc[c] \in Seq(Sockets \cup {Reduce})
      BY <1>0 DEF ServerTypes
    <3>2. Append(ipc[c], s) \in Seq(Sockets \cup {Reduce})
      BY <3>1, AppendProperties
    <3> QED BY <1>0, <1>4, <3>2 DEF SocketDrained, ServerTypes
  <2>3. ServerTypes'
    BY <1>0, <1>4, <2>1, <2>2 DEF SocketDrained, ServerTypes, timers
  <2>4. UNCHANGED <<loop, client, network, faults>>
    BY <1>4 DEF SocketDrained
  <2> QED BY <1>0, <2>3, <2>4, SameTypes, TypesAfter
<1>5. ASSUME NEW c \in Conns, ExtHostReceives(c) PROVE TypeOK'
  <2>1. ipc[c] \in Seq(Sockets \cup {Reduce}) /\ ipc[c] # <<>>
    BY <1>0, <1>5 DEF ExtHostReceives, ServerTypes
  <2>2. Head(ipc[c]) \in Sockets \cup {Reduce} /\ Tail(ipc[c]) \in Seq(Sockets \cup {Reduce})
    BY <2>1, HeadTailProperties
  <2>3. ipc' \in [Conns -> Seq(Sockets \cup {Reduce})]
    BY <1>0, <1>5, <2>2 DEF ExtHostReceives, ServerTypes
  <2>4. /\ runner1' \in [Conns -> BOOLEAN] /\ runner2' \in [Conns -> BOOLEAN]
        /\ ssock' \in [Conns -> Sockets] /\ closed' \in SUBSET Sockets
    <3>1. CASE Head(ipc[c]) # Reduce /\ Accept(c, Head(ipc[c]))
      BY <1>0, <2>2, <3>1 DEF Accept, Runner2AfterAccept, Replaced, ServerTypes, NetworkTypes
    <3>2. CASE UNCHANGED <<timers, ssock, closed>>
      BY <1>0, <3>2 DEF timers, ServerTypes, NetworkTypes
    <3>3. CASE /\ runner2' = [runner2 EXCEPT ![c] = Shortened(c)]
               /\ UNCHANGED <<runner1, ssock, closed>>
      BY <1>0, <3>3, ShortenedType DEF ServerTypes, NetworkTypes
    <3> QED BY <1>5, <3>1, <3>2, <3>3 DEF ExtHostReceives
  <2>5. ServerTypes' /\ NetworkTypes'
    BY <1>0, <1>5, <2>3, <2>4 DEF ExtHostReceives, ServerTypes, NetworkTypes
  <2>6. UNCHANGED <<loop, client, faults>>
    BY <1>5 DEF ExtHostReceives
  <2> QED BY <1>0, <2>5, <2>6, SameTypes, TypesAfter
<1>6. ASSUME NEW c \in Conns, ServerSeesClose(c) PROVE TypeOK'
  <2>1. ServerTypes'
    BY <1>0, <1>6 DEF ServerSeesClose, ServerTypes, handoff
  <2> QED BY <1>0, <1>6, <2>1, SameTypes, TypesAfter DEF ServerSeesClose
<1>7. ASSUME NEW c \in Conns, GraceExpires(c) \/ ServerReceivesDisconnect(c) \/ ExtHostCrashes(c)
      PROVE TypeOK'
  <2>1. CleanResources(c) /\ UNCHANGED <<loop, client, ssock, handoff, hs, token, toClient>>
        /\ (Fault \/ UNCHANGED faults)
    BY <1>7 DEF GraceExpires, ServerReceivesDisconnect, ExtHostCrashes
  <2>2. ServerTypes'
    BY <1>0, <2>1 DEF CleanResources, ServerTypes, handoff
  <2>3. toServer' \in [Sockets -> Seq(Control)]
    <3>1. CASE toServer' = toServer
      BY <1>0, <3>1 DEF NetworkTypes
    <3>2. CASE ServerReceivesDisconnect(c)
      <4> DEFINE s == ssock[c]
      <4>1. s \in Sockets /\ toServer[s] \in Seq(Control) /\ toServer[s] # <<>>
        BY <1>0, <3>2 DEF ServerReceivesDisconnect, ServerTypes, NetworkTypes
      <4>2. Tail(toServer[s]) \in Seq(Control)
        BY <4>1, HeadTailProperties
      <4> QED BY <1>0, <3>2, <4>1, <4>2 DEF ServerReceivesDisconnect, NetworkTypes
    <3> QED BY <1>7, <3>1, <3>2 DEF GraceExpires, ExtHostCrashes
  <2>4. NetworkTypes'
    BY <1>0, <2>1, <2>3 DEF CleanResources, ServerTypes, NetworkTypes
  <2> QED BY <1>0, <2>1, <2>2, <2>4, SameTypes, FaultCounted, TypesAfter
<1>8. ASSUME NEW c \in Conns, ServerSeesExit(c) PROVE TypeOK'
  <2>1. ServerTypes'
    BY <1>0, <1>8 DEF ServerSeesExit, ServerTypes, timers
  <2> QED BY <1>0, <1>8, <2>1, SameTypes, TypesAfter DEF ServerSeesExit
<1>9. CASE ServerRestarts
  <2>1. ServerTypes'
    BY <1>0, <1>9 DEF ServerRestarts, ServerTypes
  <2>2. NetworkTypes'
    BY <1>0, <1>9 DEF ServerRestarts, NetworkTypes
  <2> QED BY <1>0, <1>9, <2>1, <2>2, SameTypes, FaultCounted, TypesAfter DEF ServerRestarts
<1> QED BY <1>1, <1>2, <1>3, <1>4, <1>5, <1>6, <1>7, <1>8, <1>9 DEF ServerNext

\* What a broken socket still delivers is a beginning of what was in flight.
LEMMA NetworkTypesStep ==
    ASSUME TypeOK, NetworkNext
    PROVE  TypeOK'
<1>0. LoopTypes /\ ClientTypes /\ ServerTypes /\ NetworkTypes /\ faults \in 0..MaxFaults
  BY TypeParts
<1>1. ASSUME NEW q \in Seq(Control), NEW n \in Int, n <= Len(q)
      PROVE  SubSeq(q, 1, n) \in Seq(Control)
  <2>1. \A i \in 1..n : q[i] \in Control
    BY <1>1, ElementOfSeq
  <2> QED BY <1>1, <2>1, SubSeqProperties
<1>2. PICK s \in Sockets : Break(s) \/ LoseTail(s) \/ DisconnectLost(s)
  BY DEF NetworkNext
<1>3. toServer[s] \in Seq(Control) /\ toClient[s] \in Seq(Control)
  BY <1>0 DEF NetworkTypes
<1>4. toServer' \in [Sockets -> Seq(Control)] /\ toClient' \in [Sockets -> Seq(Control)]
  <2>1. CASE Break(s)
    <3>1. PICK i \in 0..Len(toServer[s]), j \in 0..Len(toClient[s]) :
            /\ toServer' = [toServer EXCEPT ![s] = SubSeq(@, 1, i)]
            /\ toClient' = [toClient EXCEPT ![s] = SubSeq(@, 1, j)]
      BY <2>1 DEF Break
    <3>2. i \in Int /\ i <= Len(toServer[s]) /\ j \in Int /\ j <= Len(toClient[s])
      BY <1>3, LenProperties
    <3>3. SubSeq(toServer[s], 1, i) \in Seq(Control) /\ SubSeq(toClient[s], 1, j) \in Seq(Control)
      BY <1>1, <1>3, <3>2
    <3> QED BY <1>0, <3>1, <3>3 DEF NetworkTypes
  <2>2. CASE LoseTail(s)
    <3>1. /\ Len(toServer[s]) - 1 \in Int /\ Len(toServer[s]) - 1 <= Len(toServer[s])
          /\ Len(toClient[s]) - 1 \in Int /\ Len(toClient[s]) - 1 <= Len(toClient[s])
      BY <1>3, LenProperties
    <3>2. /\ SubSeq(toServer[s], 1, Len(toServer[s]) - 1) \in Seq(Control)
          /\ SubSeq(toClient[s], 1, Len(toClient[s]) - 1) \in Seq(Control)
      BY <1>1, <1>3, <3>1
    <3> QED BY <1>0, <2>2, <3>2 DEF LoseTail, NetworkTypes
  <2>3. CASE DisconnectLost(s)
    <3>1. Tail(toServer[s]) \in Seq(Control)
      BY <1>3, <2>3, HeadTailProperties DEF DisconnectLost
    <3> QED BY <1>0, <2>3, <3>1 DEF DisconnectLost, NetworkTypes
  <2> QED BY <1>2, <2>1, <2>2, <2>3
<1>5. NetworkTypes'
  BY <1>0, <1>2, <1>4 DEF Break, LoseTail, DisconnectLost, NetworkTypes
<1>6. UNCHANGED <<loop, client, server>> /\ (Fault \/ UNCHANGED faults)
  BY <1>2 DEF Break, LoseTail, DisconnectLost
<1> QED BY <1>0, <1>5, <1>6, SameTypes, FaultCounted, TypesAfter

\* Initially every socket name is one of a connection, or of none.
LEMMA TypesInitially == Init => TypeOK
<1> SUFFICES ASSUME Init PROVE TypeOK
  OBVIOUS
<1>1. LoopTypes
  BY DEF Init, LoopTypes, Phases, Events, Causes
<1>2. ClientTypes /\ ServerTypes
  BY RemoteAssumption DEF Init, ClientTypes, ServerTypes
<1>3. ASSUME NEW s \in Sockets
      PROVE  (CHOOSE c \in Conns : (\E d \in Conns : FirstSocket[d] = s) => FirstSocket[c] = s) \in Conns
  <2>1. \E c \in Conns : (\E d \in Conns : FirstSocket[d] = s) => FirstSocket[c] = s
    BY RemoteAssumption
  <2> QED BY <2>1
<1>4. token \in [Sockets -> Conns]
  BY <1>3 DEF Init
<1>5. NetworkTypes
  <2>1. <<>> \in Seq(Control)
    OBVIOUS
  <2>2. /\ toServer \in [Sockets -> Seq(Control)] /\ toClient \in [Sockets -> Seq(Control)]
        /\ hs \in [Sockets -> {"none", "WaitingForAuth", "WaitingForConnectionType", "Port"}]
        /\ closed \in SUBSET Sockets
    BY <2>1 DEF Init
  <2> QED BY <1>4, <2>2 DEF NetworkTypes
<1>6. faults \in 0..MaxFaults
  BY RemoteAssumption DEF Init
<1> QED BY <1>1, <1>2, <1>5, <1>6, TypeParts

\* Every step keeps the types.
LEMMA TypesStep == ASSUME TypeOK, [Next]_vars PROVE TypeOK'
<1>1. CASE ClientNext
  BY <1>1, ClientTypesStep
<1>2. CASE ServerNext
  BY <1>2, ServerTypesStep
<1>3. CASE NetworkNext
  BY <1>3, NetworkTypesStep
<1>4. CASE UNCHANGED vars
  BY <1>4, TypeParts, TypesAfter, SameTypes DEF vars
<1> QED BY <1>1, <1>2, <1>3, <1>4 DEF Next

\* The two ends, the messages between them and the bookkeeping of the server
\* keep their types.
THEOREM TypeCorrect == Spec => []TypeOK
<1>1. TypeOK /\ [Next]_vars => TypeOK'
  BY TypesStep
<1> QED BY <1>1, TypesInitially, PTL DEF Spec

-----------------------------------------------------------------------------
(* What the listeners know.                                                  *)

\* The state of one loop, its protocol and its emitter.
SameLoop(d) ==
    /\ phase'[d] = phase[d] /\ disposed'[d] = disposed[d] /\ event'[d] = event[d]
    /\ cause'[d] = cause[d] /\ attached'[d] = attached[d]

\* A step that changes at most one loop.
LEMMA OneLoop ==
    ASSUME LoopInv, NEW c \in Conns, failed' = failed,
           \A d \in Conns : d # c => SameLoop(d), LoopInvOf(c)'
    PROVE  LoopInv'
<1>1. ASSUME NEW d \in Conns, d # c PROVE LoopInvOf(d)'
  BY <1>1 DEF LoopInv, LoopInvOf, SameLoop
<1> QED BY <1>1 DEF LoopInv

\* A step that changes no loop.
LEMMA NoLoop ==
    ASSUME LoopInv, UNCHANGED <<phase, failed, disposed, event, cause, attached>>
    PROVE  LoopInv'
BY DEF LoopInv, LoopInvOf

\* The failure of a connection leaves its loop, and tells whatever it takes down.
LEMMA FailureLoop ==
    ASSUME TypeOK, LoopInv, NEW c \in Conns, NEW why, why # "none",
           OnReconnectionPermanentFailure(c, why)
    PROVE  LoopInv'
<1>0. PICK F \in TakenDown(c) : FailsWith(c, why, F)
  BY DEF OnReconnectionPermanentFailure
<1>1. ASSUME NEW d \in Conns PROVE LoopInvOf(d)'
  <2>0. /\ phase \in [Conns -> Phases]
        /\ phase' = [phase EXCEPT ![c] = "idle"]
        /\ failed' = (failed \/ c \in Management)
        /\ cause'[d] = IF d = c THEN why ELSE IF d \in F THEN "fatal" ELSE cause[d]
        /\ event'[d] = IF d \in ToldOfFailure(F) THEN "ReconnectionPermanentFailure" ELSE event[d]
        /\ disposed'[d] = (disposed[d] \/ d \in F \cap Management)
        /\ attached'[d] = (attached[d] /\ d \notin F)
    BY <1>0 DEF FailsWith, GotoPermanentFailure, TypeOK, Phases
  <2>1. CASE d \in F
    <3>1. cause'[d] # "none" /\ ~attached'[d]
      BY <2>0, <2>1
    <3>2. ~disposed'[d] => event'[d] = "ReconnectionPermanentFailure"
      BY <2>0, <2>1 DEF ToldOfFailure
    <3>3. ~failed' => phase'[d] = "idle"
      <4>1. ASSUME ~failed' PROVE d = c
        BY <1>0, <2>0, <2>1, <4>1, TakenDownSets
      <4> QED BY <2>0, <4>1
    <3> QED BY <3>1, <3>2, <3>3 DEF LoopInvOf
  <2>2. CASE d \notin F /\ d = c
    <3>1. c \in Management
      BY <1>0, <2>2, TakenDownSets
    <3>2. disposed[d]
      BY <1>0, <2>2, <3>1, TakenDownSets, ReachedSets DEF Instances
    <3>3. failed' /\ disposed'[d]
      BY <2>0, <3>1, <3>2
    <3> QED BY <3>3 DEF LoopInvOf
  <2>3. CASE d \notin F /\ d # c
    <3>1. phase'[d] = phase[d] /\ cause'[d] = cause[d]
      BY <2>0, <2>3
    <3>2. event'[d] = event[d]
      BY <2>0, <2>3 DEF ToldOfFailure
    <3>3. disposed'[d] <=> disposed[d]
      BY <2>0, <2>3
    <3>4. attached'[d] <=> attached[d]
      BY <2>0, <2>3
    <3>5. failed => failed'
      BY <2>0
    <3>6. LoopInvOf(d)
      BY DEF LoopInv
    <3> QED BY <3>1, <3>2, <3>3, <3>4, <3>5, <3>6 DEF LoopInvOf
  <2> QED BY <2>1, <2>2, <2>3
<1> QED BY <1>1 DEF LoopInv

\* Every step keeps the relation between the loops and their events.
LEMMA LoopStep ==
    ASSUME TypeOK, LoopInv, [Next]_vars
    PROVE  LoopInv'
<1>0. /\ phase \in [Conns -> Phases] /\ disposed \in [Conns -> BOOLEAN] /\ event \in [Conns -> Events]
      /\ cause \in [Conns -> Causes] /\ attached \in [Conns -> BOOLEAN]
  BY DEF TypeOK, Phases, Events, Causes
<1>1. CASE InitialConnectionFails
  <2>0. PICK F \in ReachedByFailure :
            /\ GotoPermanentFailure(F) /\ failed' = TRUE
            /\ cause' = [e \in Conns |-> IF e \in F THEN "fatal" ELSE cause[e]]
    BY <1>1 DEF InitialConnectionFails
  <2>1. ASSUME NEW d \in Conns PROVE LoopInvOf(d)'
    <3>1. /\ cause'[d] = IF d \in F THEN "fatal" ELSE cause[d]
          /\ event'[d] = IF d \in ToldOfFailure(F) THEN "ReconnectionPermanentFailure" ELSE event[d]
          /\ disposed'[d] = (disposed[d] \/ d \in F \cap Management)
          /\ attached'[d] = (attached[d] /\ d \notin F)
      BY <2>0 DEF GotoPermanentFailure
    <3>2. CASE d \in F
      <4>1. ~attached'[d] /\ (~disposed'[d] => event'[d] = "ReconnectionPermanentFailure")
        BY <3>1, <3>2 DEF ToldOfFailure
      <4> QED BY <2>0, <4>1 DEF LoopInvOf
    <3>3. CASE d \notin F
      <4>1. cause'[d] = cause[d] /\ event'[d] = event[d]
        BY <3>1, <3>3 DEF ToldOfFailure
      <4>2. (disposed'[d] <=> disposed[d]) /\ (attached'[d] <=> attached[d])
        BY <3>1, <3>3
      <4>3. LoopInvOf(d)
        BY DEF LoopInv
      <4> QED BY <2>0, <4>1, <4>2, <4>3 DEF LoopInvOf
    <3> QED BY <3>2, <3>3
  <2> QED BY <2>1 DEF LoopInv
<1>2. ASSUME NEW c \in Conns, BeginReconnecting(c) PROVE LoopInv'
  <2>1. CASE OnReconnectionPermanentFailure(c, "graceless")
    BY <2>1, FailureLoop
  <2>2. CASE /\ phase' = [phase EXCEPT ![c] = "resolving"]
             /\ event' = [event EXCEPT ![c] = "ReconnectionRunning"]
             /\ UNCHANGED <<failed, disposed, cause, attached, toServer, closed>>
    <3>1. attached[c] /\ ~failed /\ ~disposed[c]
      BY <1>2 DEF BeginReconnecting, SocketLost
    <3>2. cause[c] = "none"
      BY <3>1 DEF LoopInv, LoopInvOf
    <3>3. phase'[c] = "resolving"
      BY <1>0, <2>2
    <3>4. LoopInvOf(c)'
      BY <2>2, <3>1, <3>2, <3>3 DEF LoopInvOf
    <3>5. \A d \in Conns : d # c => SameLoop(d)
      BY <1>0, <2>2 DEF SameLoop
    <3> QED BY <2>2, <3>4, <3>5, OneLoop
  <2> QED BY <1>2, <2>1, <2>2 DEF BeginReconnecting
<1>3. ASSUME NEW c \in Conns, WaitEnds(c) PROVE LoopInv'
  <2>1. UNCHANGED <<failed, disposed, cause, attached>> /\ phase[c] = "waiting"
    BY <1>3 DEF WaitEnds, client
  <2>2. \A d \in Conns : d # c => SameLoop(d)
    BY <1>0, <1>3, <2>1 DEF WaitEnds, SameLoop
  <2>3. LoopInvOf(c)
    BY DEF LoopInv
  <2>4. LoopInvOf(c)'
    <3>1. CASE failed
      <4>1. phase'[c] = "idle" /\ event' = event
        BY <1>0, <1>3, <3>1 DEF WaitEnds
      <4> QED BY <2>1, <2>3, <3>1, <4>1 DEF LoopInvOf
    <3>2. CASE ~failed
      <4>1. phase'[c] = "resolving"
        BY <1>0, <1>3, <3>2 DEF WaitEnds
      <4>2. cause[c] = "none"
        BY <2>1, <2>3, <3>2 DEF LoopInvOf
      <4> QED BY <2>1, <3>2, <4>1, <4>2 DEF LoopInvOf
    <3> QED BY <3>1, <3>2
  <2> QED BY <2>1, <2>2, <2>4, OneLoop
<1>4. ASSUME NEW c \in Conns, AttemptFails(c) PROVE LoopInv'
  <2>1. CASE OnReconnectionPermanentFailure(c, "late")
    BY <2>1, FailureLoop
  <2>2. CASE /\ IF failed \/ disposed[c]
                THEN phase' = [phase EXCEPT ![c] = "idle"] /\ UNCHANGED event
                ELSE /\ phase' = [phase EXCEPT ![c] = "waiting"]
                     /\ event' = [event EXCEPT ![c] = "ReconnectionWait"]
             /\ UNCHANGED <<failed, disposed, cause, attached, toServer, closed>>
    <3>1. \A d \in Conns : d # c => SameLoop(d)
      BY <1>0, <2>2 DEF SameLoop
    <3>2. LoopInvOf(c) /\ phase[c] # "idle"
      BY <1>4 DEF LoopInv, AttemptFails
    <3>3. LoopInvOf(c)'
      <4>1. CASE failed \/ disposed[c]
        <5>1. phase'[c] = "idle" /\ event' = event
          BY <1>0, <2>2, <4>1
        <5>2. UNCHANGED <<failed, disposed, cause, attached>>
          BY <2>2
        <5> QED BY <3>2, <4>1, <5>1, <5>2 DEF LoopInvOf
      <4>2. CASE ~failed /\ ~disposed[c]
        <5>1. phase'[c] = "waiting" /\ cause[c] = "none"
          BY <1>0, <2>2, <3>2, <4>2 DEF LoopInvOf
        <5>2. UNCHANGED <<failed, disposed, cause, attached>>
          BY <2>2
        <5> QED BY <4>2, <5>1, <5>2 DEF LoopInvOf
      <4> QED BY <4>1, <4>2
    <3> QED BY <2>2, <3>1, <3>3, OneLoop
  <2> QED BY <1>4, <2>1, <2>2 DEF AttemptFails
<1>5. ASSUME NEW c \in Conns, ResolverFails(c) PROVE LoopInv'
  BY <1>5, FailureLoop DEF ResolverFails
<1>6. ASSUME NEW c \in Conns, ReceiveControl(c) PROVE LoopInv'
  <2>1. CASE UNCHANGED <<phase, event, failed, disposed, cause, attached, toServer, closed>>
    BY <2>1, NoLoop
  <2>2. CASE HandleControl(c, NextControl(c)) /\ phase[c] \in {"auth", "confirm"}
    <3> DEFINE m == NextControl(c)
    <3>0. LoopInvOf(c) /\ attached[c] /\ phase[c] # "idle"
      BY <1>6, <2>2 DEF LoopInv, ReceiveControl
    <3>1. cause[c] # "none" => failed
      BY <3>0 DEF LoopInvOf
    <3>2. CASE phase' = [phase EXCEPT ![c] = "confirm"] /\ UNCHANGED <<event, failed, disposed, cause, attached>>
      <4>1. phase'[c] = "confirm" /\ \A d \in Conns : d # c => SameLoop(d)
        BY <1>0, <3>2 DEF SameLoop
      <4>2. LoopInvOf(c)'
        BY <3>0, <3>1, <3>2, <4>1 DEF LoopInvOf
      <4> QED BY <3>2, <4>1, <4>2, OneLoop
    <3>3. CASE /\ phase' = [phase EXCEPT ![c] = "idle"]
               /\ event' = IF disposed[c] THEN event ELSE [event EXCEPT ![c] = "ConnectionGain"]
               /\ UNCHANGED <<failed, disposed, cause, attached>>
      <4>1. \A d \in Conns : d # c => SameLoop(d)
        BY <1>0, <3>3 DEF SameLoop
      <4>2. ~disposed[c] => event'[c] = "ConnectionGain"
        BY <1>0, <3>3
      <4>3. LoopInvOf(c)'
        BY <3>0, <3>1, <3>3, <4>2 DEF LoopInvOf
      <4> QED BY <3>3, <4>1, <4>3, OneLoop
    <3>4. CASE OnReconnectionPermanentFailure(c, IF m = "refused" THEN "refused" ELSE "rejected")
      <4>1. (IF m = "refused" THEN "refused" ELSE "rejected") # "none"
        OBVIOUS
      <4> HIDE DEF m
      <4> QED BY <3>4, <4>1, FailureLoop
    <3> QED BY <2>2, <3>2, <3>3, <3>4 DEF HandleControl
  <2> QED BY <1>6, <2>1, <2>2 DEF ReceiveControl
<1>7. ASSUME NEW c \in Conns, Dispose(c) PROVE LoopInv'
  <2>1. \A d \in Conns : d # c => SameLoop(d)
    BY <1>0, <1>7 DEF Dispose, SameLoop
  <2>2. disposed'[c] /\ (attached'[c] => attached[c])
    BY <1>0, <1>7 DEF Dispose
  <2>3. LoopInvOf(c)
    BY DEF LoopInv
  <2>4. UNCHANGED <<phase, failed, cause>>
    BY <1>7 DEF Dispose
  <2>5. LoopInvOf(c)'
    BY <2>2, <2>3, <2>4 DEF LoopInvOf
  <2> QED BY <2>1, <2>4, <2>5, OneLoop
<1>8. ASSUME NEW c \in Conns, LoopGraceEnds(c) \/ UpdateGraceTime(c) PROVE LoopInv'
  BY <1>8, NoLoop DEF LoopGraceEnds, UpdateGraceTime, client
<1>9. ASSUME NEW c \in Conns, NEW s \in Sockets, SocketReady(c, s) PROVE LoopInv'
  <2>1. \A d \in Conns : d # c => SameLoop(d)
    BY <1>0, <1>9 DEF SocketReady, SameLoop
  <2>2. phase'[c] = "auth" /\ attached'[c] /\ phase[c] = "resolving"
        /\ UNCHANGED <<failed, disposed, event, cause>>
    BY <1>0, <1>9 DEF SocketReady
  <2>3. LoopInvOf(c)
    BY DEF LoopInv
  <2>4. LoopInvOf(c)'
    BY <2>2, <2>3 DEF LoopInvOf
  <2> QED BY <2>1, <2>2, <2>4, OneLoop
<1>10. CASE ServerNext \/ NetworkNext
  <2>1. UNCHANGED <<loop, client>>
    BY <1>10 DEF ServerNext, NetworkNext, ServerReceivesAuth, ServerRefuses,
       ServerReceivesConnectionType, ServerHandlesExtHost, ExtHostReceives, ServerSeesClose,
       GraceExpires, ServerReceivesDisconnect, ExtHostCrashes, ServerSeesExit, SocketDrained,
       ServerRestarts, Break, LoseTail, DisconnectLost
  <2> QED BY <2>1, NoLoop DEF loop, client
<1>11. CASE UNCHANGED vars
  BY <1>11, NoLoop DEF vars, loop, client
<1> QED BY <1>1, <1>2, <1>3, <1>4, <1>5, <1>6, <1>7, <1>8, <1>9, <1>10, <1>11 DEF Next, ClientNext

-----------------------------------------------------------------------------
(* The sockets.                                                              *)

\* What is over stays over: failures, disposals and the server's registry.
LEMMA Monotone ==
    ASSUME TypeOK, [Next]_vars
    PROVE  /\ failed => failed'
           /\ \A c \in Conns : /\ disposed[c] => disposed'[c]
                               /\ cause[c] # "none" => cause'[c] # "none"
                               /\ registered'[c] => registered[c]
<1>0. /\ disposed \in [Conns -> BOOLEAN] /\ cause \in [Conns -> Causes] /\ registered \in [Conns -> BOOLEAN]
  BY DEF TypeOK, Causes
<1>1. ASSUME NEW c \in Conns, NEW why, why # "none", OnReconnectionPermanentFailure(c, why)
      PROVE  /\ failed => failed'
             /\ \A d \in Conns : (disposed[d] => disposed'[d]) /\ (cause[d] # "none" => cause'[d] # "none")
  BY <1>1 DEF OnReconnectionPermanentFailure, FailsWith, GotoPermanentFailure
<1>2. CASE InitialConnectionFails
  BY <1>2 DEF InitialConnectionFails, GotoPermanentFailure, server
<1>3. ASSUME NEW c \in Conns, BeginReconnecting(c) \/ AttemptFails(c) \/ ResolverFails(c)
      PROVE  /\ failed => failed'
             /\ \A d \in Conns : /\ disposed[d] => disposed'[d]
                                 /\ cause[d] # "none" => cause'[d] # "none"
                                 /\ registered'[d] => registered[d]
  <2>1. registered' = registered
    BY <1>3 DEF BeginReconnecting, AttemptFails, ResolverFails, server
  <2>2. CASE UNCHANGED <<failed, disposed, cause>>
    BY <2>1, <2>2
  <2>3. CASE \/ OnReconnectionPermanentFailure(c, "graceless") \/ OnReconnectionPermanentFailure(c, "late")
             \/ OnReconnectionPermanentFailure(c, "resolver")
    BY <1>1, <2>1, <2>3
  <2> QED BY <1>3, <2>2, <2>3 DEF BeginReconnecting, AttemptFails, ResolverFails
<1>4. ASSUME NEW c \in Conns, ReceiveControl(c)
      PROVE  /\ failed => failed'
             /\ \A d \in Conns : /\ disposed[d] => disposed'[d]
                                 /\ cause[d] # "none" => cause'[d] # "none"
                                 /\ registered'[d] => registered[d]
  <2> DEFINE m == NextControl(c)
             why == IF m = "refused" THEN "refused" ELSE "rejected"
  <2>1. registered' = registered
    BY <1>4 DEF ReceiveControl, server
  <2>2. CASE UNCHANGED <<failed, disposed, cause>>
    BY <2>1, <2>2
  <2>3. CASE OnReconnectionPermanentFailure(c, why)
    <3>1. why # "none"
      OBVIOUS
    <3> HIDE DEF why
    <3> QED BY <1>1, <2>1, <2>3, <3>1
  <2> QED BY <1>4, <2>2, <2>3 DEF ReceiveControl, HandleControl
<1>5. ASSUME NEW c \in Conns, \/ WaitEnds(c) \/ LoopGraceEnds(c) \/ Dispose(c) \/ UpdateGraceTime(c)
                              \/ \E s \in Sockets : SocketReady(c, s)
      PROVE  /\ failed => failed'
             /\ \A d \in Conns : /\ disposed[d] => disposed'[d]
                                 /\ cause[d] # "none" => cause'[d] # "none"
                                 /\ registered'[d] => registered[d]
  BY <1>0, <1>5 DEF WaitEnds, LoopGraceEnds, Dispose, UpdateGraceTime, SocketReady, server
<1>6. CASE ServerNext \/ NetworkNext
  <2>1. UNCHANGED loop
    BY <1>6 DEF ServerNext, NetworkNext, ServerReceivesAuth, ServerRefuses,
       ServerReceivesConnectionType, ServerHandlesExtHost, ExtHostReceives, ServerSeesClose,
       GraceExpires, ServerReceivesDisconnect, ExtHostCrashes, ServerSeesExit, SocketDrained,
       ServerRestarts, Break, LoseTail, DisconnectLost
  <2>2. ASSUME NEW d \in Conns, registered'[d] PROVE registered[d]
    <3>1. CASE NetworkNext
      BY <2>2, <3>1 DEF NetworkNext, Break, LoseTail, DisconnectLost, server
    <3>2. CASE ServerNext /\ registered' = registered
      BY <2>2, <3>2
    <3>3. ASSUME NEW c \in Conns, CleanResources(c) \/ ServerSeesExit(c), c \in ExtHosts => registered[c]
          PROVE  registered[d]
      BY <1>0, <2>2, <3>3 DEF CleanResources, ServerSeesExit
    <3>4. CASE ServerRestarts
      BY <2>2, <3>4 DEF ServerRestarts
    <3> QED BY <1>6, <3>1, <3>2, <3>3, <3>4 DEF ServerNext, ServerReceivesAuth, ServerRefuses,
       ServerReceivesConnectionType, ServerHandlesExtHost, ExtHostReceives, ServerSeesClose,
       GraceExpires, ServerReceivesDisconnect, ExtHostCrashes, ServerSeesExit, SocketDrained, server
  <2> QED BY <2>1, <2>2 DEF loop
<1>7. CASE UNCHANGED vars
  BY <1>7 DEF vars, loop, server
<1> QED BY <1>2, <1>3, <1>4, <1>5, <1>6, <1>7 DEF Next, ClientNext

\* When the window fails its management connection is disposed and at most one
\* of the others is overlooked.
LEMMA FailureStep ==
    ASSUME TypeOK, FailureInv, [Next]_vars
    PROVE  FailureInv'
<1>1. CASE failed' = failed
  <2>1. \A c \in Conns : Overlooked(c)' => Overlooked(c)
    BY <1>1, Monotone DEF Overlooked
  <2>2. \A c \in Conns : disposed[c] => disposed'[c]
    BY Monotone
  <2> QED BY <1>1, <2>1, <2>2, RemoteAssumption DEF FailureInv, AtMostOneOverlooked
<1>2. ASSUME NEW F \in ReachedByFailure, GotoPermanentFailure(F), failed', ~failed,
             \A d \in F : cause'[d] # "none"
      PROVE  FailureInv'
  <2>1. \A d \in Conns : Overlooked(d)' => d \in Instances \ F
    BY <1>2, Monotone DEF Overlooked, Instances
  <2>2. \A d \in Management : disposed'[d]
    <3>1. ASSUME NEW d \in Management PROVE disposed'[d]
      <4>1. d \in Conns /\ disposed'[d] = (disposed[d] \/ d \in F \cap Management)
        BY <1>2, RemoteAssumption DEF GotoPermanentFailure
      <4>2. disposed[d] \/ d \in F
        BY <4>1, ReachedSets DEF Instances
      <4> QED BY <4>1, <4>2
    <3> QED BY <3>1
  <2>3. \A d \in Conns : Overlooked(d)' => d \in ExtHosts
    BY <2>2 DEF Overlooked, ExtHosts
  <2>4. \A d, e \in Conns : Overlooked(d)' /\ Overlooked(e)' => d = e
    BY <2>1, ReachedSets
  <2> QED BY <2>2, <2>3, <2>4 DEF FailureInv, AtMostOneOverlooked
<1>3. CASE InitialConnectionFails /\ failed' # failed
  <2>1. PICK F \in ReachedByFailure :
            /\ GotoPermanentFailure(F)
            /\ cause' = [c \in Conns |-> IF c \in F THEN "fatal" ELSE cause[c]]
    BY <1>3 DEF InitialConnectionFails
  <2>2. \A d \in F : cause'[d] # "none"
    BY <2>1, ReachedSets
  <2>3. failed' /\ ~failed
    BY <1>3 DEF InitialConnectionFails, TypeOK
  <2> QED BY <1>2, <2>1, <2>2, <2>3
<1>4. ASSUME NEW c \in Conns, NEW why, why # "none", OnReconnectionPermanentFailure(c, why),
             failed' # failed
      PROVE  FailureInv'
  <2>1. PICK F \in TakenDown(c) : FailsWith(c, why, F)
    BY <1>4 DEF OnReconnectionPermanentFailure
  <2>2. failed' /\ ~failed /\ c \in Management
    BY <1>4, <2>1 DEF FailsWith, TypeOK
  <2>3. F \in ReachedByFailure /\ F \in SUBSET Conns
    BY <2>1, <2>2, TakenDownSets
  <2>4. \A d \in F : cause'[d] # "none"
    BY <1>4, <2>1, <2>3 DEF FailsWith
  <2> QED BY <1>2, <2>1, <2>2, <2>3, <2>4 DEF FailsWith
<1>5. ASSUME NEW c \in Conns, BeginReconnecting(c) \/ AttemptFails(c) \/ ResolverFails(c),
             failed' # failed
      PROVE  FailureInv'
  BY <1>4, <1>5 DEF BeginReconnecting, AttemptFails, ResolverFails
<1>6. ASSUME NEW c \in Conns, ReceiveControl(c), failed' # failed
      PROVE  FailureInv'
  <2> DEFINE m == NextControl(c)
             why == IF m = "refused" THEN "refused" ELSE "rejected"
  <2>1. OnReconnectionPermanentFailure(c, why)
    BY <1>6 DEF ReceiveControl, HandleControl
  <2>2. why # "none"
    OBVIOUS
  <2> HIDE DEF why
  <2> QED BY <1>4, <1>6, <2>1, <2>2
<1>7. ASSUME NEW c \in Conns, \/ WaitEnds(c) \/ LoopGraceEnds(c) \/ Dispose(c) \/ UpdateGraceTime(c)
                              \/ \E s \in Sockets : SocketReady(c, s)
      PROVE  failed' = failed
  BY <1>7 DEF WaitEnds, LoopGraceEnds, Dispose, UpdateGraceTime, SocketReady
<1>8. CASE ServerNext \/ NetworkNext \/ UNCHANGED vars
  <2>1. UNCHANGED loop
    BY <1>8 DEF ServerNext, NetworkNext, ServerReceivesAuth, ServerRefuses,
       ServerReceivesConnectionType, ServerHandlesExtHost, ExtHostReceives, ServerSeesClose,
       GraceExpires, ServerReceivesDisconnect, ExtHostCrashes, ServerSeesExit, SocketDrained,
       ServerRestarts, Break, LoseTail, DisconnectLost, vars
  <2> QED BY <1>1, <2>1 DEF loop
<1> QED BY <1>1, <1>3, <1>5, <1>6, <1>7, <1>8 DEF Next, ClientNext

\* What the listeners of onDidStateChange heard last is true once the loop has
\* come to rest, for any number of connections and faults, and a failure of the
\* window overlooks at most one connection.
THEOREM ListenersAlwaysKnow == Spec => []ListenersKnow
<1>1. Init => LoopInv /\ FailureInv
  BY DEF Init, LoopInv, LoopInvOf, FailureInv, AtMostOneOverlooked, Overlooked
<1>2. TypeOK /\ LoopInv /\ FailureInv /\ [Next]_vars => LoopInv' /\ FailureInv'
  BY LoopStep, FailureStep
<1>3. LoopInv /\ FailureInv => ListenersKnow
  BY DEF LoopInv, LoopInvOf, FailureInv, Overlooked, ListenersKnow
<1> QED BY <1>1, <1>2, <1>3, TypeCorrect, PTL DEF Spec

\* Only a new socket changes the socket of a protocol or a query, or opens a name.
LEMMA OldSockets ==
    ASSUME TypeOK, [Next]_vars, \A c \in Conns, s \in Sockets : ~SocketReady(c, s)
    PROVE  UNCHANGED <<csock, token>> /\ closed \subseteq closed'
<1>1. CASE InitialConnectionFails
  BY <1>1, FailureCloses DEF InitialConnectionFails
<1>2. ASSUME NEW c \in Conns, BeginReconnecting(c) \/ AttemptFails(c) \/ ResolverFails(c)
                              \/ ReceiveControl(c)
      PROVE UNCHANGED <<csock, token>> /\ closed \subseteq closed'
  BY <1>2, PermanentFailureCloses DEF BeginReconnecting, AttemptFails, ResolverFails,
     ReceiveControl, HandleControl
<1>3. ASSUME NEW c \in Conns, WaitEnds(c) \/ LoopGraceEnds(c) \/ Dispose(c) \/ UpdateGraceTime(c)
      PROVE UNCHANGED <<csock, token>> /\ closed \subseteq closed'
  BY <1>3 DEF WaitEnds, LoopGraceEnds, Dispose, UpdateGraceTime, client, network
<1>4. ASSUME NEW s \in Sockets, \/ ServerReceivesAuth(s) \/ ServerRefuses(s) \/ ServerHandlesExtHost(s)
                                \/ ServerReceivesConnectionType(s)
      PROVE UNCHANGED <<csock, token>> /\ closed \subseteq closed'
  BY <1>4 DEF ServerReceivesAuth, ServerRefuses, ServerHandlesExtHost, ServerReceivesConnectionType,
     Reject, client
<1>5. ASSUME NEW c \in Conns, \/ ExtHostReceives(c) \/ ServerSeesClose(c) \/ GraceExpires(c)
                              \/ ServerReceivesDisconnect(c) \/ ExtHostCrashes(c) \/ ServerSeesExit(c)
                              \/ \E s \in Sockets : SocketDrained(c, s)
      PROVE UNCHANGED <<csock, token>> /\ closed \subseteq closed'
  BY <1>5 DEF ExtHostReceives, Accept, ServerSeesClose, GraceExpires, ServerReceivesDisconnect,
     ExtHostCrashes, CleanResources, ServerSeesExit, SocketDrained, client, network
<1>6. CASE ServerRestarts
  BY <1>6 DEF ServerRestarts, client, TypeOK
<1>7. CASE NetworkNext
  BY <1>7 DEF NetworkNext, Break, LoseTail, DisconnectLost, client
<1>8. CASE UNCHANGED vars
  BY <1>8 DEF vars, client, network
<1> QED BY <1>1, <1>2, <1>3, <1>4, <1>5, <1>6, <1>7, <1>8 DEF Next, ClientNext, ServerNext

\* The server's part of SocketInv, which a new socket does not touch.
ManagementInv == \A c \in Management : alive[c] /\ draining[c] = {} /\ ipc[c] = <<>>
PortInv == \A s \in Sockets : hs[s] = "Port" => token[s] \in ExtHosts

\* Nothing is ever handed over for a management connection.
LEMMA ManagementStep ==
    ASSUME TypeOK, SocketInv, [Next]_vars
    PROVE  ManagementInv'
<1>0. /\ ManagementInv /\ PortInv /\ Management \subseteq Conns
      /\ alive \in [Conns -> BOOLEAN] /\ draining \in [Conns -> SUBSET Sockets]
      /\ ipc \in [Conns -> Seq(Sockets \cup {Reduce})]
  BY RemoteAssumption DEF TypeOK, SocketInv, ManagementInv, PortInv
<1>1. CASE UNCHANGED <<alive, draining, ipc>>
  BY <1>0, <1>1 DEF ManagementInv
<1>2. CASE ClientNext \/ NetworkNext \/ UNCHANGED vars
  <2>1. UNCHANGED server
    BY <1>2 DEF ClientNext, InitialConnectionFails, BeginReconnecting, AttemptFails, ResolverFails,
       ReceiveControl, WaitEnds, LoopGraceEnds, Dispose, UpdateGraceTime, SocketReady, NetworkNext,
       Break, LoseTail, DisconnectLost, vars
  <2> QED BY <1>1, <2>1 DEF server, handoff
<1>3. ASSUME NEW s \in Sockets, ServerReceivesAuth(s) \/ ServerRefuses(s) PROVE ManagementInv'
  BY <1>1, <1>3 DEF ServerReceivesAuth, ServerRefuses, server, handoff
<1>4. ASSUME NEW s \in Sockets, ServerReceivesConnectionType(s) PROVE ManagementInv'
  <2>1. /\ UNCHANGED <<alive, draining>>
        /\ ipc' = [d \in Conns |-> IF d \in ExtHosts THEN Told(d) ELSE ipc[d]]
    BY <1>4 DEF ServerReceivesConnectionType
  <2>2. \A c \in Management : ipc'[c] = ipc[c]
    BY <1>0, <2>1 DEF ExtHosts
  <2> QED BY <1>0, <2>1, <2>2 DEF ManagementInv
<1>5. ASSUME NEW s \in Sockets, ServerHandlesExtHost(s) PROVE ManagementInv'
  <2>1. UNCHANGED <<alive, ipc>> /\ token[s] \in ExtHosts
    BY <1>0, <1>5 DEF ServerHandlesExtHost, PortInv
  <2>2. draining' = draining \/ draining' = [draining EXCEPT ![token[s]] = @ \cup {s}]
    BY <1>5 DEF ServerHandlesExtHost
  <2>3. \A c \in Management : draining'[c] = draining[c]
    BY <1>0, <2>1, <2>2 DEF ExtHosts
  <2> QED BY <1>0, <2>1, <2>3 DEF ManagementInv
<1>6. ASSUME NEW d \in Conns, NEW s \in Sockets, SocketDrained(d, s) PROVE ManagementInv'
  <2>1. d \notin Management
    BY <1>0, <1>6 DEF SocketDrained, ManagementInv
  <2>2. \A c \in Management : draining'[c] = draining[c] /\ ipc'[c] = ipc[c] /\ alive'[c] = alive[c]
    BY <1>0, <1>6, <2>1 DEF SocketDrained
  <2> QED BY <1>0, <2>2 DEF ManagementInv
<1>7. ASSUME NEW d \in Conns, ExtHostReceives(d) PROVE ManagementInv'
  <2>1. d \notin Management
    BY <1>0, <1>7 DEF ExtHostReceives, ManagementInv
  <2>2. \A c \in Management : draining'[c] = draining[c] /\ ipc'[c] = ipc[c] /\ alive'[c] = alive[c]
    BY <1>0, <1>7, <2>1 DEF ExtHostReceives
  <2> QED BY <1>0, <2>2 DEF ManagementInv
<1>8. ASSUME NEW d \in Conns, ServerSeesClose(d) PROVE ManagementInv'
  BY <1>1, <1>8 DEF ServerSeesClose, handoff
<1>9. ASSUME NEW d \in Conns, GraceExpires(d) \/ ServerReceivesDisconnect(d) \/ ExtHostCrashes(d)
      PROVE ManagementInv'
  <2>1. CleanResources(d) /\ UNCHANGED <<draining, ipc>>
    BY <1>9 DEF GraceExpires, ServerReceivesDisconnect, ExtHostCrashes, handoff
  <2>2. \A c \in Management : alive'[c]
    BY <1>0, <2>1 DEF CleanResources, ManagementInv
  <2> QED BY <1>0, <2>1, <2>2 DEF ManagementInv
<1>10. ASSUME NEW d \in Conns, ServerSeesExit(d) PROVE ManagementInv'
  BY <1>0, <1>10 DEF ServerSeesExit, ManagementInv
<1>11. CASE ServerRestarts
  BY <1>0, <1>11 DEF ServerRestarts, ManagementInv
<1> QED BY <1>2, <1>3, <1>4, <1>5, <1>6, <1>7, <1>8, <1>9, <1>10, <1>11 DEF Next, ServerNext

\* Only the sockets of extension hosts wait for a debug port.
LEMMA PortStep ==
    ASSUME TypeOK, SocketInv, [Next]_vars
    PROVE  PortInv'
<1>0. PortInv /\ hs \in [Sockets -> {"none", "WaitingForAuth", "WaitingForConnectionType", "Port"}]
      /\ token \in [Sockets -> Conns]
  BY DEF TypeOK, SocketInv, PortInv
<1>1. ASSUME NEW c \in Conns, NEW s \in Sockets, SocketReady(c, s) PROVE PortInv'
  BY <1>0, <1>1 DEF SocketReady, PortInv
<1>2. CASE \A c \in Conns, s \in Sockets : ~SocketReady(c, s)
  <2>1. token' = token
    BY <1>2, OldSockets
  <2>2. ASSUME NEW s \in Sockets, hs'[s] = "Port" PROVE hs[s] = "Port" \/ token[s] \in ExtHosts
    <3>1. CASE hs' = hs
      BY <2>2, <3>1
    <3>2. ASSUME NEW r \in Sockets, ServerReceivesConnectionType(r)
          PROVE  hs[s] = "Port" \/ token[s] \in ExtHosts
      BY <1>0, <2>2, <3>2 DEF ServerReceivesConnectionType
    <3>3. ASSUME NEW r \in Sockets, ServerReceivesAuth(r) \/ ServerRefuses(r) \/ ServerHandlesExtHost(r)
          PROVE  hs[s] = "Port"
      BY <1>0, <2>2, <3>3 DEF ServerReceivesAuth, ServerRefuses, ServerHandlesExtHost
    <3>4. CASE ServerRestarts
      BY <2>2, <3>4 DEF ServerRestarts
    <3>5. CASE ClientNext \/ NetworkNext \/ UNCHANGED vars
      BY <1>2, <3>1, <3>5 DEF ClientNext, InitialConnectionFails, BeginReconnecting, AttemptFails,
         ResolverFails, ReceiveControl, WaitEnds, LoopGraceEnds, Dispose, UpdateGraceTime, NetworkNext,
         Break, LoseTail, DisconnectLost, vars, network
    <3>6. ASSUME NEW c \in Conns, \/ ExtHostReceives(c) \/ ServerSeesClose(c) \/ GraceExpires(c)
                                  \/ ServerReceivesDisconnect(c) \/ ExtHostCrashes(c) \/ ServerSeesExit(c)
                                  \/ \E r \in Sockets : SocketDrained(c, r)
          PROVE  hs' = hs
      BY <3>6 DEF ExtHostReceives, ServerSeesClose, GraceExpires, ServerReceivesDisconnect,
         ExtHostCrashes, ServerSeesExit, SocketDrained, network
    <3> QED BY <3>1, <3>2, <3>3, <3>4, <3>5, <3>6 DEF Next, ServerNext
  <2> QED BY <1>0, <2>1, <2>2 DEF PortInv
<1> QED BY <1>1, <1>2

\* Every step keeps the sockets of the protocols apart.
LEMMA SocketStep ==
    ASSUME TypeOK, SocketInv, [Next]_vars
    PROVE  SocketInv'
<1>1. /\ \A c, d \in Conns : csock'[c] = csock'[d] => c = d
      /\ \A c \in Conns : token'[csock'[c]] = c
  <2>1. ASSUME NEW c \in Conns, NEW s \in Sockets, SocketReady(c, s)
        PROVE  /\ \A a, b \in Conns : csock'[a] = csock'[b] => a = b
               /\ \A a \in Conns : token'[csock'[a]] = a
    <3>1. csock \in [Conns -> Sockets] /\ token \in [Sockets -> Conns]
      BY DEF TypeOK
    <3>2. /\ csock' = [csock EXCEPT ![c] = s] /\ token' = [token EXCEPT ![s] = c]
          /\ \A d \in Conns : csock[d] # s
      BY <2>1 DEF SocketReady, Free
    <3> QED BY <3>1, <3>2 DEF SocketInv
  <2>2. CASE \A c \in Conns, s \in Sockets : ~SocketReady(c, s)
    BY <2>2, OldSockets DEF SocketInv
  <2> QED BY <2>1, <2>2
<1> QED BY <1>1, ManagementStep, PortStep DEF SocketInv, ManagementInv, PortInv

-----------------------------------------------------------------------------
(* A socket that was taken stays taken, until it is closed.                  *)

\* What is handed over does not get lost when a message is added.
LEMMA InTransitGrows ==
    ASSUME TypeOK, NEW c \in Conns, NEW s, s \in InTransit(c), NEW x \in Sockets \cup {Reduce},
           draining[c] \subseteq draining'[c], ipc'[c] = ipc[c] \/ ipc'[c] = Append(ipc[c], x)
    PROVE  s \in InTransit(c)'
<1>1. ipc[c] \in Seq(Sockets \cup {Reduce})
  BY DEF TypeOK
<1>2. ASSUME NEW i \in DOMAIN ipc[c] PROVE i \in DOMAIN ipc'[c] /\ ipc'[c][i] = ipc[c][i]
  <2>1. CASE ipc'[c] = ipc[c]
    BY <2>1
  <2>2. CASE ipc'[c] = Append(ipc[c], x)
    <3>1. i \in 1..Len(ipc[c]) /\ Len(ipc[c]) \in Nat
      BY <1>1, LenProperties
    <3>2. Append(ipc[c], x)[i] = ipc[c][i] /\ Len(Append(ipc[c], x)) = Len(ipc[c]) + 1
          /\ Append(ipc[c], x) \in Seq(Sockets \cup {Reduce})
      BY <1>1, <3>1, AppendProperties
    <3>3. i \in 1..Len(Append(ipc[c], x))
      BY <3>1, <3>2
    <3>4. i \in DOMAIN Append(ipc[c], x)
      BY <3>2, <3>3, LenProperties
    <3> QED BY <2>2, <3>2, <3>4
  <2> QED BY <2>1, <2>2
<1>3. CASE s \in draining[c]
  BY <1>3 DEF InTransit
<1>4. CASE \E i \in DOMAIN ipc[c] : s = ipc[c][i]
  <2>1. \E i \in DOMAIN ipc'[c] : s = ipc'[c][i]
    BY <1>2, <1>4
  <2> QED BY <2>1 DEF InTransit
<1> QED BY <1>3, <1>4 DEF InTransit

\* The first message is taken from the queue.
LEMMA InTransitShrinks ==
    ASSUME TypeOK, NEW c \in Conns, NEW s, s \in InTransit(c), s # Head(ipc[c]), ipc[c] # <<>>,
           draining'[c] = draining[c], ipc'[c] = Tail(ipc[c])
    PROVE  s \in InTransit(c)'
<1>1. ipc[c] \in Seq(Sockets \cup {Reduce})
  BY DEF TypeOK
<1>2. CASE s \in draining[c]
  BY <1>2 DEF InTransit
<1>3. ASSUME NEW i \in DOMAIN ipc[c], s = ipc[c][i] PROVE s \in InTransit(c)'
  <2>1. i \in 1..Len(ipc[c]) /\ Len(ipc[c]) \in Nat
    BY <1>1, LenProperties
  <2>2. i # 1
    BY <1>1, <1>3
  <2>3. i - 1 \in 1..(Len(ipc[c]) - 1)
    BY <2>1, <2>2
  <2>4. Tail(ipc[c])[i - 1] = ipc[c][i] /\ i - 1 \in DOMAIN Tail(ipc[c])
    BY <1>1, <2>3
  <2> QED BY <1>3, <2>4 DEF InTransit
<1> QED BY <1>2, <1>3 DEF InTransit

\* The server's socket of c, or one in its hands, is still there after the step,
\* or was closed by it, or the extension host process is dead.
LEMMA TakenStays ==
    ASSUME TypeOK, SocketInv, [Next]_vars, NEW c \in Conns, csock'[c] = csock[c],
           csock[c] \in closed => csock[c] \in closed', Taken(c)
    PROVE  Taken(c)'
<1> DEFINE s == csock[c]
<1>0. /\ s \in Sockets /\ s # Reduce /\ Management \subseteq Conns
      /\ alive \in [Conns -> BOOLEAN] /\ registered \in [Conns -> BOOLEAN]
      /\ draining \in [Conns -> SUBSET Sockets] /\ ssock \in [Conns -> Sockets]
      /\ ipc \in [Conns -> Seq(Sockets \cup {Reduce})] /\ token \in [Sockets -> Conns]
      /\ ManagementInv /\ PortInv
  <2>1. s \in Sockets
    BY DEF TypeOK
  <2>2. s # Reduce /\ Management \subseteq Conns
    BY <2>1, RemoteAssumption
  <2>3. ManagementInv /\ PortInv
    BY DEF SocketInv, ManagementInv, PortInv
  <2> QED BY <2>1, <2>2, <2>3 DEF TypeOK
<1> SUFFICES ASSUME s \notin closed'
             PROVE  Served(c, s)' \/ (c \in ExtHosts /\ ~alive'[c])
  BY DEF Taken
<1>1. Served(c, s) \/ (c \in ExtHosts /\ ~alive[c])
  BY DEF Taken
<1>2. CASE UNCHANGED server
  BY <1>1, <1>2 DEF server, handoff, Served, InTransit
<1>3. CASE ClientNext \/ NetworkNext \/ UNCHANGED vars
  BY <1>2, <1>3 DEF ClientNext, InitialConnectionFails, BeginReconnecting, AttemptFails, ResolverFails,
     ReceiveControl, WaitEnds, LoopGraceEnds, Dispose, UpdateGraceTime, SocketReady, NetworkNext,
     Break, LoseTail, DisconnectLost, vars
<1>4. ASSUME NEW r \in Sockets, ServerReceivesAuth(r) \/ ServerRefuses(r)
      PROVE  Served(c, s)' \/ (c \in ExtHosts /\ ~alive'[c])
  BY <1>2, <1>4 DEF ServerReceivesAuth, ServerRefuses
<1>5. ASSUME NEW r \in Sockets, ServerReceivesConnectionType(r)
      PROVE  Served(c, s)' \/ (c \in ExtHosts /\ ~alive'[c])
  <2>1. UNCHANGED <<alive, registered, draining>>
    BY <1>5 DEF ServerReceivesConnectionType
  <2>2. ipc'[c] = ipc[c] \/ ipc'[c] = Append(ipc[c], Reduce)
    BY <1>5 DEF ServerReceivesConnectionType, Told
  <2>3. ssock'[c] = ssock[c] \/ (ssock'[c] = r /\ closed' = closed \cup Replaced(c, r))
    BY <1>0, <1>5 DEF ServerReceivesConnectionType
  <2>4. CASE Served(c, s) /\ ssock[c] = s
    <3>1. ssock'[c] = s
      BY <2>3, <2>4 DEF Replaced
    <3> QED BY <2>1, <2>4, <3>1 DEF Served
  <2>5. CASE Served(c, s) /\ s \in InTransit(c)
    <3>1. s \in InTransit(c)'
      BY <2>1, <2>2, <2>5, InTransitGrows
    <3> QED BY <2>1, <2>5, <3>1 DEF Served
  <2> QED BY <1>1, <2>1, <2>4, <2>5 DEF Served
<1>6. ASSUME NEW r \in Sockets, ServerHandlesExtHost(r)
      PROVE  Served(c, s)' \/ (c \in ExtHosts /\ ~alive'[c])
  <2>1. UNCHANGED <<alive, registered, ssock, ipc>>
    BY <1>6 DEF ServerHandlesExtHost
  <2>2. draining[c] \subseteq draining'[c]
    <3>1. draining' = draining \/ draining' = [draining EXCEPT ![token[r]] = @ \cup {r}]
      BY <1>6 DEF ServerHandlesExtHost
    <3>2. CASE draining' = [draining EXCEPT ![token[r]] = @ \cup {r}]
      <4>1. draining'[c] = IF c = token[r] THEN draining[c] \cup {r} ELSE draining[c]
        BY <1>0, <3>2
      <4> QED BY <4>1
    <3> QED BY <3>1, <3>2
  <2>3. CASE Served(c, s) /\ s \in InTransit(c)
    <3>1. s \in InTransit(c)'
      BY <2>1, <2>2, <2>3, InTransitGrows
    <3> QED BY <2>1, <2>3, <3>1 DEF Served
  <2> QED BY <1>1, <2>1, <2>3 DEF Served
<1>7. ASSUME NEW d \in Conns, NEW r \in Sockets, SocketDrained(d, r)
      PROVE  Served(c, s)' \/ (c \in ExtHosts /\ ~alive'[c])
  <2>1. UNCHANGED <<alive, registered, ssock>>
    BY <1>7 DEF SocketDrained, timers
  <2>2. CASE Served(c, s) /\ s \in InTransit(c)
    <3>1. CASE d # c
      <4>1. draining'[c] = draining[c] /\ ipc'[c] = ipc[c]
        BY <1>0, <1>7, <3>1 DEF SocketDrained
      <4> QED BY <2>1, <2>2, <4>1 DEF Served, InTransit
    <3>2. CASE d = c
      <4>1. draining'[c] = draining[c] \ {r} /\ ipc'[c] = Append(ipc[c], r)
        BY <1>0, <1>7, <2>2, <3>2 DEF SocketDrained, Served
      <4>2. CASE s = r
        <5>1. ipc[c] \in Seq(Sockets \cup {Reduce}) /\ Len(ipc[c]) \in Nat
          BY <1>0, LenProperties
        <5>2. Append(ipc[c], r)[Len(ipc[c]) + 1] = r
              /\ Len(ipc[c]) + 1 \in DOMAIN Append(ipc[c], r)
          BY <5>1
        <5>3. s \in InTransit(c)'
          BY <4>1, <4>2, <5>2 DEF InTransit
        <5> QED BY <2>1, <2>2, <5>3 DEF Served
      <4>3. CASE s # r
        <5>1. CASE s \in draining[c]
          <6>1. s \in InTransit(c)'
            BY <4>1, <4>3, <5>1 DEF InTransit
          <6> QED BY <2>1, <2>2, <6>1 DEF Served
        <5>2. ASSUME NEW i \in DOMAIN ipc[c], s = ipc[c][i] PROVE Served(c, s)'
          <6>1. ipc[c] \in Seq(Sockets \cup {Reduce})
            BY <1>0
          <6>2. Append(ipc[c], r)[i] = ipc[c][i] /\ i \in DOMAIN Append(ipc[c], r)
            BY <6>1
          <6>3. s \in InTransit(c)'
            BY <4>1, <5>2, <6>2 DEF InTransit
          <6> QED BY <2>1, <2>2, <6>3 DEF Served
        <5> QED BY <2>2, <5>1, <5>2 DEF InTransit
      <4> QED BY <4>2, <4>3
    <3> QED BY <3>1, <3>2
  <2> QED BY <1>1, <2>1, <2>2 DEF Served
<1>8. ASSUME NEW d \in Conns, ExtHostReceives(d)
      PROVE  Served(c, s)' \/ (c \in ExtHosts /\ ~alive'[c])
  <2>1. UNCHANGED <<alive, registered, draining>>
    BY <1>8 DEF ExtHostReceives
  <2>2. CASE d # c
    <3>1. ipc'[c] = ipc[c] /\ ssock'[c] = ssock[c]
      BY <1>0, <1>8, <2>2 DEF ExtHostReceives, Accept
    <3> QED BY <1>1, <2>1, <3>1 DEF Served, InTransit
  <2>3. CASE d = c
    <3> DEFINE h == Head(ipc[c])
    <3>1. ipc'[c] = Tail(ipc[c]) /\ ipc[c] # <<>>
      BY <1>0, <1>8, <2>3 DEF ExtHostReceives
    <3>2. \/ ssock'[c] = h /\ closed' = closed \cup Replaced(c, h)
          \/ ssock'[c] = ssock[c] /\ closed' = closed /\ (h \in closed \/ h = Reduce)
      BY <1>0, <1>8, <2>3 DEF ExtHostReceives, Accept
    <3>3. CASE Served(c, s) /\ ssock[c] = s
      <4>1. ssock'[c] = s
        BY <3>2, <3>3 DEF Replaced
      <4> QED BY <2>1, <3>3, <4>1 DEF Served
    <3>4. CASE Served(c, s) /\ s \in InTransit(c) /\ s = h
      <4>1. ssock'[c] = s
        BY <1>0, <3>2, <3>4
      <4> QED BY <2>1, <3>4, <4>1 DEF Served
    <3>5. CASE Served(c, s) /\ s \in InTransit(c) /\ s # h
      <4>1. s \in InTransit(c)'
        BY <2>1, <3>1, <3>5, InTransitShrinks
      <4> QED BY <2>1, <3>5, <4>1 DEF Served
    <3> QED BY <1>1, <2>1, <3>3, <3>4, <3>5 DEF Served
  <2> QED BY <2>2, <2>3
<1>9. ASSUME NEW d \in Conns, ServerSeesClose(d)
      PROVE  Served(c, s)' \/ (c \in ExtHosts /\ ~alive'[c])
  BY <1>1, <1>9 DEF ServerSeesClose, Served, InTransit, handoff
<1>10. ASSUME NEW d \in Conns, GraceExpires(d) \/ ServerReceivesDisconnect(d) \/ ExtHostCrashes(d)
       PROVE Served(c, s)' \/ (c \in ExtHosts /\ ~alive'[c])
  <2>1. CleanResources(d) /\ UNCHANGED <<ssock, draining, ipc>>
    BY <1>10 DEF GraceExpires, ServerReceivesDisconnect, ExtHostCrashes, handoff
  <2>2. CASE d # c
    <3>1. alive'[c] = alive[c] /\ registered'[c] = registered[c]
      BY <1>0, <2>1, <2>2 DEF CleanResources
    <3> QED BY <1>1, <2>1, <3>1 DEF Served, InTransit
  <2>3. CASE d = c /\ c \in ExtHosts
    BY <1>0, <2>1, <2>3 DEF CleanResources, ExtHosts
  <2>4. CASE d = c /\ c \notin ExtHosts
    <3>1. c \in Management
      BY <2>4 DEF ExtHosts
    <3>2. InTransit(c) = {}
      BY <1>0, <3>1 DEF ManagementInv, InTransit
    <3>3. ssock[c] = s
      BY <1>1, <2>4, <3>2 DEF Served
    <3> QED BY <2>1, <2>4, <3>3 DEF CleanResources
  <2> QED BY <2>2, <2>3, <2>4
<1>11. ASSUME NEW d \in Conns, ServerSeesExit(d)
       PROVE Served(c, s)' \/ (c \in ExtHosts /\ ~alive'[c])
  <2>1. CASE d # c
    <3>1. UNCHANGED <<alive, ssock, draining>> /\ ipc'[c] = ipc[c] /\ registered'[c] = registered[c]
      BY <1>0, <1>11, <2>1 DEF ServerSeesExit, timers
    <3> QED BY <1>1, <3>1 DEF Served, InTransit
  <2>2. CASE d = c
    BY <1>1, <1>11, <2>2 DEF ServerSeesExit, Served
  <2> QED BY <2>1, <2>2
<1>12. CASE ServerRestarts
  BY <1>0, <1>12 DEF ServerRestarts
<1> QED BY <1>3, <1>4, <1>5, <1>6, <1>7, <1>8, <1>9, <1>10, <1>11, <1>12 DEF Next, ServerNext

-----------------------------------------------------------------------------
(* The hand-shake.                                                           *)

\* What a step that has nothing to do with the hand-shake on s leaves of it: a
\* socket that stays open has its messages, one that is closed may lose them.
SocketKept(s) ==
    /\ toClient'[s] \in {toClient[s], <<>>}
    /\ s \notin closed' =>
        /\ s \notin closed /\ hs'[s] = hs[s]
        /\ toServer'[s] = toServer[s] /\ toClient'[s] = toClient[s]

\* A step that leaves the hand-shake of c alone.
LEMMA HandShakeKept ==
    ASSUME TypeOK, SocketInv, [Next]_vars, NEW c \in Conns, HandShakeOf(c),
           csock'[c] = csock[c], phase'[c] = phase[c],
           csock[c] \in closed => csock[c] \in closed',
           phase[c] \in {"auth", "confirm"} => buffered'[c] = buffered[c] /\ SocketKept(csock[c])
    PROVE  HandShakeOf(c)'
<1>1. Taken(c) => Taken(c)'
  BY TakenStays
<1>2. registered'[c] => registered[c]
  BY Monotone
<1>3. Over(c) => Over(c)'
  BY Monotone DEF Over
<1>4. AuthInv(c)'
  BY DEF HandShakeOf, AuthInv, AuthOpen, SocketKept
<1>5. ConfirmInv(c)'
  <2> SUFFICES ASSUME phase[c] = "confirm" PROVE ConfirmInv(c)'
    BY DEF ConfirmInv
  <2> DEFINE s == csock[c]
  <2>1. /\ toClient[s] \in {<<>>, <<"refused">>, <<"unknown">>, <<"ok">>}
        /\ s \notin closed => ConfirmOpen(s)
        /\ toClient[s] = <<"unknown">> => ~registered[c]
        /\ toClient[s] = <<"ok">> => Taken(c)
    BY DEF HandShakeOf, ConfirmInv
  <2>2. SocketKept(s)
    OBVIOUS
  <2>3. toClient'[s] \in {<<>>, <<"refused">>, <<"unknown">>, <<"ok">>}
    BY <2>1, <2>2 DEF SocketKept
  <2>4. s \notin closed' => ConfirmOpen(s)'
    BY <2>1, <2>2 DEF SocketKept, ConfirmOpen
  <2>5. <<>> # <<"unknown">> /\ <<>> # <<"ok">>
    OBVIOUS
  <2>6. toClient'[s] = <<"unknown">> => ~registered'[c]
    BY <1>2, <2>1, <2>2, <2>5 DEF SocketKept
  <2>7. toClient'[s] = <<"ok">> => Taken(c)'
    BY <1>1, <2>1, <2>2, <2>5 DEF SocketKept
  <2> QED BY <2>3, <2>4, <2>6, <2>7 DEF ConfirmInv
<1>6. phase'[c] \in {"auth", "confirm"} => buffered'[c] = <<>>
  BY DEF HandShakeOf
<1>7. phase'[c] = "idle" /\ ~Over(c)' => Taken(c)'
  BY <1>1, <1>3 DEF HandShakeOf
<1> QED BY <1>4, <1>5, <1>6, <1>7 DEF HandShakeOf

\* The loop of c is not, or no longer, in a hand-shake.
LEMMA HandShakeLeft ==
    ASSUME NEW c \in Conns, phase'[c] \notin {"auth", "confirm"},
           phase'[c] = "idle" => Over(c)' \/ Taken(c)'
    PROVE  HandShakeOf(c)'
BY DEF HandShakeOf, AuthInv, ConfirmInv

\* What a listener is given next.
LEMMA NextIsAnswer ==
    ASSUME TypeOK, NEW c \in Conns, HandShakeOf(c), phase[c] \in {"auth", "confirm"},
           buffered[c] \o toClient[csock[c]] # <<>>
    PROVE  /\ buffered[c] = <<>> /\ toClient[csock[c]] = <<NextControl(c)>>
           /\ phase[c] = "auth" => NextControl(c) \in {"sign", "refused"}
           /\ phase[c] = "confirm" => NextControl(c) \in {"refused", "unknown", "ok"}
<1> DEFINE q == toClient[csock[c]]
<1>1. buffered[c] = <<>> /\ q \in Seq(Control)
  BY DEF HandShakeOf, TypeOK
<1>2. buffered[c] \o q = q
  BY <1>1
<1>3. q # <<>> /\ NextControl(c) = Head(q)
  BY <1>2 DEF NextControl
<1>4. phase[c] = "auth" => q \in {<<"sign">>, <<"refused">>}
  BY <1>3 DEF HandShakeOf, AuthInv
<1>5. phase[c] = "confirm" => q \in {<<"refused">>, <<"unknown">>, <<"ok">>}
  BY <1>3 DEF HandShakeOf, ConfirmInv
<1>6. \A x : Head(<<x>>) = x
  OBVIOUS
<1> HIDE DEF q
<1>7. q = <<NextControl(c)>>
  BY <1>3, <1>4, <1>5, <1>6
<1>8. CASE phase[c] = "auth"
  <2>1. NextControl(c) = "sign" \/ NextControl(c) = "refused"
    BY <1>3, <1>4, <1>6, <1>8
  <2> QED BY <1>1, <1>7, <1>8, <2>1 DEF q
<1>9. CASE phase[c] = "confirm"
  <2>1. NextControl(c) = "refused" \/ NextControl(c) = "unknown" \/ NextControl(c) = "ok"
    BY <1>3, <1>5, <1>6, <1>9
  <2> QED BY <1>1, <1>7, <1>9, <2>1 DEF q
<1> QED BY <1>8, <1>9

\* The failure of a set of connections says goodbye only on sockets it closes.
LEMMA FailureKeeps ==
    ASSUME TypeOK, NEW F \in SUBSET Conns, GotoPermanentFailure(F), NEW s \in Sockets, s \notin closed'
    PROVE  s \notin closed /\ toServer'[s] = toServer[s]
<1>1. s \notin closed /\ \A c \in F : csock[c] # s
  BY DEF GotoPermanentFailure
<1> QED BY <1>1 DEF GotoPermanentFailure

\* At most one message waits during a hand-shake.
LEMMA AtMostOne ==
    ASSUME NEW c \in Conns, HandShakeOf(c), phase[c] \in {"auth", "confirm"}
    PROVE  Len(toClient[csock[c]]) <= 1
<1>1. \E x : toClient[csock[c]] \in {<<>>, <<x>>}
  BY DEF HandShakeOf, AuthInv, ConfirmInv
<1>2. Len(<<>>) <= 1 /\ \A x : Len(<<x>>) <= 1
  OBVIOUS
<1> QED BY <1>1, <1>2

\* A beginning of at most one message is that message or nothing.
LEMMA ShortPrefix ==
    ASSUME NEW S, NEW q \in Seq(S), Len(q) <= 1, NEW n \in Int, 0 <= n, n <= Len(q)
    PROVE  SubSeq(q, 1, n) \in {q, <<>>}
<1>1. CASE n = 0
  <2>1. SubSeq(q, 1, 0) = <<>>
    OBVIOUS
  <2> QED BY <1>1, <2>1
<1>2. CASE n # 0
  <2>0. Len(q) \in Nat
    BY LenProperties
  <2>1. n = 1 /\ Len(q) = 1
    BY <1>2, <2>0
  <2>2. SubSeq(q, 1, 1) = q
    BY <2>1
  <2> QED BY <2>1, <2>2
<1> QED BY <1>1, <1>2

\* The client's steps outside the hand-shake.
LEMMA LoopHandShake ==
    ASSUME TypeOK, SocketInv, HandShakeInv, [Next]_vars, NEW d \in Conns,
           \/ BeginReconnecting(d) \/ WaitEnds(d) \/ LoopGraceEnds(d) \/ AttemptFails(d)
           \/ ResolverFails(d) \/ Dispose(d) \/ UpdateGraceTime(d)
    PROVE  HandShakeInv'
<1>0. /\ csock \in [Conns -> Sockets] /\ phase \in [Conns -> Phases]
      /\ toServer \in [Sockets -> Seq(Control)] /\ disposed \in [Conns -> BOOLEAN]
      /\ cause \in [Conns -> Causes]
  BY DEF TypeOK, Phases, Causes
<1>1. UNCHANGED <<csock, buffered, hs, toClient>> /\ closed \subseteq closed'
  <2>1. closed \subseteq closed'
    BY PermanentFailureCloses DEF BeginReconnecting, WaitEnds, LoopGraceEnds, AttemptFails,
       ResolverFails, Dispose, UpdateGraceTime, network
  <2> QED BY <2>1 DEF BeginReconnecting, WaitEnds, LoopGraceEnds, AttemptFails, ResolverFails,
       Dispose, UpdateGraceTime, client, network
<1>2. ASSUME NEW s \in Sockets, s \notin closed' PROVE toServer'[s] = toServer[s]
  <2>1. CASE toServer' = toServer
    BY <2>1
  <2>2. ASSUME NEW why, OnReconnectionPermanentFailure(d, why) PROVE toServer'[s] = toServer[s]
    BY <1>2, <2>2, FailureKeeps, TakenDownSets DEF OnReconnectionPermanentFailure, FailsWith
  <2>3. CASE Dispose(d)
    BY <1>0, <1>2, <2>3 DEF Dispose, Written
  <2> QED BY <2>1, <2>2, <2>3 DEF BeginReconnecting, WaitEnds, LoopGraceEnds, AttemptFails,
       ResolverFails, UpdateGraceTime, network
<1>3. ASSUME NEW s \in Sockets PROVE SocketKept(s)
  BY <1>1, <1>2 DEF SocketKept
<1>4. ASSUME NEW c \in Conns, phase'[c] = phase[c] PROVE HandShakeOf(c)'
  <2>1. SocketKept(csock[c]) /\ HandShakeOf(c)
    BY <1>0, <1>3 DEF HandShakeInv
  <2> QED BY <1>1, <1>4, <2>1, HandShakeKept
<1>5. ASSUME NEW c \in Conns, phase'[c] # phase[c] PROVE HandShakeOf(c)'
  <2>1. ASSUME NEW why, why # "none", OnReconnectionPermanentFailure(d, why) PROVE HandShakeOf(c)'
    <3>1. c = d /\ phase'[c] = "idle" /\ cause'[c] = why
      BY <1>0, <1>5, <2>1 DEF OnReconnectionPermanentFailure, FailsWith
    <3>2. Over(c)'
      BY <2>1, <3>1 DEF Over
    <3> QED BY <3>1, <3>2, HandShakeLeft
  <2>2. CASE BeginReconnecting(d) /\ phase' = [phase EXCEPT ![d] = "resolving"]
    <3>1. phase'[c] = "resolving"
      BY <1>0, <1>5, <2>2
    <3> QED BY <3>1, HandShakeLeft
  <2>3. CASE WaitEnds(d)
    <3>1. CASE failed
      <4>1. phase'[c] = "idle" /\ failed'
        BY <1>0, <1>5, <2>3, <3>1 DEF WaitEnds
      <4>2. Over(c)'
        BY <4>1 DEF Over
      <4> QED BY <4>1, <4>2, HandShakeLeft
    <3>2. CASE ~failed
      <4>1. phase'[c] = "resolving"
        BY <1>0, <1>5, <2>3, <3>2 DEF WaitEnds
      <4> QED BY <4>1, HandShakeLeft
    <3> QED BY <3>1, <3>2
  <2>4. CASE AttemptFails(d) /\ ~OnReconnectionPermanentFailure(d, "late")
    <3>1. /\ IF failed \/ disposed[d] THEN phase' = [phase EXCEPT ![d] = "idle"]
                                      ELSE phase' = [phase EXCEPT ![d] = "waiting"]
          /\ UNCHANGED <<failed, disposed>>
      BY <2>4 DEF AttemptFails
    <3>2. c = d
      BY <1>0, <1>5, <3>1
    <3>3. CASE failed \/ disposed[d]
      <4>1. phase'[c] = "idle"
        BY <1>0, <3>1, <3>2, <3>3
      <4>2. Over(c)'
        BY <3>1, <3>2, <3>3, <4>1 DEF Over
      <4> QED BY <4>1, <4>2, HandShakeLeft
    <3>4. CASE ~(failed \/ disposed[d])
      <4>1. phase'[c] = "waiting"
        BY <1>0, <3>1, <3>2, <3>4
      <4> QED BY <4>1, HandShakeLeft
    <3> QED BY <3>3, <3>4
  <2>5. CASE LoopGraceEnds(d) \/ Dispose(d) \/ UpdateGraceTime(d)
    BY <1>5, <2>5 DEF LoopGraceEnds, Dispose, UpdateGraceTime
  <2>6. CASE ResolverFails(d)
    BY <2>1, <2>6 DEF ResolverFails
  <2>7. CASE BeginReconnecting(d) /\ OnReconnectionPermanentFailure(d, "graceless")
    BY <2>1, <2>7
  <2>8. CASE OnReconnectionPermanentFailure(d, "late")
    BY <2>1, <2>8
  <2> QED BY <2>2, <2>3, <2>4, <2>5, <2>6, <2>7, <2>8 DEF BeginReconnecting
<1> QED BY <1>4, <1>5 DEF HandShakeInv

\* A new socket begins a new hand-shake.
LEMMA SocketReadyHandShake ==
    ASSUME TypeOK, SocketInv, HandShakeInv, [Next]_vars, NEW d \in Conns, NEW s \in Sockets,
           SocketReady(d, s)
    PROVE  HandShakeInv'
<1>0. /\ csock \in [Conns -> Sockets] /\ phase \in [Conns -> Phases]
      /\ buffered \in [Conns -> Seq(Control)] /\ hs \in [Sockets -> {"none", "WaitingForAuth", "WaitingForConnectionType", "Port"}]
      /\ toServer \in [Sockets -> Seq(Control)] /\ toClient \in [Sockets -> Seq(Control)]
  BY DEF TypeOK, Phases
<1>1. ASSUME NEW c \in Conns, c # d PROVE HandShakeOf(c)'
  <2>1. csock[c] # s /\ csock'[c] = csock[c] /\ phase'[c] = phase[c] /\ buffered'[c] = buffered[c]
    BY <1>0, <1>1 DEF SocketReady, Free
  <2>2. closed' = (closed \cup {csock[d]}) \ {s}
    BY DEF SocketReady
  <2>3. csock[c] \in closed => csock[c] \in closed'
    BY <2>1, <2>2
  <2>4. SocketKept(csock[c])
    <3>1. /\ hs'[csock[c]] = hs[csock[c]] /\ toServer'[csock[c]] = toServer[csock[c]]
          /\ toClient'[csock[c]] = toClient[csock[c]]
      BY <1>0, <2>1 DEF SocketReady
    <3> QED BY <2>1, <2>2, <3>1 DEF SocketKept
  <2>5. HandShakeOf(c)
    BY DEF HandShakeInv
  <2> QED BY <2>1, <2>3, <2>4, <2>5, HandShakeKept
<1>2. HandShakeOf(d)'
  <2>1. /\ csock'[d] = s /\ phase'[d] = "auth" /\ buffered'[d] = <<>>
        /\ hs'[s] = "WaitingForAuth" /\ toServer'[s] = <<"auth">> /\ toClient'[s] = <<>>
    BY <1>0 DEF SocketReady, FlushBuffer
  <2>2. AuthInv(d)' /\ ConfirmInv(d)'
    BY <2>1 DEF AuthInv, AuthOpen, ConfirmInv
  <2> QED BY <2>1, <2>2 DEF HandShakeOf
<1> QED BY <1>1, <1>2 DEF HandShakeInv

\* What is the case when a control message is handled.
LEMMA ControlHandShake ==
    ASSUME TypeOK, SocketInv, HandShakeInv, [Next]_vars, NEW d \in Conns, ReceiveControl(d)
    PROVE  HandShakeInv'
<1> DEFINE s == csock[d]
           m == NextControl(d)
<1>0. /\ csock \in [Conns -> Sockets] /\ phase \in [Conns -> Phases]
      /\ buffered \in [Conns -> Seq(Control)]
      /\ toServer \in [Sockets -> Seq(Control)] /\ toClient \in [Sockets -> Seq(Control)]
      /\ disposed \in [Conns -> BOOLEAN] /\ s \in Sockets /\ HandShakeOf(d)
  BY DEF TypeOK, Phases, HandShakeInv
<1>1. UNCHANGED <<csock, hs>> /\ closed \subseteq closed'
  BY PermanentFailureCloses DEF ReceiveControl, HandleControl
<1>2. ASSUME NEW c \in Conns, c # d PROVE HandShakeOf(c)'
  <2> DEFINE r == csock[c]
  <2>1. r \in Sockets /\ r # s
    BY <1>0, <1>2 DEF SocketInv
  <2>2. phase'[c] = phase[c]
    BY <1>0, <1>2 DEF ReceiveControl, HandleControl, OnReconnectionPermanentFailure, FailsWith
  <2>3. buffered'[c] = buffered[c] /\ toClient'[r] = toClient[r]
    BY <1>0, <1>2, <2>1 DEF ReceiveControl
  <2>4. ASSUME r \notin closed' PROVE toServer'[r] = toServer[r]
    <3>1. CASE toServer' = toServer
      BY <3>1
    <3>2. CASE toServer' = Written(toServer, s, "connectionType")
      BY <1>0, <2>1, <3>2 DEF Written
    <3>3. ASSUME NEW why, OnReconnectionPermanentFailure(d, why) PROVE toServer'[r] = toServer[r]
      BY <2>1, <2>4, <3>3, FailureKeeps, TakenDownSets DEF OnReconnectionPermanentFailure, FailsWith
    <3> QED BY <3>1, <3>2, <3>3 DEF ReceiveControl, HandleControl
  <2>5. SocketKept(r)
    BY <1>1, <2>3, <2>4 DEF SocketKept
  <2>6. HandShakeOf(c)
    BY DEF HandShakeInv
  <2> QED BY <1>1, <2>2, <2>3, <2>5, <2>6, HandShakeKept
<1>3. HandShakeOf(d)'
  <2>1. CASE phase[d] \notin {"auth", "confirm"}
    <3>1. phase'[d] = phase[d]
      BY <1>0, <2>1 DEF ReceiveControl
    <3> QED BY <1>0, <1>1, <2>1, <3>1, HandShakeKept
  <2>2. CASE phase[d] \in {"auth", "confirm"}
    <3>1. HandleControl(d, m) /\ buffered[d] \o toClient[s] # <<>>
      BY <2>2 DEF ReceiveControl
    <3>2. /\ buffered[d] = <<>> /\ toClient[s] = <<m>>
          /\ phase[d] = "auth" => m \in {"sign", "refused"}
          /\ phase[d] = "confirm" => m \in {"refused", "unknown", "ok"}
      BY <1>0, <2>2, <3>1, NextIsAnswer
    <3>3. toClient' = [toClient EXCEPT ![s] = Tail(@)] /\ buffered' = buffered
      BY <2>2, <3>2 DEF ReceiveControl
    <3> HIDE DEF m
    <3>4. toClient'[s] = <<>>
      <4>1. Tail(<<m>>) = <<>>
        OBVIOUS
      <4> QED BY <1>0, <3>2, <3>3, <4>1
    <3>5. CASE /\ phase[d] = "auth" /\ phase' = [phase EXCEPT ![d] = "confirm"]
               /\ toServer' = Written(toServer, s, "connectionType") /\ closed' = closed
      <4>1. phase'[d] = "confirm"
        BY <1>0, <3>5
      <4>2. ASSUME s \notin closed PROVE ConfirmOpen(s)'
        <5>1. AuthOpen(s)
          BY <1>0, <3>5, <4>2 DEF HandShakeOf, AuthInv
        <5>2. <<m>> # <<>>
          OBVIOUS
        <5>3. hs[s] = "WaitingForConnectionType" /\ toServer[s] = <<>>
          BY <3>2, <5>1, <5>2 DEF AuthOpen
        <5>4. toServer'[s] = Append(toServer[s], "connectionType")
          BY <1>0, <3>5, <4>2 DEF Written
        <5>5. Append(<<>>, "connectionType") = <<"connectionType">>
          OBVIOUS
        <5> QED BY <1>1, <3>4, <5>3, <5>4, <5>5 DEF ConfirmOpen
      <4>3. ConfirmInv(d)' /\ AuthInv(d)'
        BY <1>1, <3>4, <3>5, <4>1, <4>2 DEF ConfirmInv, AuthInv
      <4> QED BY <3>2, <3>3, <4>1, <4>3 DEF HandShakeOf
    <3>6. CASE /\ phase[d] = "confirm" /\ ~IsError(m) /\ phase' = [phase EXCEPT ![d] = "idle"]
      <4>1. m = "ok" /\ toClient[s] = <<"ok">>
        BY <3>2, <3>6 DEF IsError
      <4>2. Taken(d)
        BY <1>0, <3>6, <4>1 DEF HandShakeOf, ConfirmInv
      <4>3. Taken(d)'
        BY <1>1, <4>2, TakenStays
      <4>4. phase'[d] = "idle"
        BY <1>0, <3>6
      <4> QED BY <4>3, <4>4, HandShakeLeft
    <3>7. CASE OnReconnectionPermanentFailure(d, IF m = "refused" THEN "refused" ELSE "rejected")
      <4>1. phase'[d] = "idle" /\ cause'[d] # "none"
        BY <1>0, <3>7 DEF OnReconnectionPermanentFailure, FailsWith
      <4>2. Over(d)'
        BY <4>1 DEF Over
      <4> QED BY <4>1, <4>2, HandShakeLeft
    <3> QED BY <3>1, <3>5, <3>6, <3>7 DEF HandleControl
  <2> QED BY <2>1, <2>2
<1> QED BY <1>2, <1>3 DEF HandShakeInv

\* The server answers on one socket.  Whoever else is in a hand-shake has another
\* one, and on a closed socket nothing is written.
LEMMA AnswerHandShake ==
    ASSUME TypeOK, SocketInv, HandShakeInv, [Next]_vars, NEW r \in Sockets, NEW m,
           UNCHANGED <<phase, csock, buffered>>, closed \subseteq closed',
           toServer' = [toServer EXCEPT ![r] = Tail(@)] \/ toServer' = toServer,
           toClient' = Written(toClient, r, m) \/ toClient' = toClient,
           \A s \in Sockets : s # r => hs'[s] = hs[s],
           \A c \in Conns : csock[c] = r /\ r \notin closed /\ phase[c] \in {"auth", "confirm"} =>
                AuthInv(c)' /\ ConfirmInv(c)'
    PROVE  HandShakeInv'
<1>0. /\ csock \in [Conns -> Sockets] /\ toServer \in [Sockets -> Seq(Control)]
      /\ toClient \in [Sockets -> Seq(Control)]
  BY DEF TypeOK
<1>1. ASSUME NEW c \in Conns PROVE HandShakeOf(c)'
  <2>1. HandShakeOf(c)
    BY DEF HandShakeInv
  <2>2. CASE csock[c] # r
    <3>1. SocketKept(csock[c])
      BY <1>0, <2>2 DEF SocketKept, Written
    <3> QED BY <2>1, <3>1, HandShakeKept
  <2>3. CASE csock[c] = r /\ r \in closed
    <3>1. SocketKept(csock[c])
      BY <2>3 DEF SocketKept, Written
    <3> QED BY <2>1, <3>1, HandShakeKept
  <2>4. CASE phase[c] \notin {"auth", "confirm"}
    BY <2>1, <2>4, HandShakeKept
  <2>5. CASE csock[c] = r /\ r \notin closed /\ phase[c] \in {"auth", "confirm"}
    <3>1. AuthInv(c)' /\ ConfirmInv(c)'
      BY <2>5
    <3>2. buffered'[c] = <<>>
      BY <2>1, <2>5 DEF HandShakeOf
    <3>3. phase'[c] # "idle"
      BY <2>5
    <3> QED BY <3>1, <3>2, <3>3 DEF HandShakeOf
  <2> QED BY <2>2, <2>3, <2>4, <2>5
<1> QED BY <1>1 DEF HandShakeInv

\* Writing the first message on an open socket.
LEMMA FirstWritten ==
    ASSUME TypeOK, NEW r \in Sockets, r \notin closed, toClient[r] = <<>>, NEW m \in Control,
           toClient' = Written(toClient, r, m)
    PROVE  toClient'[r] = <<m>>
<1>1. toClient'[r] = Append(toClient[r], m)
  BY DEF Written, TypeOK
<1>2. Append(<<>>, m) = <<m>>
  OBVIOUS
<1> QED BY <1>1, <1>2

\* The answer to auth.
LEMMA AuthHandShake ==
    ASSUME TypeOK, SocketInv, HandShakeInv, [Next]_vars, NEW r \in Sockets, ServerReceivesAuth(r)
    PROVE  HandShakeInv'
<1>0. /\ hs \in [Sockets -> {"none", "WaitingForAuth", "WaitingForConnectionType", "Port"}]
      /\ toServer \in [Sockets -> Seq(Control)] /\ "sign" \in Control
  BY DEF TypeOK, Control
<1>1. /\ UNCHANGED <<phase, csock, buffered, closed>> /\ hs[r] = "WaitingForAuth"
      /\ hs' = [hs EXCEPT ![r] = "WaitingForConnectionType"]
      /\ toServer' = [toServer EXCEPT ![r] = Tail(@)] /\ toClient' = Written(toClient, r, "sign")
  BY DEF ServerReceivesAuth, loop, client
<1>2. ASSUME NEW c \in Conns, csock[c] = r, r \notin closed, phase[c] \in {"auth", "confirm"}
      PROVE  AuthInv(c)' /\ ConfirmInv(c)'
  <2>1. HandShakeOf(c)
    BY DEF HandShakeInv
  <2>2. phase[c] = "auth" /\ AuthOpen(r)
    BY <1>1, <1>2, <2>1 DEF HandShakeOf, AuthInv, ConfirmInv, ConfirmOpen
  <2>3. toServer[r] = <<"auth">> /\ toClient[r] = <<>>
    BY <1>1, <2>2 DEF AuthOpen
  <2>4. toServer'[r] = <<>>
    <3>1. Tail(<<"auth">>) = <<>>
      OBVIOUS
    <3> QED BY <1>0, <1>1, <2>3, <3>1
  <2>5. toClient'[r] = <<"sign">>
    BY <1>0, <1>1, <1>2, <2>3, FirstWritten
  <2>6. hs'[r] = "WaitingForConnectionType"
    BY <1>0, <1>1
  <2> QED BY <1>1, <1>2, <2>2, <2>4, <2>5, <2>6 DEF AuthInv, AuthOpen, ConfirmInv
<1>3. \A s \in Sockets : s # r => hs'[s] = hs[s]
  BY <1>0, <1>1
<1> QED BY <1>1, <1>2, <1>3, AnswerHandShake

\* The server refuses the client, whichever message it is at.
LEMMA RefusedHandShake ==
    ASSUME TypeOK, SocketInv, HandShakeInv, [Next]_vars, NEW r \in Sockets, ServerRefuses(r)
    PROVE  HandShakeInv'
<1>0. /\ hs \in [Sockets -> {"none", "WaitingForAuth", "WaitingForConnectionType", "Port"}]
      /\ toServer \in [Sockets -> Seq(Control)] /\ "refused" \in Control
  BY DEF TypeOK, Control
<1>1. /\ UNCHANGED <<phase, csock, buffered>> /\ closed' = closed \cup {r}
      /\ hs[r] \in {"WaitingForAuth", "WaitingForConnectionType"} /\ toServer[r] # <<>>
      /\ hs' = [hs EXCEPT ![r] = "none"]
      /\ toServer' = [toServer EXCEPT ![r] = Tail(@)] /\ toClient' = Written(toClient, r, "refused")
  BY DEF ServerRefuses, Reject, loop, client
<1>2. ASSUME NEW c \in Conns, csock[c] = r, r \notin closed, phase[c] \in {"auth", "confirm"}
      PROVE  AuthInv(c)' /\ ConfirmInv(c)'
  <2>1. HandShakeOf(c)
    BY DEF HandShakeInv
  <2>2. toClient[r] = <<>>
    BY <1>1, <1>2, <2>1 DEF HandShakeOf, AuthInv, AuthOpen, ConfirmInv, ConfirmOpen
  <2>3. toClient'[r] = <<"refused">>
    BY <1>0, <1>1, <1>2, <2>2, FirstWritten
  <2>4. <<"refused">> # <<"unknown">> /\ <<"refused">> # <<"ok">>
    OBVIOUS
  <2> QED BY <1>1, <1>2, <2>3, <2>4 DEF AuthInv, ConfirmInv
<1>3. \A s \in Sockets : s # r => hs'[s] = hs[s]
  BY <1>0, <1>1
<1> QED BY <1>1, <1>2, <1>3, AnswerHandShake

\* The answer to connectionType: the connection is taken, is unknown, or
\* waits for the debug port.
LEMMA TypeHandShake ==
    ASSUME TypeOK, SocketInv, HandShakeInv, [Next]_vars, NEW r \in Sockets,
           ServerReceivesConnectionType(r)
    PROVE  HandShakeInv'
<1>0. /\ hs \in [Sockets -> {"none", "WaitingForAuth", "WaitingForConnectionType", "Port"}]
      /\ toServer \in [Sockets -> Seq(Control)] /\ "unknown" \in Control /\ "ok" \in Control
      /\ ssock \in [Conns -> Sockets] /\ token[r] \in Conns
  BY DEF TypeOK, Control
<1>1. /\ UNCHANGED <<phase, csock, buffered, registered, alive>> /\ closed \subseteq closed'
      /\ hs[r] = "WaitingForConnectionType" /\ toServer[r] # <<>>
      /\ toServer' = [toServer EXCEPT ![r] = Tail(@)]
      /\ \A s \in Sockets : s # r => hs'[s] = hs[s]
  BY <1>0 DEF ServerReceivesConnectionType, Reject, loop, client
<1>2. ASSUME NEW c \in Conns, csock[c] = r, r \notin closed, phase[c] \in {"auth", "confirm"}
      PROVE  AuthInv(c)' /\ ConfirmInv(c)'
  <2>1. HandShakeOf(c) /\ token[r] = c
    BY <1>2 DEF HandShakeInv, SocketInv
  <2>2. phase[c] = "confirm" /\ toServer[r] = <<"connectionType">> /\ toClient[r] = <<>>
    BY <1>1, <1>2, <2>1 DEF HandShakeOf, AuthInv, AuthOpen, ConfirmInv, ConfirmOpen
  <2>3. toServer'[r] = <<>>
    <3>1. Tail(<<"connectionType">>) = <<>>
      OBVIOUS
    <3> QED BY <1>0, <1>1, <2>2, <3>1
  <2>4. CASE ~Known(c) /\ Reject(r, "unknown")
    <3>1. toClient'[r] = <<"unknown">>
      BY <1>0, <1>2, <2>2, <2>4, FirstWritten DEF Reject
    <3>2. r \in closed' /\ ~registered'[c]
      BY <1>1, <2>4 DEF Reject, Known
    <3>3. <<"unknown">> # <<"ok">>
      OBVIOUS
    <3> QED BY <1>1, <1>2, <2>2, <3>1, <3>2, <3>3 DEF AuthInv, ConfirmInv
  <2>5. CASE /\ c \in Management /\ Known(c) /\ toClient' = Written(toClient, r, "ok")
             /\ ssock' = [ssock EXCEPT ![c] = r] /\ closed' = closed \cup Replaced(c, r)
             /\ hs' = [hs EXCEPT ![r] = "none"]
    <3>1. toClient'[r] = <<"ok">>
      BY <1>0, <1>2, <2>2, <2>5, FirstWritten
    <3>2. hs'[r] = "none"
      BY <1>0, <2>5
    <3>3. ConfirmOpen(r)'
      BY <2>3, <3>1, <3>2 DEF ConfirmOpen
    <3>4. Taken(c)'
      <4>1. alive'[c] /\ registered'[c] /\ ssock'[c] = r
        BY <1>0, <1>1, <2>5 DEF SocketInv, Known
      <4> QED BY <1>1, <1>2, <4>1 DEF Taken, Served
    <3>5. <<"ok">> # <<"unknown">>
      OBVIOUS
    <3> QED BY <1>1, <1>2, <2>2, <3>1, <3>3, <3>4, <3>5 DEF AuthInv, ConfirmInv
  <2>6. CASE hs' = [hs EXCEPT ![r] = "Port"] /\ UNCHANGED <<toClient, closed>>
    <3>1. ConfirmOpen(r)' /\ toClient'[r] = <<>>
      BY <1>0, <2>2, <2>3, <2>6 DEF ConfirmOpen
    <3>2. <<>> # <<"unknown">> /\ <<>> # <<"ok">>
      OBVIOUS
    <3> QED BY <1>1, <1>2, <2>2, <3>1, <3>2 DEF AuthInv, ConfirmInv
  <2> QED BY <2>1, <2>4, <2>5, <2>6 DEF ServerReceivesConnectionType
<1>3. \/ toClient' = Written(toClient, r, "unknown")
      \/ toClient' = Written(toClient, r, "ok")
      \/ toClient' = toClient
  BY DEF ServerReceivesConnectionType, Reject
<1> QED BY <1>1, <1>2, <1>3, AnswerHandShake

\* The rest of the answer for an extension host: its socket is on the way to
\* the process, or the connection is unknown.
LEMMA ExtHostHandShake ==
    ASSUME TypeOK, SocketInv, HandShakeInv, [Next]_vars, NEW r \in Sockets, ServerHandlesExtHost(r)
    PROVE  HandShakeInv'
<1>0. /\ hs \in [Sockets -> {"none", "WaitingForAuth", "WaitingForConnectionType", "Port"}]
      /\ "unknown" \in Control /\ "ok" \in Control
      /\ draining \in [Conns -> SUBSET Sockets] /\ token[r] \in ExtHosts
  BY DEF TypeOK, Control, SocketInv, ServerHandlesExtHost
<1>1. /\ UNCHANGED <<phase, csock, buffered, registered, alive, ssock, ipc, toServer>>
      /\ closed \subseteq closed' /\ hs[r] = "Port" /\ hs' = [hs EXCEPT ![r] = "none"]
  BY <1>0 DEF ServerHandlesExtHost, Reject, loop, client
<1>2. ASSUME NEW c \in Conns, csock[c] = r, r \notin closed, phase[c] \in {"auth", "confirm"}
      PROVE  AuthInv(c)' /\ ConfirmInv(c)'
  <2>1. HandShakeOf(c) /\ token[r] = c
    BY <1>2 DEF HandShakeInv, SocketInv
  <2>2. phase[c] = "confirm" /\ toServer[r] = <<>> /\ toClient[r] = <<>>
    BY <1>1, <1>2, <2>1 DEF HandShakeOf, AuthInv, AuthOpen, ConfirmInv, ConfirmOpen
  <2>3. CASE ~Known(c) /\ Reject(r, "unknown")
    <3>1. toClient'[r] = <<"unknown">>
      BY <1>0, <1>2, <2>2, <2>3, FirstWritten DEF Reject
    <3>2. r \in closed' /\ ~registered'[c]
      BY <1>1, <2>3 DEF Reject, Known
    <3>3. <<"unknown">> # <<"ok">>
      OBVIOUS
    <3> QED BY <1>1, <1>2, <2>2, <3>1, <3>2, <3>3 DEF AuthInv, ConfirmInv
  <2>4. CASE /\ Known(c) /\ toClient' = Written(toClient, r, "ok") /\ closed' = closed
             /\ draining' = [draining EXCEPT ![c] = @ \cup {r}]
    <3>1. toClient'[r] = <<"ok">>
      BY <1>0, <1>2, <2>2, <2>4, FirstWritten
    <3>2. hs'[r] = "none"
      BY <1>0, <1>1
    <3>3. ConfirmOpen(r)'
      BY <1>1, <2>2, <3>1, <3>2 DEF ConfirmOpen
    <3>4. Taken(c)'
      <4>1. r \in InTransit(c)'
        <5>1. r \in draining'[c]
          BY <1>0, <2>4
        <5> QED BY <5>1 DEF InTransit
      <4>2. registered'[c] /\ c \in ExtHosts
        BY <1>0, <1>1, <2>1, <2>4 DEF Known
      <4> QED BY <1>1, <1>2, <4>1, <4>2 DEF Taken, Served
    <3>5. <<"ok">> # <<"unknown">>
      OBVIOUS
    <3> QED BY <1>1, <1>2, <2>2, <3>1, <3>3, <3>4, <3>5 DEF AuthInv, ConfirmInv
  <2> QED BY <2>1, <2>3, <2>4 DEF ServerHandlesExtHost
<1>3. toClient' = Written(toClient, r, "unknown") \/ toClient' = Written(toClient, r, "ok")
  BY DEF ServerHandlesExtHost, Reject
<1>4. \A s \in Sockets : s # r => hs'[s] = hs[s]
  BY <1>0, <1>1
<1> QED BY <1>1, <1>2, <1>3, <1>4, AnswerHandShake

\* The other steps of the server, those of the network and the failure of a
\* further connection leave every hand-shake on an open socket alone.
LEMMA OtherHandShake ==
    ASSUME TypeOK, SocketInv, HandShakeInv, [Next]_vars,
           UNCHANGED <<phase, csock, buffered>>, closed \subseteq closed',
           \A c \in Conns : phase[c] \in {"auth", "confirm"} => SocketKept(csock[c])
    PROVE  HandShakeInv'
<1>1. ASSUME NEW c \in Conns PROVE HandShakeOf(c)'
  <2>1. HandShakeOf(c)
    BY DEF HandShakeInv
  <2> QED BY <2>1, HandShakeKept
<1> QED BY <1>1 DEF HandShakeInv

\* The steps of the network.
LEMMA NetworkHandShake ==
    ASSUME TypeOK, SocketInv, HandShakeInv, NetworkNext
    PROVE  HandShakeInv'
<1>1. PICK r \in Sockets : Break(r) \/ LoseTail(r) \/ DisconnectLost(r)
  BY DEF NetworkNext
<1>2. UNCHANGED <<phase, csock, buffered, hs>> /\ closed \subseteq closed' /\ [Next]_vars
  BY <1>1 DEF Break, LoseTail, DisconnectLost, loop, client, Next
<1>3. ASSUME NEW c \in Conns, phase[c] \in {"auth", "confirm"} PROVE SocketKept(csock[c])
  <2> DEFINE s == csock[c]
  <2>0. /\ s \in Sockets /\ toServer \in [Sockets -> Seq(Control)]
        /\ toClient \in [Sockets -> Seq(Control)] /\ HandShakeOf(c)
    BY DEF TypeOK, HandShakeInv
  <2>1. CASE s # r
    <3>1. toServer'[s] = toServer[s] /\ toClient'[s] = toClient[s]
      BY <1>1, <2>0, <2>1 DEF Break, LoseTail, DisconnectLost
    <3> QED BY <1>2, <3>1 DEF SocketKept
  <2>2. CASE s = r /\ (Break(r) \/ LoseTail(r))
    <3>1. s \in closed'
      BY <2>2 DEF Break, LoseTail
    <3>2. \/ toClient'[s] = toClient[s]
          \/ \E n \in Int : 0 <= n /\ n <= Len(toClient[s]) /\ toClient'[s] = SubSeq(toClient[s], 1, n)
      <4>0. toClient[s] \in Seq(Control) /\ Len(toClient[s]) \in Nat
        BY <2>0, LenProperties
      <4>1. CASE Break(r)
        <5>1. PICK j \in 0..Len(toClient[r]) : toClient' = [toClient EXCEPT ![r] = SubSeq(@, 1, j)]
          BY <4>1 DEF Break
        <5>2. j \in Int /\ 0 <= j /\ j <= Len(toClient[s]) /\ toClient'[s] = SubSeq(toClient[s], 1, j)
          BY <2>0, <2>2, <4>0, <5>1
        <5> QED BY <5>2
      <4>2. CASE toClient[r] # <<>> /\ toClient' = [toClient EXCEPT ![r] = SubSeq(@, 1, Len(@) - 1)]
        <5> DEFINE n == Len(toClient[s]) - 1
        <5>1. toClient'[s] = SubSeq(toClient[s], 1, n)
          BY <2>0, <2>2, <4>2
        <5>2. Len(toClient[s]) # 0
          BY <2>2, <4>0, <4>2, EmptySeq
        <5>3. n \in Int /\ 0 <= n /\ n <= Len(toClient[s])
          BY <4>0, <5>2
        <5> QED BY <5>1, <5>3
      <4> QED BY <2>2, <4>1, <4>2 DEF LoseTail
    <3>3. toClient'[s] \in {toClient[s], <<>>}
      <4>1. Len(toClient[s]) <= 1 /\ toClient[s] \in Seq(Control)
        BY <1>3, <2>0, AtMostOne
      <4> QED BY <3>2, <4>1, ShortPrefix
    <3> QED BY <3>1, <3>3 DEF SocketKept
  <2>3. CASE s = r /\ DisconnectLost(r)
    <3>1. toClient' = toClient /\ closed' = closed
      BY <2>3 DEF DisconnectLost
    <3>2. s \in closed
      <4>1. toServer[s] # <<>> /\ Head(toServer[s]) = "disconnect"
        BY <2>3 DEF DisconnectLost
      <4>2. toServer[s] # <<"auth">> /\ toServer[s] # <<"connectionType">>
        <5>1. Head(<<"auth">>) = "auth" /\ Head(<<"connectionType">>) = "connectionType"
          OBVIOUS
        <5> QED BY <4>1, <5>1
      <4> QED BY <1>3, <2>0, <4>1, <4>2 DEF HandShakeOf, AuthInv, AuthOpen, ConfirmInv, ConfirmOpen
    <3> QED BY <3>1, <3>2 DEF SocketKept
  <2> QED BY <1>1, <2>1, <2>2, <2>3
<1> QED BY <1>2, <1>3, OtherHandShake

\* The steps of the server's connections.
LEMMA ConnectionHandShake ==
    ASSUME TypeOK, SocketInv, HandShakeInv, [Next]_vars, NEW d \in Conns,
           \/ ExtHostReceives(d) \/ ServerSeesClose(d) \/ GraceExpires(d)
           \/ ServerReceivesDisconnect(d) \/ ExtHostCrashes(d) \/ ServerSeesExit(d)
           \/ \E s \in Sockets : SocketDrained(d, s)
    PROVE  HandShakeInv'
<1>1. UNCHANGED <<phase, csock, buffered, hs, toClient>> /\ closed \subseteq closed'
  BY DEF ExtHostReceives, Accept, ServerSeesClose, GraceExpires, ServerReceivesDisconnect,
     ExtHostCrashes, CleanResources, ServerSeesExit, SocketDrained, loop, client, network
<1>2. toServer' = toServer \/ (/\ toServer' = [toServer EXCEPT ![ssock[d]] = Tail(@)]
                               /\ ssock[d] \in closed')
  BY DEF ExtHostReceives, ServerSeesClose, GraceExpires, ServerReceivesDisconnect,
     ExtHostCrashes, CleanResources, ServerSeesExit, SocketDrained, network
<1>3. \A s \in Sockets : s \notin closed' => toServer'[s] = toServer[s]
  BY <1>2 DEF TypeOK
<1>4. \A c \in Conns : SocketKept(csock[c])
  BY <1>1, <1>3 DEF SocketKept, TypeOK
<1> QED BY <1>1, <1>4, OtherHandShake

\* A further connection that fails takes the window's connections down.
LEMMA InitialHandShake ==
    ASSUME TypeOK, SocketInv, HandShakeInv, [Next]_vars, InitialConnectionFails
    PROVE  HandShakeInv'
<1>1. UNCHANGED <<phase, csock, buffered, hs, toClient>> /\ closed \subseteq closed'
  BY FailureCloses DEF InitialConnectionFails
<1>2. PICK F \in SUBSET Conns : GotoPermanentFailure(F)
  BY ReachedSets DEF InitialConnectionFails
<1>3. \A s \in Sockets : s \notin closed' => toServer'[s] = toServer[s]
  BY <1>1, <1>2, FailureKeeps
<1>4. \A c \in Conns : SocketKept(csock[c])
  BY <1>1, <1>3 DEF SocketKept, TypeOK
<1> QED BY <1>1, <1>4, OtherHandShake

\* Every step keeps the two ends of every hand-shake together.
LEMMA HandShakeStep ==
    ASSUME TypeOK, SocketInv, HandShakeInv, [Next]_vars
    PROVE  HandShakeInv'
<1>1. CASE ServerRestarts
  <2>1. UNCHANGED <<phase, csock, buffered, toClient>> /\ closed' = Sockets
    BY <1>1 DEF ServerRestarts, loop, client
  <2>2. closed \subseteq closed' /\ \A c \in Conns : SocketKept(csock[c])
    BY <2>1 DEF TypeOK, SocketKept
  <2> QED BY <2>1, <2>2, OtherHandShake
<1>2. CASE UNCHANGED vars
  <2>1. UNCHANGED <<phase, csock, buffered, hs, toServer, toClient, closed>>
    BY <1>2 DEF vars, loop, client, network
  <2>2. \A c \in Conns : SocketKept(csock[c])
    BY <2>1 DEF SocketKept
  <2> QED BY <2>1, <2>2, OtherHandShake
<1>3. CASE ClientNext
  BY <1>3, LoopHandShake, ControlHandShake, SocketReadyHandShake, InitialHandShake DEF ClientNext
<1>4. CASE ServerNext
  BY <1>1, <1>4, AuthHandShake, TypeHandShake, ExtHostHandShake, RefusedHandShake,
     ConnectionHandShake DEF ServerNext
<1>5. CASE NetworkNext
  BY <1>5, NetworkHandShake
<1> QED BY <1>2, <1>3, <1>4, <1>5 DEF Next

-----------------------------------------------------------------------------
(* What the hand-shake is for.                                               *)

\* A connection fails as rejected only by an answer to the attempt under way.
LEMMA RejectedStep ==
    ASSUME TypeOK, HandShakeInv, RejectedOnlyWhenForgotten, [Next]_vars
    PROVE  RejectedOnlyWhenForgotten'
<1> SUFFICES ASSUME NEW d \in Conns, cause'[d] = "rejected" PROVE ~registered'[d]
  BY DEF RejectedOnlyWhenForgotten
<1>0. cause \in [Conns -> Causes] /\ (registered'[d] => registered[d])
  BY Monotone DEF TypeOK, Causes
<1>1. CASE cause[d] = "rejected"
  BY <1>0, <1>1 DEF RejectedOnlyWhenForgotten
<1>2. CASE cause' = cause
  BY <1>1, <1>2
<1>3. ASSUME NEW c \in Conns, NEW why, why # "rejected", OnReconnectionPermanentFailure(c, why)
      PROVE  cause'[d] = cause[d]
  <2>1. cause'[d] = why \/ cause'[d] = "fatal" \/ cause'[d] = cause[d]
    BY <1>3 DEF OnReconnectionPermanentFailure, FailsWith
  <2> QED BY <1>3, <2>1
<1>4. ASSUME NEW c \in Conns, BeginReconnecting(c) \/ AttemptFails(c) \/ ResolverFails(c)
      PROVE  ~registered'[d]
  <2>1. \/ UNCHANGED cause
        \/ OnReconnectionPermanentFailure(c, "graceless") \/ OnReconnectionPermanentFailure(c, "late")
        \/ OnReconnectionPermanentFailure(c, "resolver")
    BY <1>4 DEF BeginReconnecting, AttemptFails, ResolverFails
  <2>2. cause'[d] = cause[d]
    BY <1>3, <2>1
  <2> QED BY <1>1, <2>2
<1>5. ASSUME NEW c \in Conns, ReceiveControl(c) PROVE ~registered'[d]
  <2> DEFINE m == NextControl(c)
  <2>1. CASE OnReconnectionPermanentFailure(c, "refused")
    <3>1. cause'[d] = cause[d]
      BY <1>3, <2>1
    <3> QED BY <1>1, <3>1
  <2>2. CASE /\ phase[c] \in {"auth", "confirm"} /\ buffered[c] \o toClient[csock[c]] # <<>>
             /\ m # "refused" /\ OnReconnectionPermanentFailure(c, "rejected")
             /\ IF phase[c] = "auth" THEN m # "sign" ELSE IsError(m)
    <3>1. HandShakeOf(c)
      BY DEF HandShakeInv
    <3>2. phase[c] = "confirm" /\ m = "unknown" /\ toClient[csock[c]] = <<m>>
      BY <2>2, <3>1, NextIsAnswer DEF IsError
    <3>3. ~registered[c]
      BY <3>1, <3>2 DEF HandShakeOf, ConfirmInv
    <3>4. d = c \/ cause'[d] = cause[d]
      <4>1. d # c => cause'[d] = "fatal" \/ cause'[d] = cause[d]
        BY <2>2 DEF OnReconnectionPermanentFailure, FailsWith
      <4> QED BY <4>1
    <3> QED BY <1>0, <1>1, <3>3, <3>4
  <2> QED BY <1>2, <1>5, <2>1, <2>2 DEF ReceiveControl, HandleControl
<1>6. CASE InitialConnectionFails
  <2>1. cause'[d] = "fatal" \/ cause'[d] = cause[d]
    BY <1>6 DEF InitialConnectionFails
  <2> QED BY <1>1, <2>1
<1>7. ASSUME NEW c \in Conns, \/ WaitEnds(c) \/ LoopGraceEnds(c) \/ Dispose(c) \/ UpdateGraceTime(c)
                              \/ \E s \in Sockets : SocketReady(c, s)
      PROVE  cause' = cause
  BY <1>7 DEF WaitEnds, LoopGraceEnds, Dispose, UpdateGraceTime, SocketReady
<1>8. CASE ServerNext \/ NetworkNext \/ UNCHANGED vars
  <2>1. UNCHANGED loop
    BY <1>8 DEF ServerNext, NetworkNext, ServerReceivesAuth, ServerRefuses,
       ServerReceivesConnectionType, ServerHandlesExtHost, ExtHostReceives, ServerSeesClose,
       GraceExpires, ServerReceivesDisconnect, ExtHostCrashes, ServerSeesExit, SocketDrained,
       ServerRestarts, Break, LoseTail, DisconnectLost, vars
  <2> QED BY <1>2, <2>1 DEF loop
<1> QED BY <1>2, <1>4, <1>5, <1>6, <1>7, <1>8 DEF Next, ClientNext

\* Initially every connection has its own socket, and is served on it.
LEMMA RemoteInitially == Init => RemoteInv
<1> SUFFICES ASSUME Init PROVE RemoteInv
  OBVIOUS
<1>1. TypeOK
  BY TypesInitially
<1>2. LoopInv /\ FailureInv
  BY DEF Init, LoopInv, LoopInvOf, FailureInv, AtMostOneOverlooked, Overlooked
<1>3. SocketInv
  <2>1. \A c, d \in Conns : csock[c] = csock[d] => c = d
    BY RemoteAssumption DEF Init
  <2>2. ASSUME NEW c \in Conns PROVE token[csock[c]] = c
    <3> DEFINE P(a) == (\E d \in Conns : FirstSocket[d] = FirstSocket[c]) => FirstSocket[a] = FirstSocket[c]
    <3>1. token[csock[c]] = CHOOSE a \in Conns : P(a)
      BY RemoteAssumption DEF Init
    <3>2. P(c)
      OBVIOUS
    <3>3. token[csock[c]] \in Conns /\ P(token[csock[c]])
      <4> HIDE DEF P
      <4> QED BY <3>1, <3>2
    <3>4. FirstSocket[token[csock[c]]] = FirstSocket[c]
      BY <3>3
    <3> QED BY <3>3, <3>4, RemoteAssumption
  <2>3. \A c \in Management : alive[c] /\ draining[c] = {} /\ ipc[c] = <<>>
    BY RemoteAssumption DEF Init
  <2>4. \A s \in Sockets : hs[s] # "Port"
    BY DEF Init
  <2> QED BY <2>1, <2>2, <2>3, <2>4 DEF SocketInv
<1>4. HandShakeInv
  BY DEF Init, HandShakeInv, HandShakeOf, AuthInv, ConfirmInv, Taken, Served
<1>5. RejectedOnlyWhenForgotten
  BY DEF Init, RejectedOnlyWhenForgotten
<1> QED BY <1>1, <1>2, <1>3, <1>4, <1>5 DEF RemoteInv

\* The inductive invariant of the connections: the types, the loops and their
\* events, who has which socket, and how far every hand-shake is on both ends.
THEOREM RemoteInvariance == Spec => []RemoteInv
<1>1. Init => RemoteInv
  BY RemoteInitially
<1>2. RemoteInv /\ [Next]_vars => RemoteInv'
  BY TypesStep, LoopStep, FailureStep, SocketStep, HandShakeStep, RejectedStep DEF RemoteInv
<1> QED BY <1>1, <1>2, PTL DEF Spec

\* A client that gives up because its reconnection token is unknown is right:
\* the answer is to the attempt under way, and the server has forgotten it.
THEOREM RejectionsAreRight == Spec => []RejectedOnlyWhenForgotten
<1>1. RemoteInv => RejectedOnlyWhenForgotten
  BY DEF RemoteInv
<1> QED BY <1>1, RemoteInvariance, PTL

\* A client at rest on an open socket is served there: by the server's
\* connection, or by an extension host to which the socket is on its way,
\* unless that process has just died.
THEOREM EndsAgree == Spec => []Agreement
<1>1. RemoteInv => Agreement
  <2> SUFFICES ASSUME RemoteInv, NEW c \in Conns, phase[c] = "idle", ~Over(c), csock[c] \notin closed
               PROVE  /\ c \in Management => Served(c, csock[c])
                      /\ c \notin Management => Served(c, csock[c]) \/ ~alive[c]
    BY DEF Agreement
  <2>1. Served(c, csock[c]) \/ (c \in ExtHosts /\ ~alive[c])
    BY DEF RemoteInv, HandShakeInv, HandShakeOf, Taken
  <2> QED BY <2>1 DEF ExtHosts
<1> QED BY <1>1, RemoteInvariance, PTL

=============================================================================
