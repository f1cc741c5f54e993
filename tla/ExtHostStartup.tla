--------------------------- MODULE ExtHostStartup ---------------------------
(***************************************************************************)
(* How the sockets of one client get to its extension host process: the    *)
(* server's ExtensionHostConnection, which forks the process and sends it  *)
(* sockets, and the process, which asks for its first socket and accepts   *)
(* every further one as a reconnection.  The client may lose its           *)
(* connection and come back before the process is forked, before it has    *)
(* asked, or later.  Sockets are numbered in the order they are accepted.   *)
(* The case that the platform can send sockets to a process is modelled.    *)
(***************************************************************************)
EXTENDS Naturals, Sequences

CONSTANTS None,
          MaxSockets,   \* bound: sockets the client opens
          MaxFaults,    \* bound: connections that break, also undetected
          MaxReduces    \* bound: other clients that connect

ASSUME StartupAssumption ==
    MaxSockets \in Nat \ {0} /\ {MaxFaults, MaxReduces} \subseteq Nat /\ None \notin Nat

Sockets == 1..MaxSockets

VARIABLES
  \* network: "new", "up", "lost" (nobody on our side noticed yet) or "closed"
    link,
    client,       \* the socket the client uses, None while it has none
    faults,
  \* ExtensionHostConnection
    starting,     \* start() awaits the environment of the process
    connectionData, process, disposed,
    listening,    \* messageListener waits for VSCODE_EXTHOST_IPC_READY
    draining,     \* sockets _sendSocketToExtensionHost is draining
  \* between the two processes, and the grace times that were to be reduced
    toHost, ready, reduces,
  \* the extension host process
    host,         \* "none", "booting", "asked" or "dead"
    current,      \* the socket of its protocol
    graceTime, shortGraceTime   \* disconnectRunner1 and 2 are scheduled

net == <<link, client, faults>>
connection == <<starting, connectionData, process, disposed, listening, draining>>
hostVars == <<host, current, graceTime, shortGraceTime>>
vars == <<net, connection, toHost, ready, reduces, hostVars>>

Init ==
    /\ link = [s \in Sockets |-> IF s = 1 THEN "up" ELSE "new"]
    /\ client = 1 /\ faults = 0
    /\ starting = TRUE /\ connectionData = 1 /\ process = FALSE /\ disposed = FALSE
    /\ listening = FALSE /\ draining = {}
    /\ toHost = <<>> /\ ready = FALSE /\ reduces = 0
    /\ host = "none" /\ current = None /\ graceTime = FALSE /\ shortGraceTime = FALSE
-----------------------------------------------------------------------------
(* The client and the network.                                               *)

\* A connection breaks; the client notices, the other side not yet.
Break ==
    /\ client # None /\ faults < MaxFaults
    /\ link[client] = "up"
    /\ faults' = faults + 1
    /\ link' = [link EXCEPT ![client] = "lost"]
    /\ client' = None
    /\ UNCHANGED <<connection, toHost, ready, reduces, hostVars>>

\* The socket is on its way to the process, or will be sent when it asks.
Underway(s) ==
    \/ s = connectionData
    \/ s \in draining
    \/ \E i \in DOMAIN toHost : toHost[i].type = "socket" /\ toHost[i].socket = s

\* Nobody answers on the client's socket, or it was closed: the client leaves it.
Unanswered ==
    /\ client # None /\ client # current /\ ~Underway(client)
    /\ link' = [link EXCEPT ![client] = IF @ = "up" THEN "lost" ELSE @]
    /\ client' = None
    /\ UNCHANGED <<faults, connection, toHost, ready, reduces, hostVars>>

Started == process

\* "The extension host didn't even start up yet"
NotStarted == ~process

\* acceptReconnection of a new socket; the server knows the token until the
\* connection is disposed.
AcceptReconnection(s) ==
    /\ client = None /\ ~disposed
    /\ link[s] = "new" /\ \A t \in Sockets : t < s => link[t] # "new"
    /\ link' = [link EXCEPT ![s] = "up"]
    /\ client' = s
    /\ IF NotStarted
       THEN connectionData' = s /\ UNCHANGED draining
       ELSE draining' = draining \cup {s} /\ UNCHANGED connectionData
    /\ UNCHANGED <<faults, starting, process, disposed, listening, toHost, ready, reduces,
                   hostVars>>
-----------------------------------------------------------------------------
(* ExtensionHostConnection.                                                  *)

\* _cleanResources
CleanResources ==
    /\ disposed' = TRUE
    /\ link' = IF connectionData # None
               THEN [link EXCEPT ![connectionData] = "closed"] ELSE link
    /\ connectionData' = None
    /\ process' = FALSE

\* start() forks the process, and listens to it.
Fork ==
    /\ starting /\ ~disposed
    /\ starting' = FALSE /\ process' = TRUE /\ listening' = TRUE
    /\ host' = "booting"
    /\ UNCHANGED <<net, connectionData, disposed, draining, toHost, ready, reduces, current,
                   graceTime, shortGraceTime>>

\* start() fails before the process is there.
StartFails ==
    /\ starting /\ ~disposed /\ faults < MaxFaults
    /\ faults' = faults + 1
    /\ starting' = FALSE
    /\ CleanResources
    /\ UNCHANGED <<client, listening, draining, toHost, ready, reduces, hostVars>>

KeptData == connectionData

\* The connection data is handed over: "this._connectionData = null".
DataAfterReady == None

\* messageListener: the first socket is sent.  (When the process has gone the
\* listener throws, and changes nothing.)
HandleReady ==
    /\ ready /\ listening /\ process
    /\ ready' = FALSE /\ listening' = FALSE
    /\ draining' = draining \cup {connectionData}
    /\ connectionData' = DataAfterReady
    /\ UNCHANGED <<net, starting, process, disposed, toHost, hostVars, reduces>>

\* _sendSocketToExtensionHost, once the socket is drained: a socket that is
\* closed by then cannot be sent, and the message comes without it.
Drained(s) ==
    /\ s \in draining
    /\ draining' = draining \ {s}
    /\ toHost' = IF process
                 THEN Append(toHost, [type |-> "socket", socket |-> s,
                                      handle |-> link[s] # "closed"])
                 ELSE toHost
    /\ UNCHANGED <<net, starting, connectionData, process, disposed, listening, ready, reduces,
                   hostVars>>

\* shortenReconnectionGraceTimeIfNecessary, when another client connects: the
\* server does not know whether the process has lost its client.
ReduceGraceTime ==
    /\ process /\ reduces < MaxReduces
    /\ reduces' = reduces + 1
    /\ toHost' = Append(toHost, [type |-> "reduce", socket |-> 0, handle |-> FALSE])
    /\ UNCHANGED <<net, connection, ready, hostVars>>

\* 'exit' of the process.
HandleExit ==
    /\ host = "dead" /\ process
    /\ CleanResources
    /\ UNCHANGED <<client, faults, starting, listening, draining, toHost, ready, reduces, hostVars>>

\* 'error' of the process, which is killed.
HandleError ==
    /\ process /\ faults < MaxFaults
    /\ faults' = faults + 1
    /\ CleanResources
    /\ host' = "dead"
    /\ UNCHANGED <<client, starting, listening, draining, toHost, ready, reduces, current,
                   graceTime, shortGraceTime>>
-----------------------------------------------------------------------------
(* The extension host process.                                               *)

\* It has installed its listener and asks for the socket.
Ask ==
    /\ host = "booting"
    /\ host' = "asked" /\ ready' = TRUE
    /\ UNCHANGED <<net, connection, toHost, current, graceTime, shortGraceTime, reduces>>

\* VSCODE_EXTHOST_IPC_SOCKET.  The first socket makes the protocol; a later one is a
\* reconnection, and beginAcceptReconnection disposes the socket before.  Without its socket the message is an error.  What
\* is sent before the process listens is kept by the runtime until it does.
HandleSocket ==
    /\ host = "asked" /\ toHost # <<>> /\ Head(toHost).type = "socket"
    /\ toHost' = Tail(toHost)
    /\ IF Head(toHost).handle
       THEN /\ current' = Head(toHost).socket
            /\ link' = IF current = None THEN link ELSE [link EXCEPT ![current] = "closed"]
            /\ graceTime' = FALSE /\ shortGraceTime' = FALSE
       ELSE UNCHANGED <<current, link, graceTime, shortGraceTime>>
    /\ UNCHANGED <<client, faults, connection, ready, reduces, host>>

NotChecked == TRUE

\* "we are disconnected and running the long reconnection timer"
Disconnected == graceTime

\* VSCODE_EXTHOST_IPC_REDUCE_GRACE_TIME, which may come to a connected process, in
\* front of a socket or behind one.
HandleReduce ==
    /\ host = "asked" /\ toHost # <<>> /\ Head(toHost).type = "reduce"
    /\ toHost' = Tail(toHost)
    /\ shortGraceTime' = (shortGraceTime \/ Disconnected)
    /\ UNCHANGED <<net, connection, ready, reduces, host, current, graceTime>>

\* onSocketClose is about the socket the protocol has now.
IsCurrent(s) == s = current

\* A lost connection is noticed by the process that has the socket; nobody has it
\* while it is on its way.
NoticeClose(s) ==
    /\ link[s] = "lost"
    /\ \A i \in DOMAIN toHost : toHost[i].socket # s
    /\ link' = [link EXCEPT ![s] = "closed"]
    /\ graceTime' = (graceTime \/ (host = "asked" /\ current # None /\ IsCurrent(s)))
    /\ UNCHANGED <<client, faults, connection, toHost, ready, reduces, host, current,
                   shortGraceTime>>

\* No socket came for a minute, or the grace time is over: the process exits.  It
\* may also crash.
Terminate ==
    /\ \/ /\ host = "asked"
          /\ current = None \/ graceTime \/ shortGraceTime
          /\ UNCHANGED faults
       \/ /\ host \in {"booting", "asked"} /\ faults < MaxFaults
          /\ faults' = faults + 1
    /\ host' = "dead"
    /\ UNCHANGED <<link, client, connection, toHost, ready, reduces, current,
                   graceTime, shortGraceTime>>
-----------------------------------------------------------------------------
HandOver == HandleReady \/ HandleSocket \/ HandleReduce \/ \E s \in Sockets : Drained(s)

Reconnect == Unanswered \/ \E s \in Sockets : AcceptReconnection(s)

Next ==
    \/ Break \/ Reconnect \/ Fork \/ StartFails \/ Ask \/ HandOver
    \/ ReduceGraceTime \/ Terminate \/ HandleExit \/ HandleError
    \/ \E s \in Sockets : NoticeClose(s)

Spec == Init /\ [][Next]_vars

\* Processes start, messages are handled and sockets drain; the client retries.
FairSpec ==
    /\ Spec
    /\ WF_vars(Fork) /\ WF_vars(Ask) /\ WF_vars(HandleReady)
    /\ WF_vars(HandleSocket) /\ WF_vars(HandleReduce) /\ WF_vars(HandleExit)
    /\ \A s \in Sockets : WF_vars(Drained(s))
    /\ WF_vars(Reconnect)
-----------------------------------------------------------------------------
Messages ==
    [type : {"socket"}, socket : Sockets, handle : BOOLEAN]
        \cup [type : {"reduce"}, socket : {0}, handle : {FALSE}]

\* Type invariant: until it is disposed the server has a process once it does not
\* start any more, listens while the process has not asked, and keeps the first
\* socket until then; a disposed connection keeps nothing.
TypeOK ==
    /\ link \in [Sockets -> {"new", "up", "lost", "closed"}]
    /\ client \in Sockets \cup {None} /\ current \in Sockets \cup {None}
    /\ connectionData \in Sockets \cup {None} /\ draining \subseteq Sockets
    /\ {starting, process, disposed, listening, ready, graceTime, shortGraceTime} \subseteq BOOLEAN
    /\ faults \in 0..MaxFaults /\ reduces \in 0..MaxReduces
    /\ toHost \in Seq(Messages)
    /\ host \in {"none", "booting", "asked", "dead"}
    /\ disposed => connectionData = None /\ ~process
    /\ ~disposed => (connectionData # None <=> (starting \/ listening))
    /\ process => ~starting
    /\ ~process /\ ~disposed => starting

\* The sockets on the way to the process.
SocketsIn(q) == {q[i].socket : i \in DOMAIN q}
Sent == SocketsIn(toHost)

\* No socket is sent twice.
Distinct(q) ==
    \A i, j \in DOMAIN q : i # j /\ q[i].type = "socket" => q[i].socket # q[j].socket

\* A socket has one owner: it waits in the server, is drained, is on its way or
\* is used by the process, and never two of these, so that _cleanResources does
\* not end a socket that the process uses and no socket is accepted twice.  A
\* socket that was not accepted yet has none.
OneOwner ==
    /\ connectionData \notin draining \cup Sent
    /\ connectionData # None => connectionData # current
    /\ Distinct(toHost)
    /\ Sent \cap (draining \cup {current}) = {}
    /\ current \notin draining
    /\ \A s \in Sockets :
          link[s] = "new" => s \notin draining \cup Sent \cup {connectionData, current, client}

\* The process is not going to exit while the socket it has is connected: neither
\* the close of an older socket, nor a grace time reduced for another client before,
\* behind or between the sockets sent to it, is left over.
NoGraceWhileConnected ==
    (graceTime \/ shortGraceTime) /\ current # None => link[current] = "closed"

\* Whenever the client comes back, also between the fork and the first request of
\* the process, where an older socket replaces a newer one, it is served in the
\* end, unless the connection is disposed or the process has gone.
ClientServed ==
    []<>(disposed \/ host = "dead" \/ (client # None /\ client = current))
=============================================================================
