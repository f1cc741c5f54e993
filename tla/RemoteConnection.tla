--------------------------- MODULE RemoteConnection ---------------------------
(***************************************************************************)
(* How a window keeps its remote connections alive.  On the client, the    *)
(* instances of class PersistentConnection                                 *)
(* (src/src/vs/platform/remote/common/remoteAgentConnection.ts): one       *)
(* management connection and the extension host connections, each with a   *)
(* reconnecting loop.  On the server, the hand-shake of                    *)
(* remoteExtensionHostAgentServer.ts, the grace timers of                  *)
(* remoteExtensionManagement.ts and, for extension hosts, the hand-off of  *)
(* the socket to a child process (extensionHostConnection.ts and           *)
(* extensionHostProcess.ts).                                               *)
(*                                                                         *)
(* Only control messages are on the wire here; the module                  *)
(* PersistentProtocol has the regular ones.  All connections are           *)
(* established initially and an extension host has asked for its socket.   *)
(***************************************************************************)
EXTENDS Naturals, Sequences

CONSTANTS
    Conns,        \* connections (reconnection tokens) of the window
    Management,   \* the one whose failure is fatal: _reconnectionFailureIsFatal
    Sockets,      \* socket names, recycled; bounds the sockets alive at once
    FirstSocket,  \* the socket each connection starts with
    MaxFaults     \* bound: faults of the environment, see Fault

\* The message to an extension host process that is not a socket.
Reduce == "VSCODE_EXTHOST_IPC_REDUCE_GRACE_TIME"

ASSUME RemoteAssumption ==
    /\ Conns # {} /\ Management \subseteq Conns /\ Reduce \notin Sockets
    /\ \A c, d \in Management : c = d
    /\ FirstSocket \in [Conns -> Sockets]
    /\ \A c, d \in Conns : FirstSocket[c] = FirstSocket[d] => c = d
    /\ MaxFaults \in Nat

ExtHosts == Conns \ Management

VARIABLES
    phase,      \* where _runReconnectingLoop is; idle: ~_isReconnecting
    late,       \* the loop has run for longer than the grace time
    graceless,  \* _reconnectionGraceTime is 0
    failed,     \* static PersistentConnection._permanentFailure
    disposed,   \* _isDisposed
    event,      \* the last event fired on onDidStateChange
    cause,      \* history: why the connection failed permanently
    csock,      \* the client protocol's _socket
    attached,   \* the client protocol reads that socket: it is not disposed
    buffered,   \* control messages kept by the protocol's BufferedEmitter
    registered, \* server: _managementConnections / _extHostConnections has the token
    alive,      \* the extension host process runs (always for Management)
    ssock,      \* the _socket of the protocol that serves the connection
    runner1,    \* disconnectRunner1 (grace time) is scheduled
    runner2,    \* disconnectRunner2 (short grace time) is scheduled
    draining,   \* sockets in _sendSocketToExtensionHost, waiting for drain()
    ipc,        \* messages on their way to the extension host process
    hs,         \* hs[s]: state of _handleWebSocketConnection for socket s
    token,      \* token[s]: the reconnection token in the query of s
    toServer,   \* control messages in flight on s to the server
    toClient,   \* control messages in flight on s to the client
    closed,     \* sockets that accept no more writes
    faults      \* how much of MaxFaults is used up

loop == <<phase, late, graceless, failed, disposed, event, cause>>
client == <<csock, attached, buffered>>
timers == <<runner1, runner2>>
handoff == <<draining, ipc>>
server == <<registered, alive, ssock, timers, handoff>>
network == <<hs, token, toServer, toClient, closed>>
vars == <<loop, client, server, network, faults>>

\* "refused" and "unknown" are error messages: a client that does not pass
\* validation, a reconnection token that is not registered.
Control == {"auth", "sign", "connectionType", "ok", "refused", "unknown", "disconnect"}

TypeOK ==
    /\ phase \in [Conns -> {"idle", "waiting", "resolving", "auth", "confirm"}]
    /\ late \in [Conns -> BOOLEAN] /\ graceless \in [Conns -> BOOLEAN]
    /\ failed \in BOOLEAN /\ disposed \in [Conns -> BOOLEAN]
    /\ event \in [Conns -> {"ConnectionGain", "ReconnectionWait", "ReconnectionRunning",
                            "ReconnectionPermanentFailure"}]
    /\ cause \in [Conns -> {"none", "fatal", "graceless", "late", "resolver", "refused", "rejected"}]
    /\ csock \in [Conns -> Sockets] /\ attached \in [Conns -> BOOLEAN]
    /\ buffered \in [Conns -> Seq(Control)]
    /\ registered \in [Conns -> BOOLEAN] /\ alive \in [Conns -> BOOLEAN]
    /\ ssock \in [Conns -> Sockets]
    /\ runner1 \in [Conns -> BOOLEAN] /\ runner2 \in [Conns -> BOOLEAN]
    /\ draining \in [Conns -> SUBSET Sockets]
    /\ ipc \in [Conns -> Seq(Sockets \cup {Reduce})]
    /\ hs \in [Sockets -> {"none", "WaitingForAuth", "WaitingForConnectionType", "Port"}]
    /\ token \in [Sockets -> Conns]
    /\ toServer \in [Sockets -> Seq(Control)] /\ toClient \in [Sockets -> Seq(Control)]
    /\ closed \in SUBSET Sockets
    /\ faults \in 0..MaxFaults

Init ==
    /\ phase = [c \in Conns |-> "idle"]
    /\ late = [c \in Conns |-> FALSE] /\ graceless = [c \in Conns |-> FALSE]
    /\ failed = FALSE /\ disposed = [c \in Conns |-> FALSE]
    /\ event = [c \in Conns |-> "ConnectionGain"] /\ cause = [c \in Conns |-> "none"]
    /\ csock = FirstSocket /\ attached = [c \in Conns |-> TRUE]
    /\ buffered = [c \in Conns |-> <<>>]
    /\ registered = [c \in Conns |-> TRUE] /\ alive = [c \in Conns |-> TRUE]
    /\ ssock = FirstSocket
    /\ runner1 = [c \in Conns |-> FALSE] /\ runner2 = [c \in Conns |-> FALSE]
    /\ draining = [c \in Conns |-> {}] /\ ipc = [c \in Conns |-> <<>>]
    /\ hs = [s \in Sockets |-> "none"]
    /\ token = [s \in Sockets |-> CHOOSE c \in Conns :
                    (\E d \in Conns : FirstSocket[d] = s) => FirstSocket[c] = s]
    /\ toServer = [s \in Sockets |-> <<>>] /\ toClient = [s \in Sockets |-> <<>>]
    /\ closed = Sockets \ {FirstSocket[c] : c \in Conns}
    /\ faults = 0

Fault == faults < MaxFaults /\ faults' = faults + 1

Written(stream, s, m) == IF s \in closed THEN stream ELSE [stream EXCEPT ![s] = Append(@, m)]

InTransit(c) == draining[c] \cup {ipc[c][i] : i \in DOMAIN ipc[c]}
Served(c, s) == alive[c] /\ registered[c] /\ (ssock[c] = s \/ s \in InTransit(c))

\* A name the network may give to a new socket: nobody holds the old one.
Free(s) ==
    /\ s \in closed
    /\ hs[s] # "Port" /\ (hs[s] # "none" => toServer[s] = <<>>)
    /\ \A c \in Conns : csock[c] # s /\ s \notin InTransit(c) /\ (registered[c] => ssock[c] # s)

-----------------------------------------------------------------------------
(* Giving up.                                                                *)

\* Mutant: only the connections that are reconnecting are told.
ToldIfReconnecting(F) == {c \in F : ~disposed[c] /\ phase[c] # "idle"}
\* The connections whose listeners hear of the failure of F.
ToldOfFailure(F) == {c \in F : ~disposed[c]}

\* _gotoPermanentFailure for all of F: fire the event, unless the emitter is
\* disposed, and safeDisposeProtocolAndSocket.  The disposal of the protocol
\* disposes a management connection, which says goodbye to the server.
GotoPermanentFailure(F) ==
    /\ event' = [c \in Conns |-> IF c \in ToldOfFailure(F)
                                 THEN "ReconnectionPermanentFailure" ELSE event[c]]
    /\ disposed' = [c \in Conns |-> disposed[c] \/ c \in F \cap Management]
    /\ attached' = [c \in Conns |-> attached[c] /\ c \notin F]
    /\ closed' = closed \cup {csock[c] : c \in F}
    /\ toServer' = [s \in Sockets |->
            IF s \notin closed /\ \E c \in F \cap Management : ~disposed[c] /\ csock[c] = s
            THEN Append(toServer[s], "disconnect") ELSE toServer[s]]

\* _instances, which a disposed connection has left.
Instances == {c \in Conns : ~disposed[c]}

\* The sets of instances that triggerPermanentFailure may reach: its forEach
\* goes through _instances, and the management connection, disposed on the way,
\* leaves the array, so that the instance behind it, if there is one, is skipped.
\* Which one that is depends on the order in which they were created.
ReachedByFailure ==
    {Instances} \cup
    {Instances \ {d} : d \in {e \in Instances \ Management : Instances \cap Management # {}}}

\* What the failure of c may take down.
TakenDown(c) == IF c \in Management THEN ReachedByFailure ELSE {{c}}

\* _onReconnectionPermanentFailure, which takes down F, and the end of the loop of c.
FailsWith(c, why, F) ==
    /\ GotoPermanentFailure(F)
    /\ failed' = (failed \/ c \in Management)
    /\ cause' = [d \in Conns |-> IF d = c THEN why ELSE IF d \in F THEN "fatal" ELSE cause[d]]
    /\ phase' = [phase EXCEPT ![c] = "idle"]

OnReconnectionPermanentFailure(c, why) == \E F \in TakenDown(c) : FailsWith(c, why, F)

\* createInitialConnection of a further extension host connection fails five
\* times and is treated as a permanent error of the whole window.
InitialConnectionFails ==
    /\ Fault
    /\ \E F \in ReachedByFailure :
        /\ GotoPermanentFailure(F)
        /\ cause' = [c \in Conns |-> IF c \in F THEN "fatal" ELSE cause[c]]
    /\ failed' = TRUE
    /\ UNCHANGED <<phase, late, graceless, csock, buffered, server, hs, token, toClient>>

\* endConnection() of a management connection, RemoteExtensionHost.dispose():
\* say goodbye, end the socket.  The protocol of an extension host stays.
Dispose(c) ==
    /\ Fault /\ ~disposed[c]
    /\ disposed' = [disposed EXCEPT ![c] = TRUE]
    /\ toServer' = Written(toServer, csock[c], "disconnect")
    /\ closed' = closed \cup {csock[c]}
    /\ attached' = [attached EXCEPT ![c] = @ /\ c \notin Management]
    /\ UNCHANGED <<phase, late, graceless, failed, event, cause, csock, buffered, server,
                   hs, token, toClient>>

\* updateGraceTime(0), from the environment the server reports.
UpdateGraceTime(c) ==
    /\ Fault /\ c \in Management /\ ~graceless[c]
    /\ graceless' = [graceless EXCEPT ![c] = TRUE]
    /\ UNCHANGED <<phase, late, failed, disposed, event, cause, client, server, network>>

-----------------------------------------------------------------------------
(* The reconnecting loop.                                                    *)

\* Mutant: a socket that goes silent is not noticed.
ClosedOnly(c) ==
    attached[c] /\ csock[c] \in closed /\ toClient[csock[c]] = <<>> /\ UNCHANGED faults

\* onSocketClose, after everything received was read, and onSocketTimeout: a
\* socket nobody serves is silent (see ProtocolTimers), a slow one only looks so.
SocketLost(c) ==
    \/ attached[c] /\ csock[c] \in closed /\ toClient[csock[c]] = <<>> /\ UNCHANGED faults
    \/ attached[c] /\ csock[c] \notin closed /\ ~Served(c, csock[c]) /\ UNCHANGED faults
    \/ attached[c] /\ csock[c] \notin closed /\ Served(c, csock[c]) /\ Fault

\* _beginReconnecting and the first round of _runReconnectingLoop, which does
\* not wait.  A disposed connection no longer listens.
BeginReconnecting(c) ==
    /\ phase[c] = "idle" /\ ~failed /\ ~disposed[c]
    /\ SocketLost(c)
    /\ late' = [late EXCEPT ![c] = FALSE]
    /\ \/ /\ graceless[c]
          /\ OnReconnectionPermanentFailure(c, "graceless")
       \/ /\ ~graceless[c]
          /\ phase' = [phase EXCEPT ![c] = "resolving"]
          /\ event' = [event EXCEPT ![c] = "ReconnectionRunning"]
          /\ UNCHANGED <<failed, disposed, cause, attached, toServer, closed>>
    /\ UNCHANGED <<graceless, csock, buffered, server, hs, token, toClient>>

\* The sleep is over, or the user skips it: only a permanent failure, not a
\* disposal, ends the loop here.
WaitEnds(c) ==
    /\ phase[c] = "waiting"
    /\ IF failed
       THEN phase' = [phase EXCEPT ![c] = "idle"] /\ UNCHANGED event
       ELSE /\ phase' = [phase EXCEPT ![c] = "resolving"]
            /\ event' = IF disposed[c] THEN event
                        ELSE [event EXCEPT ![c] = "ReconnectionRunning"]
    /\ UNCHANGED <<late, graceless, failed, disposed, cause, client, server, network, faults>>

\* Date.now() - loopStartTime >= graceTime from now on.
LoopGraceEnds(c) ==
    /\ Fault /\ phase[c] # "idle" /\ ~late[c]
    /\ late' = [late EXCEPT ![c] = TRUE]
    /\ UNCHANGED <<phase, graceless, failed, disposed, event, cause, client, server, network>>

\* An answer that will never come.
Doomed(c) ==
    /\ phase[c] \in {"auth", "confirm"} /\ csock[c] \in closed
    /\ ~attached[c] \/ toClient[csock[c]] = <<>>

\* An attempt times out or meets a network error: try again, or give up when
\* the grace time is over.  Otherwise the loop's condition ends it.
AttemptFails(c) ==
    /\ phase[c] \in {"resolving", "auth", "confirm"}
    /\ IF Doomed(c) THEN UNCHANGED faults ELSE Fault
    /\ \/ late[c] /\ OnReconnectionPermanentFailure(c, "late")
       \/ /\ ~late[c]
          /\ IF failed \/ disposed[c]
             THEN phase' = [phase EXCEPT ![c] = "idle"] /\ UNCHANGED event
             ELSE /\ phase' = [phase EXCEPT ![c] = "waiting"]
                  /\ event' = [event EXCEPT ![c] = "ReconnectionWait"]
          /\ UNCHANGED <<failed, disposed, cause, attached, toServer, closed>>
    /\ UNCHANGED <<late, graceless, csock, buffered, server, hs, token, toClient>>

\* The authority cannot be resolved, or an unknown error occurs.
ResolverFails(c) ==
    /\ Fault /\ phase[c] = "resolving"
    /\ OnReconnectionPermanentFailure(c, "resolver")
    /\ UNCHANGED <<late, graceless, csock, buffered, server, hs, token, toClient>>

-----------------------------------------------------------------------------
(* The client's side of the hand-shake.                                      *)

\* Mutant: control messages of an earlier attempt stay in the buffer.
KeepBuffer(c) == buffered[c]
FlushBuffer(c) == <<>>

\* createSocket succeeds: beginAcceptReconnection, which revives a disposed
\* protocol too, and the auth message.
SocketReady(c, s) ==
    /\ phase[c] = "resolving" /\ Free(s)
    /\ phase' = [phase EXCEPT ![c] = "auth"]
    /\ csock' = [csock EXCEPT ![c] = s]
    /\ attached' = [attached EXCEPT ![c] = TRUE]
    /\ buffered' = [buffered EXCEPT ![c] = FlushBuffer(c)]
    /\ closed' = (closed \cup {csock[c]}) \ {s}
    /\ toServer' = [toServer EXCEPT ![s] = <<"auth">>]
    /\ toClient' = [toClient EXCEPT ![s] = <<>>]
    /\ hs' = [hs EXCEPT ![s] = "WaitingForAuth"]
    /\ token' = [token EXCEPT ![s] = c]
    /\ UNCHANGED <<late, graceless, failed, disposed, event, cause, server, faults>>

\* getErrorFromMessage
IsError(m) == m \in {"refused", "unknown"}

\* The listener of the current phase gets m.  The first one wants a sign
\* request, the second takes whatever is not an error for the answer.
HandleControl(c, m) ==
    \/ /\ phase[c] = "auth" /\ m = "sign"
       /\ phase' = [phase EXCEPT ![c] = "confirm"]
       /\ toServer' = Written(toServer, csock[c], "connectionType")
       /\ UNCHANGED <<event, failed, disposed, cause, attached, closed>>
    \/ /\ phase[c] = "confirm" /\ ~IsError(m)
       /\ phase' = [phase EXCEPT ![c] = "idle"]
       /\ event' = IF disposed[c] THEN event ELSE [event EXCEPT ![c] = "ConnectionGain"]
       /\ UNCHANGED <<toServer, failed, disposed, cause, attached, closed>>
    \/ /\ IF phase[c] = "auth" THEN m # "sign" ELSE IsError(m)
       /\ OnReconnectionPermanentFailure(c, IF m = "refused" THEN "refused" ELSE "rejected")

\* The next control message: what the BufferedEmitter kept comes first.
NextControl(c) == Head(buffered[c] \o toClient[csock[c]])

\* _receiveMessage of a Control message: to the listener, or to the buffer.
ReceiveControl(c) ==
    LET s == csock[c] IN
    /\ attached[c]
    /\ \/ /\ phase[c] \in {"auth", "confirm"} /\ buffered[c] \o toClient[s] # <<>>
          /\ HandleControl(c, NextControl(c))
          /\ IF buffered[c] = <<>>
             THEN toClient' = [toClient EXCEPT ![s] = Tail(@)] /\ UNCHANGED buffered
             ELSE buffered' = [buffered EXCEPT ![c] = Tail(@)] /\ UNCHANGED toClient
       \/ /\ phase[c] \notin {"auth", "confirm"} /\ toClient[s] # <<>>
          /\ buffered' = [buffered EXCEPT ![c] = Append(@, Head(toClient[s]))]
          /\ toClient' = [toClient EXCEPT ![s] = Tail(@)]
          /\ UNCHANGED <<phase, event, failed, disposed, cause, attached, toServer, closed>>
    /\ UNCHANGED <<late, graceless, csock, server, hs, token, faults>>

-----------------------------------------------------------------------------
(* The server: hand-shake, registry and grace timers.                        *)

\* Mutant: the notice names the connection.
ToldItsName(d) == IF registered[d] /\ alive[d] THEN Append(ipc[d], d) ELSE ipc[d]
\* shortenReconnectionGraceTimeIfNecessary of an extension host connection.
Told(d) == IF registered[d] /\ alive[d] THEN Append(ipc[d], Reduce) ELSE ipc[d]

\* beginAcceptReconnection disposes the socket it replaces.
Replaced(c, s) == {ssock[c]} \ {s}

\* Mutant: acceptReconnection cancels only the long timer.
Runner2Kept(c) == runner2[c]
Runner2AfterAccept(c) == FALSE

\* acceptReconnection: cancel both timers, move to s, dispose the old socket.
Accept(c, s) ==
    /\ runner1' = [runner1 EXCEPT ![c] = FALSE]
    /\ runner2' = [runner2 EXCEPT ![c] = Runner2AfterAccept(c)]
    /\ ssock' = [ssock EXCEPT ![c] = s]
    /\ closed' = closed \cup Replaced(c, s)

\* shortenReconnectionGraceTimeIfNecessary of a management connection: the
\* short timer starts too if the long one runs.
Shortened(d) == runner2[d] \/ runner1[d]

\* Mutant: a connection in its short grace time counts as gone.
KnownUnlessShort(c) == registered[c] /\ ~runner2[c]
\* _managementConnections and _extHostConnections have the reconnection token.
Known(c) == registered[c]

\* _rejectWebSocketConnection: the error is drained before the socket is closed.
Reject(s, error) ==
    /\ toClient' = Written(toClient, s, error)
    /\ closed' = closed \cup {s}

ServerReceivesAuth(s) ==
    /\ hs[s] = "WaitingForAuth" /\ toServer[s] # <<>> /\ Head(toServer[s]) = "auth"
    /\ hs' = [hs EXCEPT ![s] = "WaitingForConnectionType"]
    /\ toServer' = [toServer EXCEPT ![s] = Tail(@)]
    /\ toClient' = Written(toClient, s, "sign")
    /\ UNCHANGED <<loop, client, server, token, closed, faults>>

\* Either message fails its validation: the connection token or the commit of
\* the server has changed.
ServerRefuses(s) ==
    /\ Fault
    /\ hs[s] \in {"WaitingForAuth", "WaitingForConnectionType"} /\ toServer[s] # <<>>
    /\ Head(toServer[s]) # "disconnect"
    /\ toServer' = [toServer EXCEPT ![s] = Tail(@)]
    /\ Reject(s, "refused")
    /\ hs' = [hs EXCEPT ![s] = "none"]
    /\ UNCHANGED <<loop, client, server, token>>

\* The new connection shortens the grace time of all the others, and of its
\* own; then _handleConnectionType, which awaits a debug port for extension hosts.
ServerReceivesConnectionType(s) ==
    LET c == token[s] IN
    /\ hs[s] = "WaitingForConnectionType" /\ toServer[s] # <<>>
    /\ Head(toServer[s]) = "connectionType"
    /\ toServer' = [toServer EXCEPT ![s] = Tail(@)]
    /\ ipc' = [d \in Conns |-> IF d \in ExtHosts THEN Told(d) ELSE ipc[d]]
    /\ \/ /\ c \in Management /\ ~Known(c)
          /\ Reject(s, "unknown")
          /\ runner2' = [d \in Conns |-> IF d \in Management THEN Shortened(d) ELSE runner2[d]]
          /\ hs' = [hs EXCEPT ![s] = "none"]
          /\ UNCHANGED <<runner1, ssock>>
       \/ /\ c \in Management /\ Known(c)
          /\ toClient' = Written(toClient, s, "ok")
          /\ runner1' = [runner1 EXCEPT ![c] = FALSE]
          /\ runner2' = [d \in Conns |-> IF d = c THEN Runner2AfterAccept(c)
                                         ELSE IF d \in Management THEN Shortened(d) ELSE runner2[d]]
          /\ ssock' = [ssock EXCEPT ![c] = s]
          /\ closed' = closed \cup Replaced(c, s)
          /\ hs' = [hs EXCEPT ![s] = "none"]
       \/ /\ c \in ExtHosts
          /\ runner2' = [d \in Conns |-> IF d \in Management THEN Shortened(d) ELSE runner2[d]]
          /\ hs' = [hs EXCEPT ![s] = "Port"]
          /\ UNCHANGED <<runner1, ssock, toClient, closed>>
    /\ UNCHANGED <<loop, client, registered, alive, draining, token, faults>>

\* The rest of _handleConnectionType for an extension host: answer and hand
\* the socket over, once it is drained.
ServerHandlesExtHost(s) ==
    LET c == token[s] IN
    /\ hs[s] = "Port"
    /\ hs' = [hs EXCEPT ![s] = "none"]
    /\ \/ /\ ~Known(c) /\ Reject(s, "unknown") /\ UNCHANGED draining
       \/ /\ Known(c)
          /\ toClient' = Written(toClient, s, "ok")
          /\ draining' = [draining EXCEPT ![c] = @ \cup {s}]
          /\ UNCHANGED closed
    /\ UNCHANGED <<loop, client, registered, alive, ssock, timers, ipc, token, toServer, faults>>

\* _sendSocketToExtensionHost after drain(); sending to a process that is gone fails.
SocketDrained(c, s) ==
    /\ s \in draining[c]
    /\ draining' = [draining EXCEPT ![c] = @ \ {s}]
    /\ ipc' = IF alive[c] THEN [ipc EXCEPT ![c] = Append(@, s)] ELSE ipc
    /\ UNCHANGED <<loop, client, registered, alive, ssock, timers, network, faults>>

\* The extension host process: a socket, or the request to shorten the wait.
\* The handle of a closed socket may not arrive, and the handler throws.
ExtHostReceives(c) ==
    /\ alive[c] /\ ipc[c] # <<>>
    /\ ipc' = [ipc EXCEPT ![c] = Tail(@)]
    /\ \/ Head(ipc[c]) # Reduce /\ Accept(c, Head(ipc[c]))
       \/ Head(ipc[c]) \in closed /\ UNCHANGED <<timers, ssock, closed>>
       \/ /\ Head(ipc[c]) = Reduce
          /\ runner2' = [runner2 EXCEPT ![c] = Shortened(c)]
          /\ UNCHANGED <<runner1, ssock, closed>>
    /\ UNCHANGED <<loop, client, registered, alive, draining, hs, token, toServer, toClient, faults>>

\* Mutant: onSocketClose is heard of the first socket only.
HearsFirst(c) == ssock[c] = FirstSocket[c] /\ ssock[c] \in closed
HearsClose(c) == ssock[c] \in closed

\* onSocketClose of the socket in use, after everything on it was read.
ServerSeesClose(c) ==
    /\ registered[c] /\ alive[c] /\ HearsClose(c) /\ toServer[ssock[c]] = <<>>
    /\ ~runner1[c]
    /\ runner1' = [runner1 EXCEPT ![c] = TRUE]
    /\ UNCHANGED <<loop, client, registered, alive, ssock, runner2, handoff, network, faults>>

\* _cleanResources of a management connection; an extension host process
\* terminates instead.  The Disconnect it sends goes to a closed socket.
CleanResources(c) ==
    /\ registered' = [registered EXCEPT ![c] = c \in ExtHosts]
    /\ alive' = [alive EXCEPT ![c] = c \in Management]
    /\ runner1' = [runner1 EXCEPT ![c] = FALSE]
    /\ runner2' = [runner2 EXCEPT ![c] = FALSE]
    /\ closed' = closed \cup {ssock[c]}

\* Either timer fires, or the client has disconnected gracefully.
GraceExpires(c) ==
    /\ registered[c] /\ alive[c] /\ (runner1[c] \/ runner2[c])
    /\ CleanResources(c)
    /\ UNCHANGED <<loop, client, ssock, handoff, hs, token, toServer, toClient, faults>>

ServerReceivesDisconnect(c) ==
    LET s == ssock[c] IN
    /\ registered[c] /\ alive[c] /\ hs[s] = "none"
    /\ toServer[s] # <<>> /\ Head(toServer[s]) = "disconnect"
    /\ toServer' = [toServer EXCEPT ![s] = Tail(@)]
    /\ CleanResources(c)
    /\ UNCHANGED <<loop, client, ssock, handoff, hs, token, toClient, faults>>

ExtHostCrashes(c) ==
    /\ Fault /\ c \in ExtHosts /\ registered[c] /\ alive[c]
    /\ CleanResources(c)
    /\ UNCHANGED <<loop, client, ssock, handoff, hs, token, toServer, toClient>>

\* The server hears that the process is gone and forgets the token.
ServerSeesExit(c) ==
    /\ registered[c] /\ ~alive[c]
    /\ registered' = [registered EXCEPT ![c] = FALSE]
    /\ ipc' = [ipc EXCEPT ![c] = <<>>]
    /\ UNCHANGED <<loop, client, alive, ssock, timers, draining, network, faults>>

\* A Disconnect that arrives during the hand-shake finds no listener; one that
\* arrives during the hand-off may be lost.
DisconnectLost(s) ==
    /\ toServer[s] # <<>> /\ Head(toServer[s]) = "disconnect"
    /\ hs[s] # "none" \/ \E c \in Conns : s \in InTransit(c)
    /\ toServer' = [toServer EXCEPT ![s] = Tail(@)]
    /\ UNCHANGED <<loop, client, server, hs, token, toClient, closed, faults>>

-----------------------------------------------------------------------------
(* The network, and a server that dies and comes back without its registry. *)

\* A socket breaks; what is in flight arrives up to some point.
Break(s) ==
    /\ Fault /\ s \notin closed
    /\ closed' = closed \cup {s}
    /\ \E i \in 0..Len(toServer[s]), j \in 0..Len(toClient[s]) :
        /\ toServer' = [toServer EXCEPT ![s] = SubSeq(@, 1, i)]
        /\ toClient' = [toClient EXCEPT ![s] = SubSeq(@, 1, j)]
    /\ UNCHANGED <<loop, client, server, hs, token>>

\* What the client wrote on a socket it disposed may never arrive; what the
\* server wrote has been drained before it closed the socket.
LoseTail(s) ==
    /\ s \in closed
    /\ \/ /\ toServer[s] # <<>>
          /\ toServer' = [toServer EXCEPT ![s] = SubSeq(@, 1, Len(@) - 1)]
          /\ UNCHANGED <<toClient, faults>>
       \/ /\ Fault /\ toClient[s] # <<>>
          /\ toClient' = [toClient EXCEPT ![s] = SubSeq(@, 1, Len(@) - 1)]
          /\ UNCHANGED toServer
    /\ UNCHANGED <<loop, client, server, hs, token, closed>>

ServerRestarts ==
    /\ Fault
    /\ registered' = [c \in Conns |-> FALSE]
    /\ alive' = [c \in Conns |-> c \in Management]
    /\ runner1' = [c \in Conns |-> FALSE] /\ runner2' = [c \in Conns |-> FALSE]
    /\ draining' = [c \in Conns |-> {}] /\ ipc' = [c \in Conns |-> <<>>]
    /\ hs' = [s \in Sockets |-> "none"]
    /\ closed' = Sockets
    /\ UNCHANGED <<loop, client, ssock, token, toServer, toClient>>

-----------------------------------------------------------------------------
ClientNext ==
    \/ \E c \in Conns :
        \/ BeginReconnecting(c) \/ WaitEnds(c) \/ LoopGraceEnds(c) \/ AttemptFails(c)
        \/ ResolverFails(c) \/ ReceiveControl(c)
        \/ Dispose(c) \/ UpdateGraceTime(c)
        \/ \E s \in Sockets : SocketReady(c, s)
    \/ InitialConnectionFails

ServerNext ==
    \/ \E s \in Sockets :
        \/ ServerReceivesAuth(s) \/ ServerReceivesConnectionType(s) \/ ServerHandlesExtHost(s)
        \/ ServerRefuses(s)
    \/ \E c \in Conns :
        \/ ExtHostReceives(c) \/ ServerSeesClose(c) \/ GraceExpires(c)
        \/ ServerReceivesDisconnect(c) \/ ExtHostCrashes(c) \/ ServerSeesExit(c)
        \/ \E s \in Sockets : SocketDrained(c, s)
    \/ ServerRestarts

NetworkNext == \E s \in Sockets : Break(s) \/ LoseTail(s) \/ DisconnectLost(s)

Next == ClientNext \/ ServerNext \/ NetworkNext

Spec == Init /\ [][Next]_vars

\* Timers run out, handlers run, the network delivers, and an attempt to
\* connect is answered once the faults are over.
Fairness ==
    /\ \A c \in Conns :
        /\ WF_vars(BeginReconnecting(c) /\ UNCHANGED faults)
        /\ WF_vars(AttemptFails(c) /\ UNCHANGED faults)
        /\ WF_vars(WaitEnds(c)) /\ WF_vars(ReceiveControl(c))
        /\ WF_vars(\E s \in Sockets : SocketReady(c, s))
        /\ WF_vars(\E s \in Sockets : SocketDrained(c, s))
        /\ WF_vars(ExtHostReceives(c)) /\ WF_vars(ServerSeesClose(c))
        /\ WF_vars(GraceExpires(c)) /\ WF_vars(ServerReceivesDisconnect(c))
        /\ WF_vars(ServerSeesExit(c))
    /\ \A s \in Sockets :
        /\ WF_vars(ServerReceivesAuth(s)) /\ WF_vars(ServerReceivesConnectionType(s))
        /\ WF_vars(ServerHandlesExtHost(s)) /\ WF_vars(DisconnectLost(s))

FairSpec == Spec /\ Fairness

-----------------------------------------------------------------------------
(* Properties.                                                               *)

\* A grace timer runs only while the connection it would end is without a
\* socket: whatever the order in which sockets are lost, replaced, handed
\* over and timers shortened, a connection in use is never cleaned up.
GraceOnlyWhenDisconnected ==
    \A c \in Conns : runner1[c] \/ runner2[c] => registered[c] /\ alive[c] /\ ssock[c] \in closed

\* A client that is told by the hand-shake that its connection is unknown is
\* right to give up: the server has forgotten the token.  No left-over of an
\* earlier attempt is ever taken for the answer to the current one.
RejectedOnlyWhenForgotten ==
    \A c \in Conns : cause[c] = "rejected" => ~registered[c]

Connected(c) == phase[c] = "idle" /\ csock[c] \notin closed /\ Served(c, csock[c])
Over(c) == phase[c] = "idle" /\ (failed \/ disposed[c] \/ cause[c] # "none")

\* A client that believes it is connected over an open socket is served on
\* that very socket, or its socket is on the way to the extension host
\* process, or that process has just died.
Agreement ==
    \A c \in Conns :
        phase[c] = "idle" /\ ~Over(c) /\ csock[c] \notin closed =>
            IF c \in Management THEN Served(c, csock[c]) ELSE Served(c, csock[c]) \/ ~alive[c]

\* The window has failed, and this connection was skipped when the others were
\* told: it is neither failed itself nor disposed, and its loop will not run again.
Overlooked(c) == failed /\ ~disposed[c] /\ cause[c] = "none"

\* At most one connection is overlooked when the window fails, and never the
\* management connection, whose listeners show the failure to the user.
AtMostOneOverlooked ==
    /\ \A c \in Conns : Overlooked(c) => c \in ExtHosts
    /\ \A c, d \in Conns : Overlooked(c) /\ Overlooked(d) => c = d

\* What the listeners of onDidStateChange heard last is true when no loop runs:
\* ConnectionGain of a connection that has not failed, a permanent failure of one
\* that has, whichever connection caused it; but for the instance that
\* triggerPermanentFailure overlooks (remoteAgentConnection.ts:539), of which
\* there is at most one.  (An attempt that was under way can revive the protocol
\* of a failed connection; that case is left out.)
ListenersKnow ==
    /\ \A c \in Conns :
        phase[c] = "idle" /\ ~disposed[c] /\ ~Overlooked(c) /\ (cause[c] # "none" => ~attached[c]) =>
            event[c] = IF cause[c] = "none" THEN "ConnectionGain"
                                            ELSE "ReconnectionPermanentFailure"
    /\ AtMostOneOverlooked

\* Once faults are over, every connection ends up connected or given up: the
\* loop never hangs and never goes round for ever.
Settles == \A c \in Conns : <>[](Connected(c) \/ Over(c))

\* A client that has given up and closed its socket does not keep the server's
\* half, or its extension host process, alive for ever.
NoLeak ==
    \A c \in Conns : []((Over(c) /\ csock[c] \in closed) => <>(~registered[c]))

\* "no more attempts!" (remoteAgentConnection.ts:643): once the connection has
\* failed permanently or is disposed, the loop does not go on to an attempt.
NoMoreAttempts ==
    [][\A c \in Conns : phase[c] # "resolving" /\ phase'[c] = "resolving"
                            => ~failed /\ ~disposed[c]]_vars

-----------------------------------------------------------------------------
(* The inductive invariant of the proofs.                                    *)

\* A connection that has failed permanently has no loop under way unless the
\* whole window has failed, and its listeners know; at rest the others are
\* connected, unless the window has failed.
LoopInvOf(c) ==
    /\ cause[c] # "none" /\ ~failed => phase[c] = "idle" /\ ~attached[c]
    /\ cause[c] # "none" /\ ~attached[c] /\ ~disposed[c] =>
            event[c] = "ReconnectionPermanentFailure"
    /\ cause[c] = "none" /\ ~disposed[c] /\ ~failed /\ phase[c] = "idle" =>
            event[c] = "ConnectionGain"

LoopInv == \A c \in Conns : LoopInvOf(c)

\* A window that has failed has no management connection any more, which is why
\* a later failure overlooks nobody.
FailureInv ==
    /\ failed => \A c \in Management : disposed[c]
    /\ AtMostOneOverlooked

\* No two protocols have the same socket, and its query names the connection.
\* Management connections have no process that could die, and none of their
\* sockets is on its way to one.
SocketInv ==
    /\ \A c, d \in Conns : csock[c] = csock[d] => c = d
    /\ \A c \in Conns : token[csock[c]] = c
    /\ \A c \in Management : alive[c] /\ draining[c] = {} /\ ipc[c] = <<>>
    /\ \A s \in Sockets : hs[s] = "Port" => token[s] \in ExtHosts

\* The server has taken the client's socket, or the process it was for is dead.
Taken(c) ==
    csock[c] \notin closed => Served(c, csock[c]) \/ (c \in ExtHosts /\ ~alive[c])

\* How far the two ends are on a socket that is open, while the client waits
\* for the answer to its auth and to its connectionType message.
AuthOpen(s) ==
    \/ hs[s] = "WaitingForAuth" /\ toServer[s] = <<"auth">> /\ toClient[s] = <<>>
    \/ hs[s] = "WaitingForConnectionType" /\ toServer[s] = <<>> /\ toClient[s] = <<"sign">>

ConfirmOpen(s) ==
    \/ hs[s] = "WaitingForConnectionType" /\ toServer[s] = <<"connectionType">> /\ toClient[s] = <<>>
    \/ hs[s] = "Port" /\ toServer[s] = <<>> /\ toClient[s] = <<>>
    \/ hs[s] = "none" /\ toServer[s] = <<>> /\ toClient[s] = <<"ok">>

\* The hand-shake of c: what is read next answers the message sent last.  On a
\* closed socket at most that answer is left.
AuthInv(c) ==
    phase[c] = "auth" =>
        LET s == csock[c] IN
        /\ toClient[s] \in {<<>>, <<"sign">>, <<"refused">>}
        /\ s \notin closed => AuthOpen(s)

ConfirmInv(c) ==
    phase[c] = "confirm" =>
        LET s == csock[c] IN
        /\ toClient[s] \in {<<>>, <<"refused">>, <<"unknown">>, <<"ok">>}
        /\ s \notin closed => ConfirmOpen(s)
        /\ toClient[s] = <<"unknown">> => ~registered[c]
        /\ toClient[s] = <<"ok">> => Taken(c)

HandShakeOf(c) ==
    /\ AuthInv(c) /\ ConfirmInv(c)
    /\ phase[c] \in {"auth", "confirm"} => buffered[c] = <<>>
    /\ phase[c] = "idle" /\ ~Over(c) => Taken(c)

HandShakeInv == \A c \in Conns : HandShakeOf(c)

\* What the two ends of every connection know of each other, in every phase.
RemoteInv == TypeOK /\ LoopInv /\ FailureInv /\ SocketInv /\ HandShakeInv /\ RejectedOnlyWhenForgotten

=============================================================================
