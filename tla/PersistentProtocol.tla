------------------------- MODULE PersistentProtocol -------------------------
(***************************************************************************)
(* The acknowledged, reconnectable message protocol of VS Code's remote    *)
(* connections: class PersistentProtocol of                                *)
(* src/src/vs/base/parts/ipc/common/ipc.net.ts, one instance in the        *)
(* renderer ("client"), one in the remote process ("server"), with the     *)
(* sockets they share and the reconnection hand-shake that moves both to   *)
(* a new socket (remoteAgentConnection.ts on the client;                   *)
(* remoteExtensionHostAgentServer.ts, remoteExtensionManagement.ts and     *)
(* extensionHostProcess.ts on the server).                                 *)
(*                                                                         *)
(* A socket carries one FIFO stream in each direction.  When it is closed, *)
(* what is written later is lost and any suffix of what is in flight may   *)
(* be lost; an endpoint still attached to it can read the rest.  Socket    *)
(* names are recycled once nobody holds or can read the socket, so the     *)
(* number of reconnections is unbounded.                                   *)
(*                                                                         *)
(* Time is abstract here: a timer that is armed may fire at any moment.    *)
(* The module ProtocolTimers gives the same timers their durations.        *)
(***************************************************************************)
EXTENDS Naturals, Sequences

CONSTANTS
    Data,           \* payloads of Regular messages
    Sockets,        \* socket names; |Sockets| bounds the sockets alive at once
    FirstSocket,    \* the socket of the initial connection
    IdLimit,        \* ids and acks are written as u32: 2^32 in the code
    ViaExtHost,     \* TRUE: the socket is handed to the extension host process
    SendKeepAlive,  \* PersistentProtocolOptions.sendKeepAlive
    MaxMsgs,        \* bound: Regular messages per side
    MaxFaults,      \* bound: socket failures and spurious time-outs
    MaxLosses,      \* bound: messages a faulty relay drops from a stream
    MaxIdle         \* bound: a keep-alive is written on a stream shorter than this

ASSUME ConstantsAssumption ==
    /\ FirstSocket \in Sockets
    /\ MaxMsgs \in Nat /\ MaxFaults \in Nat /\ MaxLosses \in Nat /\ MaxIdle \in Nat
    /\ IdLimit \in Nat /\ MaxMsgs < IdLimit
    /\ ViaExtHost \in BOOLEAN /\ SendKeepAlive \in BOOLEAN

VARIABLES
    sent,          \* history: payloads passed to send()
    delivered,     \* history: payloads fired on onMessage
    outMsgId,      \* _outgoingMsgId
    outAckId,      \* _outgoingAckId
    unack,         \* _outgoingUnackMsg
    inMsgId,       \* _incomingMsgId
    inAckId,       \* _incomingAckId
    ackTimer,      \* _incomingAckTimeout is set
    throttled,     \* a replay request was sent less than 10s ago
    reconnecting,  \* _isReconnecting
    sock,          \* _socket
    paused,        \* _socketWriter._isPaused
    held,          \* what the paused writer buffers
    awaitingOk,    \* the client listens for the control message that ends the hand-shake
    pending,       \* sockets on their way from the server to the extension host process
    wire,          \* wire[s][p]: the messages in flight on s towards p
    closed,        \* sockets that no longer accept writes
    faults, losses \* how much of MaxFaults and MaxLosses is used up

history == <<sent, delivered>>
outgoing == <<outMsgId, outAckId, unack>>
incoming == <<inMsgId, inAckId, ackTimer, throttled>>
writer == <<paused, held>>
handshake == <<reconnecting, awaitingOk, pending>>
network == <<sock, wire, closed, faults, losses>>
vars == <<history, outgoing, incoming, writer, handshake, network>>

Sides == {"client", "server"}
Peer(p) == IF p = "client" THEN "server" ELSE "client"

ProtocolMessageType ==
    {"Regular", "Control", "Ack", "ReplayRequest", "Pause", "Resume", "KeepAlive"}
Empty == "empty"
ControlData == {"connectionType", "ok"}
ProtocolMessage ==
    [type : ProtocolMessageType, id : Nat, ack : Nat, data : Data \cup ControlData \cup {Empty}]

Msg(type, ack, data) == [type |-> type, id |-> 0, ack |-> ack, data |-> data]
Regular(id, ack, data) == [type |-> "Regular", id |-> id, ack |-> ack, data |-> data]

-----------------------------------------------------------------------------
(* Writing.  ProtocolWriter.write puts id and ack into 32-bit fields; a      *)
(* paused writer keeps what it is given; a closed socket swallows it.        *)

Encode(msgs) ==
    [i \in DOMAIN msgs |->
        [type |-> msgs[i].type, id |-> msgs[i].id % IdLimit,
         ack |-> msgs[i].ack % IdLimit, data |-> msgs[i].data]]

Sent(w, s, q, msgs) ==
    IF s \in closed THEN w ELSE [w EXCEPT ![s][q] = @ \o Encode(msgs)]

\* p writes msgs on its socket; w is the wire once p has consumed its input.
Write(w, p, msgs) ==
    IF paused[p]
    THEN wire' = w /\ held' = [held EXCEPT ![p] = @ \o msgs]
    ELSE wire' = Sent(w, sock[p], Peer(p), msgs) /\ UNCHANGED held

\* Mutant: an acknowledgement also removes the message after it.
ConfirmedOneMore(q, ack) ==
    CHOOSE k \in 0..Len(q) :
        /\ \A i \in 1..k : q[i].id <= ack + 1
        /\ k < Len(q) => q[k + 1].id > ack + 1

\* How many messages at the front of q an acknowledgement of ack confirms.
Confirmed(q, ack) ==
    CHOOSE k \in 0..Len(q) :
        /\ \A i \in 1..k : q[i].id <= ack
        /\ k < Len(q) => q[k + 1].id > ack

\* The acknowledgement part of _receiveMessage, on the queue and the counter.
PopConfirmed(p, ack) ==
    IF ack > outAckId[p]
    THEN SubSeq(unack[p], Confirmed(unack[p], ack) + 1, Len(unack[p]))
    ELSE unack[p]

NewAckId(p, ack) == IF ack > outAckId[p] THEN ack ELSE outAckId[p]

AcceptAck(p, ack) ==
    /\ outAckId' = [outAckId EXCEPT ![p] = NewAckId(p, ack)]
    /\ unack' = [unack EXCEPT ![p] = PopConfirmed(p, ack)]
    /\ UNCHANGED outMsgId

-----------------------------------------------------------------------------
(* send(): a message sent while reconnecting only joins the queue.           *)

\* Mutant: send() writes to the socket whatever the state of the connection.
WritesWhileReconnecting(p) == TRUE
WritesAtOnce(p) == ~reconnecting[p]

Send(p, d) ==
    /\ outMsgId[p] < MaxMsgs
    /\ LET m == Regular(outMsgId[p] + 1, inMsgId[p], d) IN
        /\ outMsgId' = [outMsgId EXCEPT ![p] = @ + 1]
        /\ inAckId' = [inAckId EXCEPT ![p] = inMsgId[p]]
        /\ unack' = [unack EXCEPT ![p] = Append(@, m)]
        /\ sent' = [sent EXCEPT ![p] = Append(@, d)]
        /\ IF WritesAtOnce(p) THEN Write(wire, p, <<m>>) ELSE UNCHANGED <<wire, held>>
    /\ UNCHANGED <<delivered, outAckId, inMsgId, ackTimer, throttled, paused,
                   handshake, sock, closed, faults, losses>>

\* _sendAckCheck once the delay has passed: an Ack unless some other message
\* has carried the acknowledgement in the meantime.
AckTimerFires(p) ==
    /\ ackTimer[p]
    /\ ackTimer' = [ackTimer EXCEPT ![p] = FALSE]
    /\ inAckId' = [inAckId EXCEPT ![p] = inMsgId[p]]
    /\ IF inMsgId[p] > inAckId[p]
       THEN Write(wire, p, <<Msg("Ack", inMsgId[p], Empty)>>)
       ELSE UNCHANGED <<wire, held>>
    /\ UNCHANGED <<history, outgoing, inMsgId, throttled, paused, handshake,
                   sock, closed, faults, losses>>

\* _sendKeepAlive, also while reconnecting.
KeepAlive(p) ==
    /\ SendKeepAlive
    /\ Len(wire[sock[p]][Peer(p)]) < MaxIdle /\ Len(held[p]) < MaxIdle
    /\ inAckId' = [inAckId EXCEPT ![p] = inMsgId[p]]
    /\ Write(wire, p, <<Msg("KeepAlive", inMsgId[p], Empty)>>)
    /\ UNCHANGED <<history, outgoing, inMsgId, ackTimer, throttled, paused, handshake,
                   sock, closed, faults, losses>>

\* Ten seconds pass since the last replay request.
ThrottleExpires(p) ==
    /\ throttled[p]
    /\ throttled' = [throttled EXCEPT ![p] = FALSE]
    /\ UNCHANGED <<history, outgoing, inMsgId, inAckId, ackTimer, writer, handshake, network>>

-----------------------------------------------------------------------------
(* _receiveMessage, one action for each case of its switch.                  *)

Receives(p, type) == wire[sock[p]][p] # <<>> /\ Head(wire[sock[p]][p]).type = type
Incoming(p) == Head(wire[sock[p]][p])
Consumed(p) == [wire EXCEPT ![sock[p]][p] = Tail(@)]

\* Mutants: a message sent again counts as new; a gap goes unnoticed.
IsNextOrRepeated(p) == Incoming(p).id \in {inMsgId[p], inMsgId[p] + 1}
IsLater(p) == Incoming(p).id > inMsgId[p]
IsNext(p) == Incoming(p).id = inMsgId[p] + 1

ReceiveNextRegular(p) ==
    /\ Receives(p, "Regular") /\ IsNext(p)
    /\ AcceptAck(p, Incoming(p).ack)
    /\ inMsgId' = [inMsgId EXCEPT ![p] = Incoming(p).id]
    /\ ackTimer' = [ackTimer EXCEPT ![p] = TRUE]
    /\ delivered' = [delivered EXCEPT ![p] = Append(@, Incoming(p).data)]
    /\ wire' = Consumed(p)
    /\ UNCHANGED <<sent, inAckId, throttled, writer, handshake, sock, closed, faults, losses>>

ReceiveOldRegular(p) ==
    /\ Receives(p, "Regular") /\ Incoming(p).id <= inMsgId[p]
    /\ AcceptAck(p, Incoming(p).ack)
    /\ wire' = Consumed(p)
    /\ UNCHANGED <<history, incoming, writer, handshake, sock, closed, faults, losses>>

\* A gap: ask for a replay, at most once every 10s.
ReceiveGap(p) ==
    /\ Receives(p, "Regular") /\ Incoming(p).id > inMsgId[p] + 1
    /\ AcceptAck(p, Incoming(p).ack)
    /\ throttled' = [throttled EXCEPT ![p] = TRUE]
    /\ IF throttled[p]
       THEN wire' = Consumed(p) /\ UNCHANGED held
       ELSE Write(Consumed(p), p, <<Msg("ReplayRequest", 0, Empty)>>)
    /\ UNCHANGED <<history, inMsgId, inAckId, ackTimer, paused, handshake,
                   sock, closed, faults, losses>>

\* Ack and KeepAlive only carry an acknowledgement.
ReceiveAck(p) ==
    /\ Receives(p, "Ack") \/ Receives(p, "KeepAlive")
    /\ AcceptAck(p, Incoming(p).ack)
    /\ wire' = Consumed(p)
    /\ UNCHANGED <<history, incoming, writer, handshake, sock, closed, faults, losses>>

ReceiveReplayRequest(p) ==
    /\ Receives(p, "ReplayRequest")
    /\ Write(Consumed(p), p, unack[p])
    /\ UNCHANGED <<history, outgoing, incoming, paused, handshake, sock, closed, faults, losses>>

ReceivePause(p) ==
    /\ Receives(p, "Pause")
    /\ paused' = [paused EXCEPT ![p] = TRUE]
    /\ wire' = Consumed(p)
    /\ UNCHANGED <<history, outgoing, incoming, held, handshake, sock, closed, faults, losses>>

ReceiveResume(p) ==
    /\ Receives(p, "Resume")
    /\ paused' = [paused EXCEPT ![p] = FALSE]
    /\ held' = [held EXCEPT ![p] = <<>>]
    /\ wire' = Sent(Consumed(p), sock[p], Peer(p), held[p])
    /\ UNCHANGED <<history, outgoing, incoming, handshake, sock, closed, faults, losses>>

\* endAcceptReconnection sends the acknowledgement again and everything
\* unacknowledged (q) again.
\* Mutant: the acknowledgement is left out.
EndWithoutAck(p, q) == q
EndAcceptReconnection(p, q) == <<Msg("Ack", inMsgId[p], Empty)>> \o q

\* The control message that ends the hand-shake.  When the client has given
\* up on this attempt nobody listens.
ReceiveOk(p) ==
    /\ Receives(p, "Control")
    /\ IF p = "client" /\ awaitingOk
       THEN /\ reconnecting' = [reconnecting EXCEPT ![p] = FALSE]
            /\ awaitingOk' = FALSE
            /\ inAckId' = [inAckId EXCEPT ![p] = inMsgId[p]]
            /\ Write(Consumed(p), p, EndAcceptReconnection(p, unack[p]))
       ELSE wire' = Consumed(p) /\ UNCHANGED <<reconnecting, awaitingOk, inAckId, held>>
    /\ UNCHANGED <<history, outgoing, inMsgId, ackTimer, throttled, paused, pending,
                   sock, closed, faults, losses>>

Receive(p) ==
    \/ ReceiveNextRegular(p) \/ ReceiveOldRegular(p) \/ ReceiveGap(p)
    \/ ReceiveAck(p) \/ ReceiveReplayRequest(p)
    \/ ReceivePause(p) \/ ReceiveResume(p) \/ ReceiveOk(p)

-----------------------------------------------------------------------------
(* Reconnection, client side: one attempt of the reconnecting loop opens a   *)
(* socket, moves the protocol to it (beginAcceptReconnection disposes the    *)
(* old socket and its writer) and asks the server for the connection.        *)

InTransit == {pending[i] : i \in DOMAIN pending}
Free(s) ==
    /\ s \notin InTransit
    /\ \A p \in Sides : sock[p] # s /\ wire[s][p] = <<>>

BeginReconnection(s) ==
    /\ Free(s)
    /\ sock' = [sock EXCEPT !["client"] = s]
    /\ closed' = (closed \ {s}) \cup {sock["client"]}
    /\ wire' = [wire EXCEPT
                  ![sock["client"]]["client"] = <<>>,
                  ![s]["server"] = <<Msg("Control", 0, "connectionType")>>]
    /\ reconnecting' = [reconnecting EXCEPT !["client"] = TRUE]
    /\ awaitingOk' = TRUE
    /\ throttled' = [throttled EXCEPT !["client"] = FALSE]
    /\ paused' = [paused EXCEPT !["client"] = FALSE]
    /\ held' = [held EXCEPT !["client"] = <<>>]
    /\ UNCHANGED <<history, outgoing, inMsgId, inAckId, ackTimer, pending, losses>>

\* The socket is gone, or the previous attempt failed.
Reconnect ==
    /\ IF reconnecting["client"] THEN ~awaitingOk ELSE sock["client"] \in closed
    /\ \E s \in Sockets : BeginReconnection(s)
    /\ UNCHANGED faults

\* onSocketTimeout on a socket that is merely slow.
SpuriousTimeout ==
    /\ faults < MaxFaults
    /\ ~reconnecting["client"] /\ sock["client"] \notin closed
    /\ \E s \in Sockets : BeginReconnection(s)
    /\ faults' = faults + 1

\* The hand-shake times out: its promise is rejected, its listener is gone.
GiveUp ==
    /\ awaitingOk
    /\ IF sock["client"] \in closed
       THEN UNCHANGED faults
       ELSE faults < MaxFaults /\ faults' = faults + 1
    /\ awaitingOk' = FALSE
    /\ UNCHANGED <<history, outgoing, incoming, writer, reconnecting, pending,
                   sock, wire, closed, losses>>

-----------------------------------------------------------------------------
(* Reconnection, server side.  The temporary protocol of the new socket has  *)
(* read the request; n messages behind it come along as the initial chunk    *)
(* (acknowledgements only), the rest stays in the stream.                    *)

Requested(s) ==
    /\ s # sock["server"] /\ s \notin InTransit
    /\ wire[s]["server"] # <<>>
    /\ Head(wire[s]["server"]).type = "Control"

\* The server's protocol moves to s: beginAcceptReconnection, which reads the
\* n messages of the initial chunk, then endAcceptReconnection.
AcceptReconnection(s, skip, n, before, after) ==
    LET stream == wire[s]["server"]
        ack == IF n = 0 THEN 0 ELSE stream[skip + n].ack
        left == [wire EXCEPT ![sock["server"]]["server"] = <<>>]
        rest == SubSeq(stream, skip + n + 1, Len(stream))
        written == before \o EndAcceptReconnection("server", PopConfirmed("server", ack))
                          \o after
    IN
    /\ \A i \in 1..n : stream[skip + i].type \in {"Ack", "KeepAlive"}
    /\ AcceptAck("server", ack)
    /\ inAckId' = [inAckId EXCEPT !["server"] = inMsgId["server"]]
    /\ throttled' = [throttled EXCEPT !["server"] = FALSE]
    /\ paused' = [paused EXCEPT !["server"] = FALSE]
    /\ held' = [held EXCEPT !["server"] = <<>>]
    /\ sock' = [sock EXCEPT !["server"] = s]
    /\ closed' = closed \cup {sock["server"]}
    /\ wire' = Sent([left EXCEPT ![s]["server"] = rest], s, "client", written)
    /\ UNCHANGED <<history, inMsgId, ackTimer, reconnecting, awaitingOk, faults, losses>>

\* ManagementConnection.acceptReconnection
ManagementAccept(s) ==
    /\ ~ViaExtHost
    /\ Requested(s)
    /\ \E n \in 0..(Len(wire[s]["server"]) - 1) :
          AcceptReconnection(s, 1, n, <<Msg("Control", 0, "ok")>>, <<>>)
    /\ UNCHANGED pending

\* The extension host runs in another process: the client is told to stop
\* writing until that process has the socket.
\* Mutant: the client learns of its success before it is told to pause.
OkThenPause == <<Msg("Control", 0, "ok"), Msg("Pause", 0, Empty)>>
PauseThenOk == <<Msg("Pause", 0, Empty), Msg("Control", 0, "ok")>>

HandOff(s) ==
    /\ ViaExtHost
    /\ Requested(s)
    /\ pending' = Append(pending, s)
    /\ wire' = Sent([wire EXCEPT ![s]["server"] = Tail(@)], s, "client", PauseThenOk)
    /\ UNCHANGED <<history, outgoing, incoming, writer, reconnecting, awaitingOk,
                   sock, closed, faults, losses>>

\* What reaches the server process while it no longer listens is lost.
LostInHandOff(s) ==
    /\ s \in InTransit
    /\ wire[s]["server"] # <<>>
    /\ wire' = [wire EXCEPT ![s]["server"] = Tail(@)]
    /\ UNCHANGED <<history, outgoing, incoming, writer, handshake, sock, closed, faults, losses>>

\* Mutant: the extension host forgets to let the client write again.
NeverResume == <<>>
ThenResume == <<Msg("Resume", 0, Empty)>>

ExtHostAccept ==
    /\ pending # <<>>
    /\ LET s == Head(pending) IN
        \E n \in 0..Len(wire[s]["server"]) :
          AcceptReconnection(s, 0, n, <<>>, ThenResume)
    /\ pending' = Tail(pending)

-----------------------------------------------------------------------------
(* The network.                                                              *)

Break(s) ==
    /\ faults < MaxFaults
    /\ s \notin closed /\ ~Free(s)
    /\ closed' = closed \cup {s}
    /\ faults' = faults + 1
    /\ UNCHANGED <<history, outgoing, incoming, writer, handshake, sock, wire, losses>>

LoseTail(s, p) ==
    /\ s \in closed
    /\ wire[s][p] # <<>>
    /\ wire' = [wire EXCEPT ![s][p] = SubSeq(@, 1, Len(@) - 1)]
    /\ UNCHANGED <<history, outgoing, incoming, writer, handshake, sock, closed, faults, losses>>

\* A relay on the way drops a message and keeps the stream going.
Lose(s, p) ==
    /\ losses < MaxLosses
    /\ \E i \in 1..Len(wire[s][p]) :
          wire' = [wire EXCEPT ![s][p] = SubSeq(@, 1, i - 1) \o SubSeq(@, i + 1, Len(@))]
    /\ losses' = losses + 1
    /\ UNCHANGED <<history, outgoing, incoming, writer, handshake, sock, closed, faults>>

-----------------------------------------------------------------------------
Init ==
    /\ sent = [p \in Sides |-> <<>>]
    /\ delivered = [p \in Sides |-> <<>>]
    /\ outMsgId = [p \in Sides |-> 0]
    /\ outAckId = [p \in Sides |-> 0]
    /\ unack = [p \in Sides |-> <<>>]
    /\ inMsgId = [p \in Sides |-> 0]
    /\ inAckId = [p \in Sides |-> 0]
    /\ ackTimer = [p \in Sides |-> FALSE]
    /\ throttled = [p \in Sides |-> FALSE]
    /\ reconnecting = [p \in Sides |-> FALSE]
    /\ sock = [p \in Sides |-> FirstSocket]
    /\ paused = [p \in Sides |-> FALSE]
    /\ held = [p \in Sides |-> <<>>]
    /\ awaitingOk = FALSE
    /\ pending = <<>>
    /\ wire = [s \in Sockets |-> [p \in Sides |-> <<>>]]
    /\ closed = {}
    /\ faults = 0
    /\ losses = 0

EndpointStep(p) ==
    \/ \E d \in Data : Send(p, d)
    \/ AckTimerFires(p) \/ KeepAlive(p) \/ ThrottleExpires(p) \/ Receive(p)

ServerAccepts == ExtHostAccept \/ \E s \in Sockets : ManagementAccept(s) \/ HandOff(s)

NetworkStep ==
    \E s \in Sockets :
        \/ Break(s) \/ LostInHandOff(s)
        \/ \E p \in Sides : LoseTail(s, p) \/ Lose(s, p)

Next ==
    \/ \E p \in Sides : EndpointStep(p)
    \/ Reconnect \/ SpuriousTimeout \/ GiveUp
    \/ ServerAccepts
    \/ NetworkStep

Spec == Init /\ [][Next]_vars

\* The event loops run: bytes that have arrived are read, armed timers fire,
\* the reconnecting loop keeps trying and the server answers.
Fairness ==
    /\ \A p \in Sides : WF_vars(Receive(p)) /\ WF_vars(AckTimerFires(p))
    /\ WF_vars(Reconnect)
    /\ WF_vars(GiveUp /\ sock["client"] \in closed)
    /\ WF_vars(ServerAccepts)

FairSpec == Spec /\ Fairness
-----------------------------------------------------------------------------
(* Properties.                                                               *)

Streams == [Sides -> Seq(ProtocolMessage)]

\* Type correctness of every field of the two protocol objects, of their
\* writers and of the sockets between them.
TypeOK ==
    /\ sent \in [Sides -> Seq(Data)]
    /\ delivered \in [Sides -> Seq(Data \cup ControlData \cup {Empty})]
    /\ outMsgId \in [Sides -> 0..MaxMsgs]
    /\ outAckId \in [Sides -> 0..MaxMsgs]
    /\ unack \in [Sides -> Seq(ProtocolMessage)]
    /\ inMsgId \in [Sides -> 0..MaxMsgs]
    /\ inAckId \in [Sides -> 0..MaxMsgs]
    /\ ackTimer \in [Sides -> BOOLEAN]
    /\ throttled \in [Sides -> BOOLEAN]
    /\ reconnecting \in [Sides -> BOOLEAN]
    /\ sock \in [Sides -> Sockets]
    /\ paused \in [Sides -> BOOLEAN]
    /\ held \in [Sides -> Seq(ProtocolMessage)]
    /\ awaitingOk \in BOOLEAN
    /\ pending \in Seq(Sockets)
    /\ wire \in [Sockets -> Streams]
    /\ closed \in SUBSET Sockets
    /\ faults \in 0..MaxFaults
    /\ losses \in 0..MaxLosses

\* What onMessage has fired at one end is a prefix of what send() was given
\* at the other: no loss in the middle, no duplicate, no reordering, although
\* endAcceptReconnection and the replay request send messages again.
InOrderExactlyOnce ==
    \A p \in Sides :
        /\ Len(delivered[p]) <= Len(sent[Peer(p)])
        /\ \A i \in 1..Len(delivered[p]) : delivered[p][i] = sent[Peer(p)][i]

\* Whatever the other end has not been given yet is still in the queue of
\* unacknowledged messages, so that a reconnection can send it again.
NothingForgotten ==
    \A p \in Sides :
        \A i \in (Len(delivered[Peer(p)]) + 1)..Len(sent[p]) :
            \E j \in 1..Len(unack[p]) :
                unack[p][j].id = i /\ unack[p][j].data = sent[p][i]

\* On sockets that keep their FIFO promise a receiver never sees a gap: the
\* replay request is needed only for messages lost on the way.
NoGap ==
    losses = 0 => \A p \in Sides : Receives(p, "Regular") => Incoming(p).id <= inMsgId[p] + 1

\* No Regular message is in a stream whose bytes the server process drops
\* while it hands the socket to the extension host: Pause has come first.
NothingRegularInHandOff ==
    \A s \in InTransit : \A i \in DOMAIN wire[s]["server"] :
        wire[s]["server"][i].type # "Regular"

\* The messages p can have written so far: none acknowledges more than p has
\* been given, and a Regular one carries the payload that was sent under its id.
Msgs(given, n, payloads) ==
    {m \in ProtocolMessage :
        /\ m.ack <= given
        /\ IF m.type = "Regular"
           THEN m.id \in 1..n /\ m.data = payloads[m.id]
           ELSE m.id = 0}
FromOf(given, n, payloads) == [p \in Sides |-> Msgs(given[p], n[p], payloads[p])]
From == FromOf(inMsgId, outMsgId, sent)

WireIn(w, F) ==
    w \in [Sockets -> [Sides -> Seq(ProtocolMessage)]]
    /\ \A s \in Sockets, p \in Sides : w[s][Peer(p)] \in Seq(F[p])
HeldIn(h, F) ==
    h \in [Sides -> Seq(ProtocolMessage)] /\ \A p \in Sides : h[p] \in Seq(F[p])

\* The counters of the two ends and their histories agree.
Counters ==
    \A p \in Sides :
        /\ outAckId[p] <= inMsgId[Peer(p)] /\ inMsgId[Peer(p)] <= outMsgId[p]
        /\ Len(sent[p]) = outMsgId[p] /\ Len(delivered[p]) = inMsgId[p]
        /\ \A i \in 1..inMsgId[p] : delivered[p][i] = sent[Peer(p)][i]

\* The queue holds exactly the messages outAckId + 1 .. outMsgId, in order.
Queue(p, q, ack) ==
    /\ Len(q) = outMsgId[p] - ack
    /\ \A i \in 1..Len(q) : q[i].type = "Regular" /\ q[i].id = ack + i

\* The inductive invariant: an acknowledgement never overtakes a delivery, a
\* delivery never overtakes a send, the queue spans the gap between the first
\* and the last, and whatever is queued, held back or in flight is genuine.
IndInv ==
    /\ TypeOK
    /\ Counters
    /\ \A p \in Sides : Queue(p, unack[p], outAckId[p])
    /\ HeldIn(unack, From)
    /\ HeldIn(held, From)
    /\ WireIn(wire, From)

\* The protocol implements a pair of reliable streams.
Channel == INSTANCE ReliableChannel WITH sent <- sent, delivered <- delivered
ImplementsChannel == Channel!ChSafety
ImplementsFairChannel == Channel!ChSpec

\* Every message is acknowledged in the end, although acknowledgements may
\* be lost with a socket after _incomingAckId has moved on.
EventuallyAcked ==
    \A p \in Sides : \A n \in 1..MaxMsgs : outMsgId[p] >= n ~> outAckId[p] >= n
=============================================================================
