--------------------------- MODULE ProtocolTimers ---------------------------
(***************************************************************************)
(* The clocks of one PersistentProtocol (ipc.net.ts): when it sends an     *)
(* acknowledgement on its own (_sendAckCheck), when it declares its socket *)
(* dead (_recvAckCheck, _keepAliveTimeoutCheck), and the LoadEstimator     *)
(* that keeps it from doing so while its own event loop is blocked.        *)
(*                                                                         *)
(* Time is discrete.  Every Date.now() difference is an age that grows     *)
(* with Tick and stops where no comparison looks any further; every        *)
(* setTimeout is the time that is left.  An event loop that is not blocked runs what  *)
(* is due, and reads what has arrived, before time goes on.  The other     *)
(* end and the network are the environment: while the link is alive        *)
(* something arrives at least every MaxSilence; once it is dead, nothing.  *)
(***************************************************************************)
EXTENDS Integers, Sequences, FiniteSets

CONSTANTS
    AcknowledgeTime, TimeoutTime, KeepAliveSendTime, \* ProtocolConstants
    MinimumDelay,    \* the 500 ms of _recvAckCheck
    HistoryLength,   \* LoadEstimator._HISTORY_LENGTH, in periods of one tick
    MaxSilence,      \* environment: longest pause between arrivals on a live link
    MaxInbox,        \* bound: messages told apart while they wait to be read
    MaxUnack,        \* bound: unacknowledged messages
    MaxBlocks,       \* bound: how often the event loop is blocked
    MaxDeaths        \* bound: how often the link dies

ASSUME TimersAssumption ==
    /\ AcknowledgeTime \in Nat \ {0} /\ TimeoutTime \in Nat \ {0}
    /\ KeepAliveSendTime \in Nat \ {0} /\ MinimumDelay \in Nat \ {0}
    /\ HistoryLength \in Nat \ {0} /\ MaxSilence \in Nat \ {0}
    /\ MaxInbox \in Nat \ {0} /\ MaxUnack \in Nat \ {0}
    /\ MaxBlocks \in Nat /\ MaxDeaths \in Nat
    /\ MinimumDelay <= TimeoutTime
    /\ AcknowledgeTime < TimeoutTime /\ MaxSilence < TimeoutTime

\* A pause of the event loop that makes a link look dead is longer than what the
\* LoadEstimator remembers: 10 periods of 1 s and KeepAliveSendTime of the other
\* end (5 s) are less than the 20 s of TimeoutTime.
ASSUME LoadAssumption ==
    /\ HistoryLength >= 2
    /\ HistoryLength + MaxSilence + 2 <= TimeoutTime

VARIABLES
    unack,        \* ages (now - writtenTime) of _outgoingUnackMsg, oldest first
    outTimer,     \* _outgoingAckTimeout
    toAck,        \* _incomingMsgId > _incomingAckId
    owed,         \* history: age of the oldest message not acknowledged yet
    msgAge,       \* now - _incomingMsgLastTime
    ackTimer,     \* _incomingAckTimeout
    keepAlive,    \* _keepAliveInterval; None without options.sendKeepAlive
    readAge,      \* now - _socketReader.lastReadTime
    timeoutAge,   \* now - _lastSocketTimeoutTime
    timedOut,     \* onSocketTimeout has fired on this socket
    reconnecting, \* _isReconnecting
    lastRuns,     \* ages of LoadEstimator.lastRuns
    loadTimer,    \* the interval of the LoadEstimator
    blocked,      \* the event loop is busy with something else
    alive,        \* the link delivers
    inbox,        \* what has arrived and is not read yet
    silence,      \* time since the last arrival
    blocks, deaths \* how much of MaxBlocks and MaxDeaths is used up

outgoing == <<unack, outTimer>>
incoming == <<toAck, owed, msgAge, ackTimer>>
detection == <<readAge, timeoutAge, timedOut>>
load == <<lastRuns, loadTimer, blocked, blocks>>
link == <<alive, inbox, silence, deaths>>
vars == <<outgoing, incoming, keepAlive, detection, reconnecting, load, link>>

None == -1
Maximum(S) == CHOOSE n \in S : \A k \in S : k <= n
Older(age, cap) == IF age < cap THEN age + 1 ELSE cap
RunCap == HistoryLength + 2
OwedCap == Maximum({AcknowledgeTime, KeepAliveSendTime}) + 1
Countdown(timer) == IF timer > 0 THEN timer - 1 ELSE timer

-----------------------------------------------------------------------------
(* LoadEstimator.                                                            *)

\* Mutant: the estimator is never consulted.
NeverHigh == FALSE

\* hasHighLoad: at most half of the runs of the last HistoryLength periods
\* have taken place.
HasHighLoad ==
    LET score == Cardinality({i \in 1..HistoryLength : lastRuns[i] <= 1 + HistoryLength})
    IN  2 * score <= HistoryLength

LoadRun ==
    /\ ~blocked /\ loadTimer = 0
    /\ lastRuns' = [i \in 1..HistoryLength |-> IF i = 1 THEN 0 ELSE lastRuns[i - 1]]
    /\ loadTimer' = 1
    /\ UNCHANGED <<outgoing, incoming, keepAlive, detection, reconnecting, blocked, blocks, link>>

-----------------------------------------------------------------------------
(* Declaring the socket dead.                                                *)

FireSocketTimeout == timedOut' = TRUE /\ timeoutAge' = 0

\* When _recvAckCheck looks again.
NextCheck(oldest, age) ==
    Maximum({TimeoutTime - oldest, TimeoutTime - age, TimeoutTime - timeoutAge, MinimumDelay})

\* _recvAckCheck with q unacknowledged, the timer at t and the last data age old.
RecvAckCheck(q, t, age) ==
    IF q = <<>> \/ t # None \/ reconnecting'
    THEN outTimer' = t /\ UNCHANGED <<timedOut, timeoutAge>>
    ELSE IF /\ Head(q) >= TimeoutTime /\ age >= TimeoutTime /\ timeoutAge >= TimeoutTime
            /\ ~HasHighLoad
         THEN outTimer' = None /\ FireSocketTimeout
         ELSE outTimer' = NextCheck(Head(q), age) /\ UNCHANGED <<timedOut, timeoutAge>>

RecvAckTimerFires ==
    /\ ~blocked /\ outTimer = 0
    /\ UNCHANGED reconnecting
    /\ RecvAckCheck(unack, None, readAge)
    /\ UNCHANGED <<unack, incoming, keepAlive, readAge, load, link>>

\* Mutant: the keep-alive does not look at the time of the last data.
NoKeepAliveCheck == UNCHANGED <<timedOut, timeoutAge>>

KeepAliveTimeoutCheck ==
    IF /\ ~reconnecting
       /\ readAge >= TimeoutTime /\ timeoutAge >= TimeoutTime
       /\ ~HasHighLoad
    THEN FireSocketTimeout
    ELSE UNCHANGED <<timedOut, timeoutAge>>

-----------------------------------------------------------------------------
(* Acknowledging.  Every message that is written carries _incomingMsgId.     *)

Acknowledge == toAck' = FALSE /\ owed' = 0

\* Mutant: a keep-alive carries the acknowledgement that was sent last.
KeepAliveWithoutAck == UNCHANGED <<toAck, owed>>
KeepAliveAck == Acknowledge

KeepAliveFires ==
    /\ ~blocked /\ keepAlive = 0
    /\ keepAlive' = KeepAliveSendTime
    /\ KeepAliveAck
    /\ KeepAliveTimeoutCheck
    /\ UNCHANGED <<outgoing, msgAge, ackTimer, readAge, reconnecting, load, link>>

\* _sendAckCheck when its timer fires: once no message has come for
\* AcknowledgeTime an Ack of its own is written, otherwise it waits on.
AckTimerFires ==
    /\ ~blocked /\ ackTimer = 0
    /\ IF toAck /\ msgAge < AcknowledgeTime
       THEN ackTimer' = AcknowledgeTime - msgAge /\ UNCHANGED <<toAck, owed>>
       ELSE ackTimer' = None /\ Acknowledge
    /\ UNCHANGED <<outgoing, msgAge, keepAlive, detection, reconnecting, load, link>>

\* send(): while reconnecting the message is not written, its age unbounded.
Send ==
    /\ ~blocked /\ Len(unack) < MaxUnack
    /\ unack' = Append(unack, IF reconnecting THEN TimeoutTime ELSE 0)
    /\ Acknowledge
    /\ UNCHANGED reconnecting
    /\ RecvAckCheck(unack', outTimer, readAge)
    /\ UNCHANGED <<msgAge, ackTimer, keepAlive, readAge, load, link>>

-----------------------------------------------------------------------------
(* Reading.  Any message may acknowledge the k oldest of ours.               *)

Read(type) ==
    /\ ~blocked /\ inbox # <<>> /\ Head(inbox) = type
    /\ inbox' = Tail(inbox)
    /\ readAge' = 0
    /\ UNCHANGED <<keepAlive, reconnecting, load, alive, silence, deaths>>

Remaining(k) == SubSeq(unack, k + 1, Len(unack))
Written(q) == [i \in DOMAIN q |-> 0]

ReadAck ==
    /\ Read("Ack")
    /\ \E k \in 0..Len(unack) : unack' = Remaining(k)
    /\ UNCHANGED <<outTimer, incoming, timeoutAge, timedOut>>

ReadRegular ==
    /\ Read("Regular")
    /\ \E k \in 0..Len(unack) : unack' = Remaining(k)
    /\ toAck' = TRUE /\ msgAge' = 0
    /\ UNCHANGED owed
    /\ ackTimer' = IF ackTimer = None THEN AcknowledgeTime ELSE ackTimer
    /\ UNCHANGED <<outTimer, timeoutAge, timedOut>>

ReadReplayRequest ==
    /\ Read("ReplayRequest")
    /\ unack' = Written(unack)
    /\ RecvAckCheck(unack', outTimer, 0)
    /\ UNCHANGED incoming

-----------------------------------------------------------------------------
(* Reconnection.                                                             *)

BeginAcceptReconnection ==
    /\ ~blocked /\ ~alive
    /\ reconnecting' = TRUE
    /\ readAge' = 0 /\ timeoutAge' = 0 /\ timedOut' = FALSE
    /\ alive' = TRUE /\ inbox' = <<>> /\ silence' = 0
    /\ UNCHANGED <<outgoing, incoming, keepAlive, load, deaths>>

\* Mutant: the check for acknowledgements is not taken up again.
NoCheckAfterwards(q) == UNCHANGED <<outTimer, timedOut, timeoutAge>>
CheckAfterwards(q) == RecvAckCheck(q, outTimer, 0)

\* The control message of the server has arrived.
EndAcceptReconnection ==
    /\ ~blocked /\ reconnecting /\ alive
    /\ reconnecting' = FALSE
    /\ readAge' = 0 /\ silence' = 0
    /\ Acknowledge
    /\ unack' = Written(unack)
    /\ CheckAfterwards(unack')
    /\ UNCHANGED <<msgAge, ackTimer, keepAlive, load, alive, inbox, deaths>>

-----------------------------------------------------------------------------
(* The environment.                                                          *)

Arrive(type) ==
    /\ alive /\ ~reconnecting /\ silence > 0
    /\ inbox' = IF Len(inbox) < MaxInbox THEN Append(inbox, type) ELSE inbox
    /\ silence' = 0
    /\ UNCHANGED <<outgoing, incoming, keepAlive, detection, reconnecting, load, alive, deaths>>

Die ==
    /\ alive /\ deaths < MaxDeaths
    /\ alive' = FALSE
    /\ deaths' = deaths + 1
    /\ UNCHANGED <<outgoing, incoming, keepAlive, detection, reconnecting, load, inbox, silence>>

\* Some other callback keeps the event loop busy, then lets it go.
Block ==
    /\ ~blocked /\ blocks < MaxBlocks /\ inbox = <<>>
    /\ blocked' = TRUE /\ blocks' = blocks + 1
    /\ UNCHANGED <<outgoing, incoming, keepAlive, detection, reconnecting, lastRuns, loadTimer, link>>

Unblock ==
    /\ blocked
    /\ blocked' = FALSE
    /\ UNCHANGED <<outgoing, incoming, keepAlive, detection, reconnecting,
                   lastRuns, loadTimer, blocks, link>>

NothingToDo == 0 \notin {outTimer, ackTimer, keepAlive, loadTimer} /\ inbox = <<>>

Tick ==
    /\ blocked \/ NothingToDo
    /\ alive /\ ~reconnecting => silence < MaxSilence
    /\ unack' = [i \in DOMAIN unack |-> Older(unack[i], TimeoutTime)]
    /\ lastRuns' = [i \in DOMAIN lastRuns |-> Older(lastRuns[i], RunCap)]
    /\ owed' = IF toAck THEN Older(owed, OwedCap) ELSE owed
    /\ msgAge' = Older(msgAge, AcknowledgeTime)
    /\ readAge' = Older(readAge, TimeoutTime)
    /\ timeoutAge' = Older(timeoutAge, TimeoutTime)
    /\ silence' = Older(silence, MaxSilence)
    /\ outTimer' = Countdown(outTimer)
    /\ ackTimer' = Countdown(ackTimer)
    /\ keepAlive' = Countdown(keepAlive)
    /\ loadTimer' = Countdown(loadTimer)
    /\ UNCHANGED <<toAck, timedOut, reconnecting, blocked, blocks, alive, inbox, deaths>>

-----------------------------------------------------------------------------
Init ==
    /\ unack = <<>> /\ outTimer = None
    /\ toAck = FALSE /\ owed = 0 /\ msgAge = AcknowledgeTime /\ ackTimer = None
    /\ keepAlive \in {KeepAliveSendTime, None}  \* options.sendKeepAlive or not
    /\ readAge = 0 /\ timeoutAge = 0 /\ timedOut = FALSE
    /\ reconnecting = FALSE
    /\ lastRuns = [i \in 1..HistoryLength |-> i - 1] /\ loadTimer = 1
    /\ blocked = FALSE /\ blocks = 0
    /\ alive = TRUE /\ inbox = <<>> /\ silence = 0 /\ deaths = 0

EventLoop ==
    \/ LoadRun \/ RecvAckTimerFires \/ KeepAliveFires \/ AckTimerFires
    \/ ReadAck \/ ReadRegular \/ ReadReplayRequest

Environment ==
    \/ \E type \in {"Ack", "Regular", "ReplayRequest"} : Arrive(type)
    \/ Die \/ Block

Next ==
    \/ EventLoop \/ Send \/ BeginAcceptReconnection \/ EndAcceptReconnection
    \/ Environment \/ Unblock \/ Tick

Spec == Init /\ [][Next]_vars

\* Time goes on, a blocked event loop is let go, what is due is done.
FairSpec == Spec /\ WF_vars(Tick) /\ WF_vars(Unblock) /\ WF_vars(EventLoop)
-----------------------------------------------------------------------------
(* Properties.                                                               *)

Ages == 0..TimeoutTime
Timers == Ages \cup {None}

\* Every age and every timer stays within its range.
TypeOK ==
    /\ unack \in Seq(Ages) /\ Len(unack) <= MaxUnack /\ outTimer \in Timers
    /\ toAck \in BOOLEAN /\ owed \in 0..OwedCap /\ msgAge \in 0..AcknowledgeTime /\ ackTimer \in Timers
    /\ keepAlive \in 0..KeepAliveSendTime \cup {None}
    /\ readAge \in Ages /\ timeoutAge \in Ages /\ timedOut \in BOOLEAN
    /\ reconnecting \in BOOLEAN
    /\ lastRuns \in [1..HistoryLength -> 0..RunCap] /\ loadTimer \in {0, 1}
    /\ blocked \in BOOLEAN /\ blocks \in 0..MaxBlocks
    /\ alive \in BOOLEAN /\ inbox \in Seq({"Ack", "Regular", "ReplayRequest"})
    /\ silence \in 0..MaxSilence /\ deaths \in 0..MaxDeaths

\* onSocketTimeout fires only on a socket that is really dead, however long
\* the event loop was blocked before it could read what had arrived.
NoFalseAlarm == timedOut => ~alive

\* Outside a reconnection _recvAckCheck is scheduled as long as something is
\* unacknowledged: no path through begin- and endAcceptReconnection, the
\* replay request or a time-out leaves a message that nobody watches.
Watched == unack # <<>> /\ ~reconnecting /\ ~timedOut => outTimer # None

\* With keep-alives an acknowledgement is never owed for longer than
\* KeepAliveSendTime, unless the event loop was blocked.
AckedByKeepAlive == blocks = 0 /\ keepAlive # None => owed <= KeepAliveSendTime

\* The inductive invariant of the proofs.
TimersInv == TypeOK /\ Watched

\* A dead link is noticed: by the keep-alive check, or without keep-alives by
\* the check for acknowledgements of what was sent.
DeadLinkNoticed ==
    ~alive /\ ~reconnecting /\ inbox = <<>> /\ (keepAlive # None \/ unack # <<>>)
        ~> timedOut \/ alive
=============================================================================
