------------------------ MODULE ProtocolTimersProofs ------------------------
(***************************************************************************)
(* Proofs about ProtocolTimers for all durations and bounds: every age and *)
(* every timer stays within its range; outside a reconnection no           *)
(* unacknowledged message is ever left without a scheduled _recvAckCheck;  *)
(* acknowledgements go out with the keep-alives; and the LoadEstimator     *)
(* keeps a live link from being taken for a dead one.                      *)
(***************************************************************************)
EXTENDS ProtocolTimers, FiniteSetTheorems, SequenceTheorems, TLAPS

\* The maximum of the four delays of _recvAckCheck is one of them, and none is
\* larger.
LEMMA MaximumOfFour ==
  ASSUME NEW a \in Int, NEW b \in Int, NEW c \in Int, NEW d \in Int
  PROVE  /\ Maximum({a, b, c, d}) \in {a, b, c, d}
         /\ \A k \in {a, b, c, d} : k <= Maximum({a, b, c, d})
<1>1. \E n \in {a, b, c, d} : \A k \in {a, b, c, d} : k <= n
  OBVIOUS
<1> QED BY <1>1 DEF Maximum

\* _recvAckCheck looks again after at least MinimumDelay and at most TimeoutTime.
LEMMA NextCheckRange ==
  ASSUME TypeOK, NEW oldest \in Ages, NEW age \in Ages
  PROVE  NextCheck(oldest, age) \in MinimumDelay..TimeoutTime
<1> DEFINE a == TimeoutTime - oldest
           b == TimeoutTime - age
           c == TimeoutTime - timeoutAge
<1>1. /\ TimeoutTime \in Nat /\ MinimumDelay \in Nat /\ MinimumDelay <= TimeoutTime
      /\ timeoutAge \in 0..TimeoutTime /\ oldest \in 0..TimeoutTime /\ age \in 0..TimeoutTime
  BY TimersAssumption DEF TypeOK, Ages
<1>2. a \in 0..TimeoutTime /\ b \in 0..TimeoutTime /\ c \in 0..TimeoutTime
  BY <1>1
<1> HIDE DEF a, b, c
<1>3. /\ Maximum({a, b, c, MinimumDelay}) \in {a, b, c, MinimumDelay}
      /\ MinimumDelay <= Maximum({a, b, c, MinimumDelay})
  <2>1. a \in Int /\ b \in Int /\ c \in Int /\ MinimumDelay \in Int
    BY <1>1, <1>2
  <2> QED BY <2>1, MaximumOfFour
<1>4. Maximum({a, b, c, MinimumDelay}) \in MinimumDelay..TimeoutTime
  BY <1>1, <1>2, <1>3
<1> QED BY <1>4 DEF NextCheck, a, b, c

\* _recvAckCheck keeps the types, and afterwards something unacknowledged is
\* watched unless the protocol is reconnecting or has just timed out.
LEMMA CheckWatches ==
  ASSUME TypeOK, NEW q \in Seq(Ages), NEW t \in Timers, NEW age \in Ages,
         RecvAckCheck(q, t, age)
  PROVE  /\ outTimer' \in Timers /\ timedOut' \in BOOLEAN /\ timeoutAge' \in Ages
         /\ (q # <<>> /\ ~reconnecting' /\ ~timedOut') => outTimer' # None
<1>1. timedOut \in BOOLEAN /\ timeoutAge \in Ages /\ None \in Timers /\ 0 \in Ages
  BY TimersAssumption DEF TypeOK, Timers, Ages
<1>2. CASE q = <<>> \/ t # None \/ reconnecting'
  BY <1>1, <1>2 DEF RecvAckCheck
<1>3. CASE q # <<>> /\ t = None /\ ~reconnecting'
  <2>1. Head(q) \in Ages
    BY <1>3, HeadTailProperties
  <2>2. NextCheck(Head(q), age) \in MinimumDelay..TimeoutTime
    BY <2>1, NextCheckRange
  <2>3. NextCheck(Head(q), age) \in Timers /\ NextCheck(Head(q), age) # None
    BY <2>2, TimersAssumption DEF Timers, Ages, None
  <2>4. \/ outTimer' = None /\ timedOut' = TRUE /\ timeoutAge' = 0
        \/ outTimer' = NextCheck(Head(q), age) /\ timedOut' = timedOut /\ timeoutAge' = timeoutAge
    BY <1>3 DEF RecvAckCheck, FireSocketTimeout
  <2> QED BY <1>1, <2>3, <2>4
<1> QED BY <1>2, <1>3

\* The cap of what is owed is a number.
LEMMA OwedCapNat == OwedCap \in Nat
<1>1. Maximum({AcknowledgeTime, KeepAliveSendTime}) \in Nat
  BY TimersAssumption DEF Maximum
<1> QED BY <1>1 DEF OwedCap

-----------------------------------------------------------------------------
(* The steps.                                                                *)

\* Initially nothing is unacknowledged and every clock starts.
LEMMA Initially == Init => TimersInv
<1> SUFFICES ASSUME Init PROVE TimersInv
  OBVIOUS
<1>1. OwedCap \in Nat
  <2>1. Maximum({AcknowledgeTime, KeepAliveSendTime}) \in Nat
    BY TimersAssumption DEF Maximum
  <2> QED BY <2>1 DEF OwedCap
<1>2. TypeOK
  <2>0. /\ AcknowledgeTime \in Nat /\ TimeoutTime \in Nat /\ KeepAliveSendTime \in Nat
        /\ HistoryLength \in Nat /\ MaxSilence \in Nat /\ MaxUnack \in Nat
        /\ MaxBlocks \in Nat /\ MaxDeaths \in Nat
    BY TimersAssumption
  <2>1. /\ unack \in Seq(Ages) /\ Len(unack) <= MaxUnack
        /\ inbox \in Seq({"Ack", "Regular", "ReplayRequest"})
    BY <2>0 DEF Init
  <2>2. lastRuns \in [1..HistoryLength -> 0..RunCap] /\ loadTimer \in {0, 1}
    BY <2>0 DEF Init, RunCap
  <2>3. keepAlive \in 0..KeepAliveSendTime \cup {None}
    BY <2>0 DEF Init
  <2>4. /\ outTimer \in Timers /\ ackTimer \in Timers /\ owed \in 0..OwedCap
        /\ msgAge \in 0..AcknowledgeTime /\ readAge \in Ages /\ timeoutAge \in Ages
        /\ silence \in 0..MaxSilence /\ deaths \in 0..MaxDeaths /\ blocks \in 0..MaxBlocks
    BY <1>1, <2>0 DEF Init, Timers, Ages
  <2> QED BY <2>1, <2>2, <2>3, <2>4 DEF Init, TypeOK
<1>3. Watched
  BY DEF Init, Watched
<1> QED BY <1>2, <1>3 DEF TimersInv

\* Steps that leave the queue, its timer and the detection alone.
LEMMA QuietStep ==
  ASSUME TimersInv, UNCHANGED <<unack, outTimer, timedOut, reconnecting>>
  PROVE  Watched'
BY DEF TimersInv, Watched

\* What acknowledging does to what is owed.
LEMMA Acknowledged == ASSUME Acknowledge PROVE toAck' \in BOOLEAN /\ owed' \in 0..OwedCap
<1>1. Maximum({AcknowledgeTime, KeepAliveSendTime}) \in Nat
  BY TimersAssumption DEF Maximum
<1>2. 0 \in 0..OwedCap
  BY <1>1 DEF OwedCap
<1> QED BY <1>2 DEF Acknowledge

\* An age grows within its cap.
LEMMA OlderInRange == ASSUME NEW cap \in Nat, NEW a \in 0..cap PROVE Older(a, cap) \in 0..cap
BY DEF Older

\* A countdown stays within its range and never disarms a timer.
LEMMA CountdownInRange ==
  ASSUME NEW n \in Nat, NEW t \in 0..n \cup {None}
  PROVE  Countdown(t) \in 0..n \cup {None} /\ (t # None => Countdown(t) # None)
BY DEF Countdown, None

\* A run of the LoadEstimator shifts its history.
LEMMA LoadRunStep == ASSUME TimersInv, LoadRun PROVE TimersInv'
<1>1. lastRuns' \in [1..HistoryLength -> 0..RunCap] /\ loadTimer' \in {0, 1}
  <2>1. HistoryLength \in Nat /\ lastRuns \in [1..HistoryLength -> 0..RunCap]
    BY TimersAssumption DEF TimersInv, TypeOK
  <2>2. ASSUME NEW i \in 1..HistoryLength
        PROVE  (IF i = 1 THEN 0 ELSE lastRuns[i - 1]) \in 0..RunCap
    <3>1. CASE i = 1
      BY <2>1, <3>1 DEF RunCap
    <3>2. CASE i # 1
      <4>1. i - 1 \in 1..HistoryLength
        BY <2>1, <3>2
      <4> QED BY <2>1, <3>2, <4>1
    <3> QED BY <3>1, <3>2
  <2> QED BY <2>2 DEF LoadRun
<1>2. TypeOK'
  BY <1>1 DEF TimersInv, TypeOK, LoadRun, outgoing, incoming, detection, link
<1>3. Watched'
  BY QuietStep DEF LoadRun, outgoing, detection
<1> QED BY <1>2, <1>3 DEF TimersInv

\* The check for acknowledgements looks again, or times out.
LEMMA RecvAckTimerStep == ASSUME TimersInv, RecvAckTimerFires PROVE TimersInv'
<1>1. unack \in Seq(Ages) /\ readAge \in Ages /\ None \in Timers
  BY DEF TimersInv, TypeOK, Timers
<1>2. /\ outTimer' \in Timers /\ timedOut' \in BOOLEAN /\ timeoutAge' \in Ages
      /\ (unack # <<>> /\ ~reconnecting' /\ ~timedOut') => outTimer' # None
  BY <1>1, CheckWatches DEF RecvAckTimerFires, TimersInv
<1>3. TypeOK'
  BY <1>2 DEF TimersInv, TypeOK, RecvAckTimerFires, incoming, load, link
<1>4. Watched'
  BY <1>2 DEF Watched, RecvAckTimerFires
<1> QED BY <1>3, <1>4 DEF TimersInv

\* The keep-alive timer is always scheduled again.
LEMMA KeepAliveStep == ASSUME TimersInv, KeepAliveFires PROVE TimersInv'
<1>1. toAck' \in BOOLEAN /\ owed' \in 0..OwedCap
  BY Acknowledged DEF KeepAliveFires, KeepAliveAck
<1>2. \/ timedOut' = TRUE /\ timeoutAge' = 0
      \/ timedOut' = timedOut /\ timeoutAge' = timeoutAge
  BY DEF KeepAliveFires, KeepAliveTimeoutCheck, FireSocketTimeout
<1>3. timedOut' \in BOOLEAN /\ timeoutAge' \in Ages
  <2>1. 0 \in Ages
    BY TimersAssumption DEF Ages
  <2> QED BY <1>2, <2>1 DEF TimersInv, TypeOK
<1>4. keepAlive' \in 0..KeepAliveSendTime \cup {None}
  BY TimersAssumption DEF KeepAliveFires
<1>5. TypeOK'
  BY <1>1, <1>3, <1>4 DEF TimersInv, TypeOK, KeepAliveFires, outgoing, load, link
<1>6. Watched'
  BY <1>2 DEF TimersInv, Watched, KeepAliveFires, outgoing
<1> QED BY <1>5, <1>6 DEF TimersInv

\* The acknowledge timer sends an Ack or waits for the rest of its time.
LEMMA AckTimerStep == ASSUME TimersInv, AckTimerFires PROVE TimersInv'
<1>1. /\ ackTimer' \in Timers /\ toAck' \in BOOLEAN /\ owed' \in 0..OwedCap
  <2>1. CASE toAck /\ msgAge < AcknowledgeTime
    <3>1. AcknowledgeTime - msgAge \in Timers
      <4>1. msgAge \in 0..AcknowledgeTime
        BY DEF TimersInv, TypeOK
      <4>2. AcknowledgeTime - msgAge \in 0..TimeoutTime
        BY <4>1, TimersAssumption
      <4> QED BY <4>2 DEF Timers, Ages
    <3> QED BY <2>1, <3>1 DEF AckTimerFires, TimersInv, TypeOK
  <2>2. CASE ~(toAck /\ msgAge < AcknowledgeTime)
    BY <2>2, Acknowledged DEF AckTimerFires, Timers
  <2> QED BY <2>1, <2>2
<1>2. TypeOK'
  BY <1>1 DEF TimersInv, TypeOK, AckTimerFires, outgoing, detection, load, link
<1>3. Watched'
  BY QuietStep DEF AckTimerFires, outgoing, detection
<1> QED BY <1>2, <1>3 DEF TimersInv

\* A message that is sent starts the check unless it runs already.
LEMMA SendStep == ASSUME TimersInv, Send PROVE TimersInv'
<1>1. /\ unack \in Seq(Ages) /\ Len(unack) < MaxUnack /\ MaxUnack \in Nat
      /\ outTimer \in Timers /\ readAge \in Ages
      /\ (IF reconnecting THEN TimeoutTime ELSE 0) \in Ages
  BY TimersAssumption DEF Send, TimersInv, TypeOK, Ages
<1>2. unack' \in Seq(Ages) /\ Len(unack') <= MaxUnack
  BY <1>1, AppendProperties DEF Send
<1>3. /\ outTimer' \in Timers /\ timedOut' \in BOOLEAN /\ timeoutAge' \in Ages
      /\ (unack' # <<>> /\ ~reconnecting' /\ ~timedOut') => outTimer' # None
  <2> DEFINE q == unack'
  <2>1. q \in Seq(Ages) /\ RecvAckCheck(q, outTimer, readAge)
    BY <1>2 DEF Send
  <2> HIDE DEF q
  <2>2. /\ outTimer' \in Timers /\ timedOut' \in BOOLEAN /\ timeoutAge' \in Ages
        /\ (q # <<>> /\ ~reconnecting' /\ ~timedOut') => outTimer' # None
    BY <1>1, <2>1, CheckWatches DEF TimersInv
  <2> QED BY <2>2 DEF q
<1>4. toAck' \in BOOLEAN /\ owed' \in 0..OwedCap
  BY Acknowledged DEF Send
<1>5. TypeOK'
  BY <1>2, <1>3, <1>4 DEF TimersInv, TypeOK, Send, load, link
<1> QED BY <1>3, <1>5 DEF TimersInv, Watched

\* An acknowledgement leaves a suffix of the queue.
LEMMA RemainingInRange ==
  ASSUME TimersInv, NEW k \in 0..Len(unack)
  PROVE  Remaining(k) \in Seq(Ages) /\ Len(Remaining(k)) <= MaxUnack
         /\ (unack = <<>> => Remaining(k) = <<>>)
<1>1. unack \in Seq(Ages) /\ Len(unack) <= MaxUnack /\ MaxUnack \in Nat /\ Len(unack) \in Nat
  BY TimersAssumption DEF TimersInv, TypeOK
<1>2. /\ SubSeq(unack, k + 1, Len(unack)) \in Seq(Ages)
      /\ Len(SubSeq(unack, k + 1, Len(unack)))
           = IF k + 1 <= Len(unack) THEN Len(unack) - (k + 1) + 1 ELSE 0
  BY <1>1, SubSeqProperties
<1>3. Len(SubSeq(unack, k + 1, Len(unack))) <= Len(unack)
  BY <1>1, <1>2
<1>4. unack = <<>> => SubSeq(unack, k + 1, Len(unack)) = <<>>
  <2> SUFFICES ASSUME unack = <<>> PROVE SubSeq(unack, k + 1, Len(unack)) = <<>>
    OBVIOUS
  <2>1. Len(SubSeq(unack, k + 1, Len(unack))) = 0
    BY <1>1, <1>2
  <2> QED BY <1>2, <2>1, EmptySeq
<1>5. Len(SubSeq(unack, k + 1, Len(unack))) \in Nat
  BY <1>2, LenProperties
<1> QED BY <1>1, <1>2, <1>3, <1>4, <1>5 DEF Remaining

\* Writing the queue again renews its ages.
LEMMA WrittenInRange ==
  ASSUME TimersInv
  PROVE  Written(unack) \in Seq(Ages) /\ Len(Written(unack)) <= MaxUnack
<1>1. unack \in Seq(Ages) /\ 0 \in Ages /\ Len(unack) <= MaxUnack
  BY TimersAssumption DEF TimersInv, TypeOK, Ages
<1>2. DOMAIN unack = 1..Len(unack) /\ Len(unack) \in Nat
  BY <1>1, LenProperties
<1>3. Written(unack) = [i \in 1..Len(unack) |-> 0]
  BY <1>2 DEF Written
<1>4. Written(unack) \in Seq(Ages) /\ Len(Written(unack)) = Len(unack)
  BY <1>1, <1>2, <1>3
<1> QED BY <1>1, <1>4

\* What reading a message of any type keeps.
LEMMA ReadKeeps ==
  ASSUME TimersInv, NEW type, Read(type)
  PROVE  inbox' \in Seq({"Ack", "Regular", "ReplayRequest"}) /\ readAge' \in Ages
<1>1. 0 \in Ages
  BY TimersAssumption DEF Ages
<1>2. inbox \in Seq({"Ack", "Regular", "ReplayRequest"}) /\ inbox # <<>>
  BY DEF Read, TimersInv, TypeOK
<1>3. Tail(inbox) \in Seq({"Ack", "Regular", "ReplayRequest"})
  BY <1>2, HeadTailProperties
<1> QED BY <1>1, <1>3 DEF Read

\* An Ack shortens the queue.
LEMMA ReadAckStep == ASSUME TimersInv, ReadAck PROVE TimersInv'
<1>1. /\ unack' \in Seq(Ages) /\ Len(unack') <= MaxUnack
      /\ unack = <<>> => unack' = <<>>
  BY RemainingInRange DEF ReadAck
<1>2. Read("Ack") /\ inbox' \in Seq({"Ack", "Regular", "ReplayRequest"}) /\ readAge' \in Ages
  BY ReadKeeps DEF ReadAck
<1>3. TypeOK'
  BY <1>1, <1>2 DEF TimersInv, TypeOK, ReadAck, Read, incoming, load
<1>4. Watched'
  BY <1>1, <1>2 DEF TimersInv, Watched, ReadAck, Read
<1> QED BY <1>3, <1>4 DEF TimersInv

\* A Regular message shortens the queue and starts the acknowledge timer.
LEMMA ReadRegularStep == ASSUME TimersInv, ReadRegular PROVE TimersInv'
<1>1. /\ unack' \in Seq(Ages) /\ Len(unack') <= MaxUnack
      /\ unack = <<>> => unack' = <<>>
  BY RemainingInRange DEF ReadRegular
<1>2. Read("Regular") /\ inbox' \in Seq({"Ack", "Regular", "ReplayRequest"}) /\ readAge' \in Ages
  BY ReadKeeps DEF ReadRegular
<1>3. ackTimer' \in Timers /\ msgAge' \in 0..AcknowledgeTime
  <2>1. AcknowledgeTime \in Timers /\ 0 \in 0..AcknowledgeTime
    BY TimersAssumption DEF Timers, Ages
  <2>2. ackTimer \in Timers
    BY DEF TimersInv, TypeOK
  <2> QED BY <2>1, <2>2 DEF ReadRegular
<1>4. TypeOK'
  BY <1>1, <1>2, <1>3 DEF TimersInv, TypeOK, ReadRegular, Read, load
<1>5. Watched'
  BY <1>1, <1>2 DEF TimersInv, Watched, ReadRegular, Read
<1> QED BY <1>4, <1>5 DEF TimersInv

\* A replay writes the queue again: its messages are new.
LEMMA ReadReplayRequestStep == ASSUME TimersInv, ReadReplayRequest PROVE TimersInv'
<1> DEFINE q == Written(unack)
<1>1. q \in Seq(Ages) /\ Len(q) <= MaxUnack
  BY WrittenInRange
<1>2. outTimer \in Timers /\ 0 \in Ages
  BY TimersAssumption DEF TimersInv, TypeOK, Ages
<1>3. unack' = q /\ RecvAckCheck(q, outTimer, 0) /\ Read("ReplayRequest")
  BY DEF ReadReplayRequest
<1> HIDE DEF q
<1>4. /\ outTimer' \in Timers /\ timedOut' \in BOOLEAN /\ timeoutAge' \in Ages
      /\ (q # <<>> /\ ~reconnecting' /\ ~timedOut') => outTimer' # None
  BY <1>1, <1>2, <1>3, CheckWatches DEF TimersInv
<1>5. inbox' \in Seq({"Ack", "Regular", "ReplayRequest"}) /\ readAge' \in Ages
  BY <1>3, ReadKeeps
<1>6. TypeOK'
  BY <1>1, <1>3, <1>4, <1>5 DEF TimersInv, TypeOK, ReadReplayRequest, Read, incoming, load
<1> QED BY <1>3, <1>4, <1>6 DEF TimersInv, Watched

\* A new socket: nothing to read, and the checks stand still.
LEMMA BeginStep == ASSUME TimersInv, BeginAcceptReconnection PROVE TimersInv'
<1>1. readAge' \in Ages /\ timeoutAge' \in Ages /\ silence' \in 0..MaxSilence
  BY TimersAssumption DEF BeginAcceptReconnection, Ages
<1>2. inbox' \in Seq({"Ack", "Regular", "ReplayRequest"})
  BY DEF BeginAcceptReconnection
<1>3. TypeOK'
  BY <1>1, <1>2 DEF TimersInv, TypeOK, BeginAcceptReconnection, outgoing, incoming, load
<1>4. Watched'
  BY DEF BeginAcceptReconnection, Watched
<1> QED BY <1>3, <1>4 DEF TimersInv

\* The reconnection is over: the queue is written again and watched.
LEMMA EndStep == ASSUME TimersInv, EndAcceptReconnection PROVE TimersInv'
<1> DEFINE q == Written(unack)
<1>1. q \in Seq(Ages) /\ Len(q) <= MaxUnack
  BY WrittenInRange
<1>2. outTimer \in Timers /\ 0 \in Ages /\ 0 \in 0..MaxSilence
  BY TimersAssumption DEF TimersInv, TypeOK, Ages
<1>3. unack' = q /\ RecvAckCheck(q, outTimer, 0)
  BY DEF EndAcceptReconnection, CheckAfterwards
<1> HIDE DEF q
<1>4. /\ outTimer' \in Timers /\ timedOut' \in BOOLEAN /\ timeoutAge' \in Ages
      /\ (q # <<>> /\ ~reconnecting' /\ ~timedOut') => outTimer' # None
  BY <1>1, <1>2, <1>3, CheckWatches DEF TimersInv
<1>5. toAck' \in BOOLEAN /\ owed' \in 0..OwedCap
  BY Acknowledged DEF EndAcceptReconnection
<1>6. TypeOK'
  BY <1>1, <1>2, <1>3, <1>4, <1>5 DEF TimersInv, TypeOK, EndAcceptReconnection, load
<1> QED BY <1>3, <1>4, <1>6 DEF TimersInv, Watched

\* Arrivals, dead links and an event loop that blocks or is let go.
LEMMA EnvironmentStep == ASSUME TimersInv, Environment \/ Unblock PROVE TimersInv'
<1>1. ASSUME NEW type \in {"Ack", "Regular", "ReplayRequest"}, Arrive(type) PROVE TimersInv'
  <2>1. inbox' \in Seq({"Ack", "Regular", "ReplayRequest"}) /\ silence' \in 0..MaxSilence
    <3>1. Append(inbox, type) \in Seq({"Ack", "Regular", "ReplayRequest"})
      BY AppendProperties DEF TimersInv, TypeOK
    <3> QED BY <1>1, <3>1, TimersAssumption DEF Arrive, TimersInv, TypeOK
  <2>2. TypeOK'
    BY <1>1, <2>1 DEF TimersInv, TypeOK, Arrive, outgoing, incoming, detection, load
  <2>3. Watched'
    BY <1>1, QuietStep DEF Arrive, outgoing, detection
  <2> QED BY <2>2, <2>3 DEF TimersInv
<1>2. CASE Die
  <2>1. deaths' \in 0..MaxDeaths
    BY <1>2, TimersAssumption DEF Die, TimersInv, TypeOK
  <2>2. TypeOK'
    BY <1>2, <2>1 DEF TimersInv, TypeOK, Die, outgoing, incoming, detection, load
  <2>3. Watched'
    BY <1>2, QuietStep DEF Die, outgoing, detection
  <2> QED BY <2>2, <2>3 DEF TimersInv
<1>3. CASE Block
  <2>1. blocks' \in 0..MaxBlocks
    BY <1>3, TimersAssumption DEF Block, TimersInv, TypeOK
  <2>2. TypeOK'
    BY <1>3, <2>1 DEF TimersInv, TypeOK, Block, outgoing, incoming, detection, link
  <2>3. Watched'
    BY <1>3, QuietStep DEF Block, outgoing, detection
  <2> QED BY <2>2, <2>3 DEF TimersInv
<1>4. CASE Unblock
  <2>1. TypeOK'
    BY <1>4 DEF TimersInv, TypeOK, Unblock, outgoing, incoming, detection, link
  <2>2. Watched'
    BY <1>4, QuietStep DEF Unblock, outgoing, detection
  <2> QED BY <2>1, <2>2 DEF TimersInv
<1> QED BY <1>1, <1>2, <1>3, <1>4 DEF Environment

\* Time goes on: ages saturate and timers count down.
LEMMA TickStep == ASSUME TimersInv, Tick PROVE TimersInv'
<1>0. /\ TimeoutTime \in Nat /\ AcknowledgeTime \in Nat /\ KeepAliveSendTime \in Nat
      /\ MaxSilence \in Nat /\ RunCap \in Nat /\ OwedCap \in Nat
  <2>1. Maximum({AcknowledgeTime, KeepAliveSendTime}) \in Nat
    BY TimersAssumption DEF Maximum
  <2> QED BY <2>1, TimersAssumption DEF OwedCap, RunCap
<1>1. /\ msgAge' \in 0..AcknowledgeTime /\ readAge' \in Ages /\ timeoutAge' \in Ages
      /\ silence' \in 0..MaxSilence /\ owed' \in 0..OwedCap
  BY <1>0, OlderInRange DEF Tick, TimersInv, TypeOK, Ages
<1>2. /\ outTimer' \in Timers /\ ackTimer' \in Timers
      /\ keepAlive' \in 0..KeepAliveSendTime \cup {None} /\ loadTimer' \in {0, 1}
      /\ outTimer # None => outTimer' # None
  <2>1. /\ outTimer' = Countdown(outTimer) /\ ackTimer' = Countdown(ackTimer)
        /\ keepAlive' = Countdown(keepAlive) /\ loadTimer' = Countdown(loadTimer)
        /\ outTimer \in 0..TimeoutTime \cup {None} /\ ackTimer \in 0..TimeoutTime \cup {None}
        /\ keepAlive \in 0..KeepAliveSendTime \cup {None} /\ loadTimer \in {0, 1}
    BY DEF Tick, TimersInv, TypeOK, Timers, Ages
  <2>2. loadTimer' \in {0, 1}
    BY <2>1 DEF Countdown
  <2> QED BY <1>0, <2>1, <2>2, CountdownInRange DEF Timers, Ages
<1>3. lastRuns' \in [1..HistoryLength -> 0..RunCap]
  BY <1>0, OlderInRange DEF Tick, TimersInv, TypeOK
<1>4. /\ unack' \in Seq(Ages) /\ Len(unack') <= MaxUnack
      /\ unack = <<>> => unack' = <<>>
  <2>1. unack \in Seq(Ages) /\ Len(unack) \in Nat /\ DOMAIN unack = 1..Len(unack)
    BY LenProperties DEF TimersInv, TypeOK
  <2>2. unack' = [i \in 1..Len(unack) |-> Older(unack[i], TimeoutTime)]
    BY <2>1 DEF Tick
  <2>3. \A i \in 1..Len(unack) : Older(unack[i], TimeoutTime) \in Ages
    BY SMTT(40), <1>0, <2>1, OlderInRange DEF Ages
  <2>4. unack' \in Seq(Ages) /\ Len(unack') = Len(unack)
    BY <2>1, <2>2, <2>3
  <2>5. unack = <<>> => unack' = <<>>
    <3> SUFFICES ASSUME unack = <<>> PROVE unack' = <<>>
      OBVIOUS
    <3>1. Len(unack') = 0
      BY <2>4
    <3> QED BY <2>4, <3>1, EmptySeq
  <2>6. Len(unack') <= MaxUnack
    BY <2>4 DEF TimersInv, TypeOK
  <2> QED BY <2>4, <2>5, <2>6
<1>5. TypeOK'
  BY <1>1, <1>2, <1>3, <1>4 DEF TimersInv, TypeOK, Tick
<1>6. Watched'
  BY <1>2, <1>4 DEF TimersInv, Watched, Tick
<1> QED BY <1>5, <1>6 DEF TimersInv

-----------------------------------------------------------------------------
(* The theorems.                                                             *)

\* Every age and every timer stays within its range, and outside a
\* reconnection _recvAckCheck is scheduled while anything is unacknowledged,
\* for all durations.
THEOREM TimersInvariance == Spec => []TimersInv
<1>1. Init => TimersInv
  BY Initially
<1>2. TimersInv /\ [Next]_vars => TimersInv'
  <2> SUFFICES ASSUME TimersInv, [Next]_vars PROVE TimersInv'
    OBVIOUS
  <2>1. CASE EventLoop
    BY <2>1, LoadRunStep, RecvAckTimerStep, KeepAliveStep, AckTimerStep, ReadAckStep,
       ReadRegularStep, ReadReplayRequestStep DEF EventLoop
  <2>2. CASE Send
    BY <2>2, SendStep
  <2>3. CASE BeginAcceptReconnection \/ EndAcceptReconnection
    BY <2>3, BeginStep, EndStep
  <2>4. CASE Environment \/ Unblock
    BY <2>4, EnvironmentStep
  <2>5. CASE Tick
    BY <2>5, TickStep
  <2>6. CASE UNCHANGED vars
    <3>1. TypeOK'
      BY <2>6 DEF TimersInv, TypeOK, vars, outgoing, incoming, detection, load, link
    <3>2. Watched'
      BY <2>6, QuietStep DEF vars, outgoing, detection
    <3> QED BY <3>1, <3>2 DEF TimersInv
  <2> QED BY <2>1, <2>2, <2>3, <2>4, <2>5, <2>6 DEF Next
<1> QED BY <1>1, <1>2, PTL DEF Spec

\* The fields of the protocol object seen as clocks keep their types: no age and no
\* timer leaves its range, and a check that is rescheduled has a timer.
THEOREM TypeCorrect == Spec => []TypeOK
<1>1. TimersInv => TypeOK
  BY DEF TimersInv
<1> QED BY <1>1, TimersInvariance, PTL

\* No unacknowledged message is ever left without a scheduled check.
THEOREM AlwaysWatched == Spec => []Watched
<1>1. TimersInv => Watched
  BY DEF TimersInv
<1> QED BY <1>1, TimersInvariance, PTL

-----------------------------------------------------------------------------
(* Keep-alives.                                                              *)

\* Before the event loop is ever blocked, what is owed has waited at most as
\* long as the keep-alive interval has been running.
KeepAliveInv ==
    /\ blocked => blocks > 0
    /\ blocks = 0 /\ keepAlive # None => owed + keepAlive <= KeepAliveSendTime

\* Acknowledging clears the debt; a step that does not touch it keeps the bound.
LEMMA DebtBounded ==
  ASSUME TimersInv, KeepAliveInv, keepAlive' = keepAlive, blocked' = blocked, blocks' = blocks,
         owed' = 0 \/ owed' = owed
  PROVE  KeepAliveInv'
<1>1. /\ KeepAliveSendTime \in Nat /\ owed \in Nat
      /\ keepAlive \in 0..KeepAliveSendTime \cup {None}
  BY TimersAssumption, OwedCapNat DEF TimersInv, TypeOK
<1>2. blocked' => blocks' > 0
  BY DEF KeepAliveInv
<1>3. blocks' = 0 /\ keepAlive' # None => owed' + keepAlive' <= KeepAliveSendTime
  <2>1. CASE owed' = 0
    BY <1>1, <2>1 DEF None
  <2>2. CASE owed' = owed
    BY <2>2 DEF KeepAliveInv
  <2> QED BY <2>1, <2>2
<1> QED BY <1>2, <1>3 DEF KeepAliveInv

\* While the event loop is not blocked, time goes on only after a keep-alive
\* that is due has been sent.
LEMMA KeepAliveTick ==
  ASSUME TimersInv, KeepAliveInv, Tick
  PROVE  KeepAliveInv'
<1>1. /\ KeepAliveSendTime \in Nat /\ owed \in Nat /\ OwedCap \in Nat /\ blocks \in Nat
      /\ keepAlive \in 0..KeepAliveSendTime \cup {None}
  BY TimersAssumption, OwedCapNat DEF TimersInv, TypeOK
<1>2. blocked' => blocks' > 0
  BY DEF KeepAliveInv, Tick
<1>3. ASSUME blocks' = 0, keepAlive' # None PROVE owed' + keepAlive' <= KeepAliveSendTime
  <2>1. blocks = 0 /\ ~blocked
    BY <1>3, <1>1 DEF KeepAliveInv, Tick
  <2>2. keepAlive # 0
    BY <2>1 DEF Tick, NothingToDo
  <2>3. keepAlive # None
    BY <1>3 DEF Tick, Countdown, None
  <2>4. keepAlive \in 1..KeepAliveSendTime /\ keepAlive' = keepAlive - 1
    BY <1>1, <2>2, <2>3 DEF Tick, Countdown
  <2>5. owed' = owed \/ owed' = owed + 1
    <3>1. owed \in 0..OwedCap
      BY DEF TimersInv, TypeOK
    <3>2. owed' = owed \/ owed' = Older(owed, OwedCap)
      BY DEF Tick
    <3>3. Older(owed, OwedCap) = owed \/ Older(owed, OwedCap) = owed + 1
      BY <1>1, <3>1 DEF Older
    <3> QED BY <3>2, <3>3
  <2>6. owed + keepAlive <= KeepAliveSendTime
    BY <2>1, <2>3 DEF KeepAliveInv
  <2> QED BY <1>1, <2>4, <2>5, <2>6
<1> QED BY <1>2, <1>3 DEF KeepAliveInv

\* Every step keeps the bound.
LEMMA KeepAliveInvStep ==
  ASSUME TimersInv, KeepAliveInv, [Next]_vars
  PROVE  KeepAliveInv'
<1>1. CASE LoadRun \/ RecvAckTimerFires
  BY <1>1, DebtBounded DEF LoadRun, RecvAckTimerFires, incoming, load
<1>2. CASE KeepAliveFires
  <2>1. KeepAliveSendTime \in Nat /\ owed' = 0 /\ keepAlive' = KeepAliveSendTime
    BY <1>2, TimersAssumption DEF KeepAliveFires, KeepAliveAck, Acknowledge
  <2>2. blocked' => blocks' > 0
    BY <1>2 DEF KeepAliveInv, KeepAliveFires, load
  <2> QED BY <2>1, <2>2 DEF KeepAliveInv
<1>3. CASE AckTimerFires
  <2>1. owed' = 0 \/ owed' = owed
    BY <1>3 DEF AckTimerFires, Acknowledge
  <2> QED BY <1>3, <2>1, DebtBounded DEF AckTimerFires, load
<1>4. CASE ReadAck \/ ReadRegular \/ ReadReplayRequest
  <2>1. owed' = owed /\ UNCHANGED <<keepAlive, blocked, blocks>>
    BY <1>4 DEF ReadAck, ReadRegular, ReadReplayRequest, Read, incoming, load
  <2> QED BY <2>1, DebtBounded
<1>5. CASE Send \/ EndAcceptReconnection
  BY <1>5, DebtBounded DEF Send, EndAcceptReconnection, Acknowledge, load
<1>6. CASE BeginAcceptReconnection \/ Die
  BY <1>6, DebtBounded DEF BeginAcceptReconnection, Die, incoming, load
<1>7. ASSUME NEW type, Arrive(type) PROVE KeepAliveInv'
  BY <1>7, DebtBounded DEF Arrive, incoming, load
<1>8. CASE Block
  <2>1. blocks \in Nat /\ blocks' = blocks + 1
    BY <1>8, TimersAssumption DEF Block, TimersInv, TypeOK
  <2> QED BY <2>1 DEF KeepAliveInv
<1>9. CASE Unblock
  BY <1>9 DEF KeepAliveInv, Unblock, incoming
<1>10. CASE Tick
  BY <1>10, KeepAliveTick
<1>11. CASE UNCHANGED vars
  BY <1>11, DebtBounded DEF vars, incoming, load
<1> QED BY <1>1, <1>2, <1>3, <1>4, <1>5, <1>6, <1>7, <1>8, <1>9, <1>10, <1>11
        DEF Next, EventLoop, Environment

\* With keep-alives, and as long as the event loop has not been blocked, no
\* acknowledgement is owed for longer than KeepAliveSendTime.
THEOREM AckInTime == Spec => []AckedByKeepAlive
<1>1. Init => KeepAliveInv
  <2> SUFFICES ASSUME Init PROVE KeepAliveInv
    OBVIOUS
  <2>1. KeepAliveSendTime \in Nat /\ owed = 0 /\ keepAlive \in {KeepAliveSendTime, None}
    BY TimersAssumption DEF Init
  <2> QED BY <2>1 DEF KeepAliveInv, Init
<1>2. TimersInv /\ KeepAliveInv /\ [Next]_vars => KeepAliveInv'
  BY KeepAliveInvStep
<1>3. TimersInv /\ KeepAliveInv => AckedByKeepAlive
  <2> SUFFICES ASSUME TimersInv, KeepAliveInv, blocks = 0, keepAlive # None
               PROVE  owed <= KeepAliveSendTime
    BY DEF AckedByKeepAlive
  <2>1. KeepAliveSendTime \in Nat /\ owed \in Nat /\ keepAlive \in 0..KeepAliveSendTime
    BY TimersAssumption, OwedCapNat DEF TimersInv, TypeOK
  <2> QED BY <2>1 DEF KeepAliveInv
<1> QED BY <1>1, <1>2, <1>3, TimersInvariance, PTL DEF Spec

-----------------------------------------------------------------------------
(* False alarms.                                                             *)

\* The i-th last run of the LoadEstimator is as old as the time without data
\* lets one expect of an event loop that was blocked meanwhile.
Stale(i) == readAge <= lastRuns[i] + MaxSilence \/ lastRuns[i] = RunCap

\* At most the latest run is fresh: the one that was due when the event loop
\* was let go.
RunsStale ==
    \A i \in 1..HistoryLength : Stale(i) \/ (i = 1 /\ ~blocked /\ loadTimer = 1)

\* On a live link the time without data is that without arrivals, if nothing
\* waits to be read; and it is no longer than the runs of the estimator show.
LinkInv ==
    alive /\ ~reconnecting => (inbox = <<>> => readAge <= silence) /\ RunsStale

AlarmInv == LinkInv /\ NoFalseAlarm

\* Directly after data, and whenever the link has been silent for a short time
\* only, nothing is required of the runs.
LEMMA RecentDataStale ==
  ASSUME TimersInv, TimersInv', readAge' <= MaxSilence
  PROVE  RunsStale'
<1>1. /\ lastRuns' \in [1..HistoryLength -> 0..RunCap] /\ RunCap \in Nat
      /\ readAge' \in Nat /\ MaxSilence \in Nat
  <2>1. lastRuns' \in [1..HistoryLength -> 0..RunCap] /\ readAge' \in 0..TimeoutTime
    BY DEF TimersInv, TypeOK, Ages
  <2>2. TimeoutTime \in Nat /\ MaxSilence \in Nat /\ RunCap \in Nat
    BY TimersAssumption DEF RunCap
  <2> QED BY <2>1, <2>2
<1>2. \A i \in 1..HistoryLength : readAge' <= lastRuns'[i] + MaxSilence
  BY <1>1
<1> QED BY <1>2 DEF RunsStale, Stale

\* If the link is alive, nothing has been read for TimeoutTime and the protocol
\* is not reconnecting, then at most one run is recent and the load is high.
LEMMA LongPauseIsHighLoad ==
  ASSUME TimersInv, RunsStale, readAge >= TimeoutTime
  PROVE  HasHighLoad
<1> DEFINE recent == {i \in 1..HistoryLength : lastRuns[i] <= 1 + HistoryLength}
<1>1. /\ HistoryLength \in Nat /\ TimeoutTime \in Nat /\ MaxSilence \in Nat /\ readAge \in Nat
      /\ lastRuns \in [1..HistoryLength -> 0..RunCap] /\ RunCap = HistoryLength + 2
      /\ HistoryLength >= 2 /\ HistoryLength + MaxSilence + 2 <= TimeoutTime
  BY TimersAssumption, LoadAssumption DEF TimersInv, TypeOK, Ages, RunCap
<1>2. ASSUME NEW i \in 1..HistoryLength, i # 1 PROVE lastRuns[i] > 1 + HistoryLength
  <2>1. readAge <= lastRuns[i] + MaxSilence \/ lastRuns[i] = RunCap
    BY <1>2 DEF RunsStale, Stale
  <2>2. lastRuns[i] \in Nat
    BY <1>1
  <2> QED BY <1>1, <2>1, <2>2
<1>3. recent \subseteq {1}
  BY <1>1, <1>2
<1>4. IsFiniteSet(recent) /\ Cardinality(recent) <= 1
  <2>1. IsFiniteSet({1}) /\ Cardinality({1}) = 1
    BY FS_Singleton
  <2> QED BY <1>3, <2>1, FS_Subset
<1>5. Cardinality(recent) \in Nat
  BY <1>4, FS_CardinalityType
<1>6. 2 * Cardinality(recent) <= HistoryLength
  <2> HIDE DEF recent
  <2> QED BY <1>1, <1>4, <1>5
<1> QED BY <1>6 DEF HasHighLoad

\* _recvAckCheck and the keep-alive check do not fire on a live link.
LEMMA CheckIsQuiet ==
  ASSUME TimersInv, AlarmInv, alive, ~reconnecting, readAge >= TimeoutTime
  PROVE  HasHighLoad
BY LongPauseIsHighLoad DEF AlarmInv, LinkInv

\* _recvAckCheck with data just received, or with the age of the last data.
LEMMA RecvAckIsQuiet ==
  ASSUME TimersInv, AlarmInv, NEW q, NEW t, NEW age, RecvAckCheck(q, t, age), alive,
         reconnecting' \/ ~reconnecting \/ age = 0, age = 0 \/ age = readAge
  PROVE  timedOut' = timedOut
<1>1. CASE q = <<>> \/ t # None \/ reconnecting'
  BY <1>1 DEF RecvAckCheck
<1>2. CASE q # <<>> /\ t = None /\ ~reconnecting'
  <2>1. ~(age >= TimeoutTime /\ ~HasHighLoad)
    <3>1. CASE age = 0
      BY <3>1, TimersAssumption
    <3>2. CASE age # 0
      BY <1>2, <3>2, CheckIsQuiet
    <3> QED BY <3>1, <3>2
  <2> QED BY <1>2, <2>1 DEF RecvAckCheck
<1> QED BY <1>1, <1>2

\* Steps that leave the link, the runs and the time of the last data alone.
LEMMA SameLink ==
  ASSUME AlarmInv, UNCHANGED <<alive, reconnecting, inbox, silence, readAge, load>>,
         alive => timedOut' = timedOut
  PROVE  AlarmInv'
<1>1. LinkInv'
  BY DEF AlarmInv, LinkInv, RunsStale, Stale, load
<1>2. NoFalseAlarm'
  BY DEF AlarmInv, NoFalseAlarm
<1> QED BY <1>1, <1>2 DEF AlarmInv

\* Steps after which data have just been read, or the link is dead.
LEMMA FreshData ==
  ASSUME TimersInv, TimersInv', AlarmInv, readAge' = 0, alive' => ~timedOut'
  PROVE  AlarmInv'
<1>1. MaxSilence \in Nat /\ silence' \in 0..MaxSilence
  BY TimersAssumption DEF TimersInv, TypeOK
<1>2. readAge' <= MaxSilence /\ readAge' <= silence'
  BY <1>1
<1>3. RunsStale'
  BY <1>2, RecentDataStale
<1> QED BY <1>2, <1>3 DEF AlarmInv, LinkInv, NoFalseAlarm

\* A run of the estimator while nothing was read.
LEMMA LoadRunAlarm ==
  ASSUME TimersInv, AlarmInv, LoadRun
  PROVE  AlarmInv'
<1>1. HistoryLength \in Nat
  BY TimersAssumption
<1>2. /\ UNCHANGED <<alive, reconnecting, inbox, silence, readAge, timedOut, blocked>>
      /\ ~blocked /\ loadTimer = 0 /\ loadTimer' = 1
      /\ lastRuns' = [i \in 1..HistoryLength |-> IF i = 1 THEN 0 ELSE lastRuns[i - 1]]
  BY DEF LoadRun, detection, link
<1>3. ASSUME alive, ~reconnecting PROVE RunsStale'
  <2>1. \A i \in 1..HistoryLength : Stale(i)
    BY <1>2, <1>3 DEF AlarmInv, LinkInv, RunsStale
  <2>2. ASSUME NEW i \in 1..HistoryLength, i # 1 PROVE Stale(i)'
    <3>1. i - 1 \in 1..HistoryLength
      BY <1>1, <2>2
    <3>2. lastRuns'[i] = lastRuns[i - 1]
      BY <1>2, <2>2
    <3> QED BY <1>2, <2>1, <3>1, <3>2 DEF Stale
  <2> QED BY <1>2, <2>2 DEF RunsStale
<1>4. LinkInv'
  BY <1>2, <1>3 DEF AlarmInv, LinkInv
<1> QED BY <1>2, <1>4 DEF AlarmInv, NoFalseAlarm

\* Time goes on: either nothing waits to be read, or the event loop is blocked
\* and the runs grow as old as the data.
LEMMA TickAlarm ==
  ASSUME TimersInv, TimersInv', AlarmInv, Tick
  PROVE  AlarmInv'
<1>1. /\ TimeoutTime \in Nat /\ MaxSilence \in Nat /\ RunCap \in Nat
      /\ readAge \in 0..TimeoutTime /\ silence \in 0..MaxSilence
      /\ lastRuns \in [1..HistoryLength -> 0..RunCap]
  <2>1. /\ readAge \in 0..TimeoutTime /\ silence \in 0..MaxSilence
        /\ lastRuns \in [1..HistoryLength -> 0..RunCap]
    BY DEF TimersInv, TypeOK, Ages
  <2>2. TimeoutTime \in Nat /\ MaxSilence \in Nat /\ RunCap \in Nat
    BY TimersAssumption DEF RunCap
  <2> QED BY <2>1, <2>2
<1>2. /\ UNCHANGED <<alive, reconnecting, inbox, timedOut, blocked>>
      /\ readAge' = Older(readAge, TimeoutTime) /\ silence' = Older(silence, MaxSilence)
      /\ lastRuns' = [i \in 1..HistoryLength |-> Older(lastRuns[i], RunCap)]
  BY <1>1 DEF Tick
<1>3. readAge' <= readAge + 1 /\ readAge' \in Nat
  BY <1>1, <1>2 DEF Older
<1>4. ASSUME alive, ~reconnecting, inbox = <<>>
      PROVE  readAge' <= silence' /\ readAge' <= MaxSilence
  <2>1. silence < MaxSilence
    BY <1>4 DEF Tick
  <2>2. silence' = silence + 1
    BY <1>1, <1>2, <2>1 DEF Older
  <2>3. readAge <= silence
    BY <1>4 DEF AlarmInv, LinkInv
  <2> QED BY <1>1, <1>3, <2>1, <2>2, <2>3
<1>5. ASSUME alive, ~reconnecting PROVE RunsStale'
  <2>1. CASE inbox = <<>>
    BY <1>4, <1>5, <2>1, RecentDataStale
  <2>2. CASE inbox # <<>>
    <3>1. blocked
      BY <2>2 DEF Tick, NothingToDo
    <3>2. \A i \in 1..HistoryLength : Stale(i)
      BY <1>5, <3>1 DEF AlarmInv, LinkInv, RunsStale
    <3>3. ASSUME NEW i \in 1..HistoryLength PROVE Stale(i)'
      <4> DEFINE a == lastRuns[i]
      <4>1. a \in 0..RunCap /\ lastRuns'[i] = Older(a, RunCap)
        BY <1>1, <1>2
      <4>2. readAge <= a + MaxSilence \/ a = RunCap
        BY <3>2 DEF Stale
      <4> HIDE DEF a
      <4>3. \/ Older(a, RunCap) = RunCap
            \/ a < RunCap /\ Older(a, RunCap) = a + 1
        BY DEF Older
      <4>4. readAge' <= Older(a, RunCap) + MaxSilence \/ Older(a, RunCap) = RunCap
        BY <1>1, <1>3, <4>1, <4>2, <4>3
      <4> QED BY <4>1, <4>4 DEF Stale
    <3> QED BY <3>3 DEF RunsStale
  <2> QED BY <2>1, <2>2
<1>6. LinkInv'
  BY <1>2, <1>4, <1>5 DEF LinkInv
<1> QED BY <1>2, <1>6 DEF AlarmInv, NoFalseAlarm

\* What the environment does: something arrives, the link dies, the event loop
\* is blocked with nothing left to read, and let go.
LEMMA EnvironmentAlarm ==
  ASSUME TimersInv, TimersInv', AlarmInv, Environment \/ Unblock
  PROVE  AlarmInv'
<1>1. ASSUME NEW type \in {"Ack", "Regular", "ReplayRequest"}, Arrive(type) PROVE AlarmInv'
  <2>1. UNCHANGED <<alive, reconnecting, readAge, timedOut, lastRuns, blocked, loadTimer>>
    BY <1>1 DEF Arrive, detection, load
  <2>2. inbox' # <<>>
    <3>1. MaxInbox \in Nat \ {0} /\ inbox \in Seq({"Ack", "Regular", "ReplayRequest"})
      BY TimersAssumption DEF TimersInv, TypeOK
    <3>2. CASE Len(inbox) < MaxInbox
      <4>1. inbox' = Append(inbox, type)
        BY <1>1, <3>2 DEF Arrive
      <4>2. Append(inbox, type) # <<>>
        BY <3>1
      <4> QED BY <4>1, <4>2
    <3>3. CASE ~(Len(inbox) < MaxInbox)
      <4>1. inbox' = inbox
        BY <1>1, <3>3 DEF Arrive
      <4>2. Len(inbox) # 0
        BY <3>1, <3>3
      <4> QED BY <3>1, <4>1, <4>2
    <3> QED BY <3>2, <3>3
  <2>3. LinkInv'
    BY <2>1, <2>2 DEF AlarmInv, LinkInv, RunsStale, Stale
  <2> QED BY <2>1, <2>3 DEF AlarmInv, NoFalseAlarm
<1>2. CASE Die
  BY <1>2 DEF Die, AlarmInv, LinkInv, NoFalseAlarm
<1>3. CASE Block
  <2>1. UNCHANGED <<alive, reconnecting, readAge, timedOut, lastRuns, inbox, silence>>
    BY <1>3 DEF Block, detection, link
  <2>2. ASSUME alive, ~reconnecting PROVE RunsStale'
    <3>1. readAge <= silence
      BY <1>3, <2>2 DEF Block, AlarmInv, LinkInv
    <3>2. readAge \in Nat /\ silence \in 0..MaxSilence /\ MaxSilence \in Nat
      BY TimersAssumption DEF TimersInv, TypeOK, Ages
    <3>3. readAge' <= MaxSilence
      BY <2>1, <3>1, <3>2
    <3> QED BY <3>3, RecentDataStale
  <2>3. LinkInv'
    BY <2>1, <2>2 DEF AlarmInv, LinkInv
  <2> QED BY <2>1, <2>3 DEF AlarmInv, NoFalseAlarm
<1>4. CASE Unblock
  <2>1. /\ UNCHANGED <<alive, reconnecting, readAge, timedOut, lastRuns, loadTimer, inbox, silence>>
        /\ blocked
    BY <1>4 DEF Unblock, detection, link
  <2>2. LinkInv'
    BY <2>1 DEF AlarmInv, LinkInv, RunsStale, Stale
  <2> QED BY <2>1, <2>2 DEF AlarmInv, NoFalseAlarm
<1> QED BY <1>1, <1>2, <1>3, <1>4 DEF Environment

\* No step declares a live socket dead.
LEMMA AlarmInvStep ==
  ASSUME TimersInv, TimersInv', AlarmInv, [Next]_vars
  PROVE  AlarmInv'
<1>1. CASE LoadRun
  BY <1>1, LoadRunAlarm
<1>2. CASE RecvAckTimerFires
  <2>1. alive => timedOut' = timedOut
    BY <1>2, RecvAckIsQuiet DEF RecvAckTimerFires
  <2> QED BY <1>2, <2>1, SameLink DEF RecvAckTimerFires, link
<1>3. CASE KeepAliveFires
  <2>1. alive => timedOut' = timedOut
    BY <1>3, CheckIsQuiet DEF KeepAliveFires, KeepAliveTimeoutCheck
  <2> QED BY <1>3, <2>1, SameLink DEF KeepAliveFires, link
<1>4. CASE AckTimerFires
  BY <1>4, SameLink DEF AckTimerFires, detection, link
<1>5. CASE Send
  <2>1. alive => timedOut' = timedOut
    BY <1>5, RecvAckIsQuiet DEF Send
  <2> QED BY <1>5, <2>1, SameLink DEF Send, link
<1>6. CASE ReadAck \/ ReadRegular
  BY <1>6, FreshData DEF ReadAck, ReadRegular, Read, AlarmInv, NoFalseAlarm
<1>7. CASE ReadReplayRequest
  <2>1. alive => timedOut' = timedOut
    BY <1>7, RecvAckIsQuiet DEF ReadReplayRequest
  <2> QED BY <1>7, <2>1, FreshData DEF ReadReplayRequest, Read, AlarmInv, NoFalseAlarm
<1>8. CASE BeginAcceptReconnection
  BY <1>8, FreshData DEF BeginAcceptReconnection
<1>9. CASE EndAcceptReconnection
  <2>1. alive => timedOut' = timedOut
    BY <1>9, RecvAckIsQuiet DEF EndAcceptReconnection, CheckAfterwards
  <2> QED BY <1>9, <2>1, FreshData DEF EndAcceptReconnection, AlarmInv, NoFalseAlarm
<1>10. CASE Environment \/ Unblock
  BY <1>10, EnvironmentAlarm
<1>11. CASE Tick
  BY <1>11, TickAlarm
<1>12. CASE UNCHANGED vars
  BY <1>12, SameLink DEF vars, detection, link
<1> QED BY <1>1, <1>2, <1>3, <1>4, <1>5, <1>6, <1>7, <1>8, <1>9, <1>10, <1>11, <1>12
        DEF Next, EventLoop

\* onSocketTimeout never fires on a live link, for all durations under which
\* the LoadEstimator forgets a blocked period no sooner than TimeoutTime.
THEOREM OnlyDeadSocketsTimeOut == Spec => []NoFalseAlarm
<1>1. Init => LinkInv /\ NoFalseAlarm
  <2> SUFFICES ASSUME Init PROVE LinkInv /\ NoFalseAlarm
    OBVIOUS
  <2>1. /\ HistoryLength \in Nat /\ MaxSilence \in Nat /\ readAge = 0 /\ silence = 0
        /\ lastRuns = [i \in 1..HistoryLength |-> i - 1]
    BY TimersAssumption DEF Init
  <2>2. \A i \in 1..HistoryLength : readAge <= lastRuns[i] + MaxSilence
    BY <2>1
  <2>3. LinkInv
    BY <2>1, <2>2 DEF LinkInv, RunsStale, Stale
  <2> QED BY <2>3 DEF Init, NoFalseAlarm
<1>2. TimersInv /\ TimersInv' /\ AlarmInv /\ [Next]_vars => AlarmInv'
  BY AlarmInvStep
<1>3. AlarmInv => NoFalseAlarm
  BY DEF AlarmInv
<1>4. LinkInv /\ NoFalseAlarm => AlarmInv
  BY DEF AlarmInv
<1> QED BY <1>1, <1>2, <1>3, <1>4, TimersInvariance, PTL DEF Spec

=============================================================================
