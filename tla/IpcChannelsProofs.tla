-------------------------- MODULE IpcChannelsProofs --------------------------
(***************************************************************************)
(* IpcChannels for any calls, events, channels and bounds.                 *)
(***************************************************************************)
EXTENDS IpcChannels, FiniteSetTheorems, TLAPS

\* What a caller can see of its promise.
Outcomes == {"none", "open", "cancelled", "unsent", "unknown"} \cup Answers
-----------------------------------------------------------------------------
(* Sequences of messages.                                                    *)

\* The first message and the rest.
LEMMA HeadAndTail ==
  ASSUME NEW S, NEW q \in Seq(S), q # <<>>
  PROVE  /\ 1 \in DOMAIN q /\ Head(q) = q[1] /\ Head(q) \in S /\ Tail(q) \in Seq(S)
         /\ \A i \in DOMAIN Tail(q) : i \in Nat /\ i + 1 # 1 /\ i + 1 \in DOMAIN q
                                      /\ Tail(q)[i] = q[i + 1]
         /\ \A i \in DOMAIN q : i \in Nat /\ i >= 1 /\ (i # 1 => i - 1 \in DOMAIN Tail(q))
OBVIOUS

\* p is the messages of q and then those of s.
Joined(q, s, p) ==
    /\ Len(q) \in Nat
    /\ \A i \in DOMAIN q : i \in Nat /\ i <= Len(q) /\ i \in DOMAIN p /\ p[i] = q[i]
    /\ \A i \in DOMAIN s :
          i \in Nat /\ i > 0 /\ Len(q) + i \in DOMAIN p /\ p[Len(q) + i] = s[i]
    /\ \A i \in DOMAIN p : i \in DOMAIN q \/ \E j \in DOMAIN s : i = Len(q) + j

\* More messages.
LEMMA More ==
  ASSUME NEW S, NEW q \in Seq(S), NEW s \in Seq(S)
  PROVE  q \o s \in Seq(S) /\ Joined(q, s, q \o s)
<1> DEFINE p == q \o s
<1>1. /\ p \in Seq(S) /\ Len(q) \in Nat /\ Len(s) \in Nat /\ Len(p) = Len(q) + Len(s)
      /\ DOMAIN q = 1..Len(q) /\ DOMAIN s = 1..Len(s) /\ DOMAIN p = 1..Len(p)
      /\ \A i \in 1..Len(p) : p[i] = IF i <= Len(q) THEN q[i] ELSE s[i - Len(q)]
  OBVIOUS
<1> HIDE DEF p
<1>2. \A i \in DOMAIN q : i \in Nat /\ i <= Len(q) /\ i \in DOMAIN p /\ p[i] = q[i]
  BY <1>1
<1>3. ASSUME NEW i \in DOMAIN s
      PROVE  i \in Nat /\ i > 0 /\ Len(q) + i \in DOMAIN p /\ p[Len(q) + i] = s[i]
  <2>1. i \in Nat /\ i > 0 /\ Len(q) + i \in 1..Len(p) /\ ~(Len(q) + i <= Len(q))
    BY <1>1
  <2>2. Len(q) + i - Len(q) = i
    BY <1>1, <2>1
  <2> QED BY <1>1, <2>1, <2>2
<1>4. ASSUME NEW i \in DOMAIN p, i \notin DOMAIN q
      PROVE  \E j \in DOMAIN s : i = Len(q) + j
  <2>1. i - Len(q) \in DOMAIN s /\ i = Len(q) + (i - Len(q))
    BY <1>1, <1>4
  <2> QED BY <2>1
<1>5. p \in Seq(S) /\ Joined(q, s, p)
  BY <1>1, <1>2, <1>3, <1>4 DEF Joined
<1> QED BY <1>5 DEF p

\* Append as a concatenation.
LEMMA AppendIsConcat ==
  ASSUME NEW S, NEW q \in Seq(S), NEW m \in S
  PROVE  /\ Append(q, m) = q \o <<m>> /\ <<m>> \in Seq(S)
         /\ DOMAIN <<m>> = {1} /\ <<m>>[1] = m
OBVIOUS

\* A finite set as a sequence.
LEMMA SequenceOfSet ==
  ASSUME NEW S, IsFiniteSet(S)
  PROVE  LET s == SetToSeq(S)
         IN  /\ s \in Seq(S)
             /\ \A i, j \in DOMAIN s : s[i] = s[j] => i = j
             /\ \A x \in S : \E i \in DOMAIN s : s[i] = x
<1> DEFINE n == Cardinality(S)
<1>1. n \in Nat /\ ExistsBijection(1..n, S)
  BY FS_CardinalityType
<1>2. PICK f \in Bijection(1..n, S) : TRUE
  BY <1>1 DEF ExistsBijection
<1>3. f \in [1..n -> S] /\ IsInjective(f)
  BY <1>2 DEF Bijection, Injection
<1>4. SetToSeq(S) \in [1..n -> S] /\ IsInjective(SetToSeq(S))
  BY <1>3 DEF SetToSeq
<1>5. \A x \in S : \E i \in 1..n : SetToSeq(S)[i] = x
  <2>1. Cardinality(1..n) = n
    BY <1>1, FS_Interval
  <2>2. SetToSeq(S) \in Injection(1..n, S)
    BY <1>4 DEF Injection
  <2>3. SetToSeq(S) \in Surjection(1..n, S)
    BY <2>1, <2>2, FS_Injection
  <2> QED BY <2>3 DEF Surjection
<1> QED BY <1>1, <1>4, <1>5 DEF IsInjective

\* What TakeBack says: one message for every request that the server knows.
LEMMA Messages ==
  ASSUME TypeOK, NEW R \in SUBSET Requests, IsFiniteSet(R), TakeBack(R)
  PROVE  \E s \in Seq(ServerMessages) :
            /\ toServer' = toServer \o s
            /\ \A i \in DOMAIN s :
                  /\ s[i].id \in R \ (waiting \cup ready)
                  /\ s[i].type = IF s[i].id \in Calls THEN "PromiseCancel" ELSE "EventDispose"
            /\ \A i, j \in DOMAIN s : s[i].id = s[j].id => i = j
            /\ \A r \in R \ (waiting \cup ready) : \E i \in DOMAIN s : s[i].id = r
<1> DEFINE told == R \ (waiting \cup ready)
           f == [r \in told |->
                    Request(IF r \in Calls THEN "PromiseCancel" ELSE "EventDispose", r)]
           messages == {Request(IF r \in Calls THEN "PromiseCancel" ELSE "EventDispose", r) :
                           r \in told}
           s == SetToSeq(messages)
<1>1. IsFiniteSet(told)
  BY FS_Subset
<1>2. f \in Surjection(told, messages)
  BY DEF Surjection
<1>3. IsFiniteSet(messages)
  BY <1>1, <1>2, FS_Surjection
<1>4. /\ s \in Seq(messages)
      /\ \A i, j \in DOMAIN s : s[i] = s[j] => i = j
      /\ \A x \in messages : \E i \in DOMAIN s : s[i] = x
  BY <1>3, SequenceOfSet
<1>5. toServer' = toServer \o s
  BY DEF TakeBack
<1>6. \A x \in messages :
         /\ x \in ServerMessages /\ x.id \in told
         /\ x = Request(IF x.id \in Calls THEN "PromiseCancel" ELSE "EventDispose", x.id)
  BY DEF Request, ServerMessages, Requests
<1> HIDE DEF s, messages
<1>7. \A i \in DOMAIN s : s[i] \in messages
  BY <1>4
<1>8. s \in Seq(ServerMessages)
  BY <1>4, <1>6, <1>7
<1>9. \A i \in DOMAIN s :
         /\ s[i].id \in told
         /\ s[i].type = IF s[i].id \in Calls THEN "PromiseCancel" ELSE "EventDispose"
  BY <1>6, <1>7 DEF Request
<1>10. \A i, j \in DOMAIN s : s[i].id = s[j].id => i = j
  BY <1>4, <1>6, <1>7
<1>11. \A r \in told : \E i \in DOMAIN s : s[i].id = r
  <2> SUFFICES ASSUME NEW r \in told PROVE \E i \in DOMAIN s : s[i].id = r
    OBVIOUS
  <2>1. Request(IF r \in Calls THEN "PromiseCancel" ELSE "EventDispose", r) \in messages
    BY DEF messages
  <2> QED BY <1>4, <2>1 DEF Request
<1> QED BY <1>5, <1>8, <1>9, <1>10, <1>11
-----------------------------------------------------------------------------
(* Types.                                                                    *)

\* At first nothing was asked.
LEMMA TypesInitially == Init => TypeOK
<1> SUFFICES ASSUME Init PROVE TypeOK
  OBVIOUS
<1>1. toClient \in Seq(ClientMessages)
  <2>1. Initialize \in ClientMessages
    BY DEF ClientMessages
  <2> QED BY <2>1 DEF Init
<1>2. IsFiniteSet(tracked)
  BY FS_EmptySet DEF Init
<1>3. MaxListens \in Nat /\ MaxFires \in Nat
  BY IdsAssumption
<1>4. listens \in [Events -> 0..MaxListens] /\ fires \in [Events -> 0..MaxFires]
  BY <1>3 DEF Init
<1>5. /\ pending \in [Channels -> Seq(PendingRequests)]
      /\ \A h \in Channels : \A i \in DOMAIN pending[h] : ChannelOf[pending[h][i].id] = h
  BY DEF Init
<1>6. received \in [Events -> Seq(1..MaxFires)]
  BY DEF Init
<1>7. /\ promise \in [Calls -> Outcomes] /\ execution \in [Calls -> {"none", "running"} \cup Results]
      /\ subs \in [Events -> Nat] /\ \A e \in active \cap Events : subs[e] > 0
  BY DEF Init, Outcomes
<1>8. state \in {"Uninitialized", "Idle"} /\ toServer \in Seq(ServerMessages)
  BY DEF Init
<1>10. disposed \in BOOLEAN /\ closed \in BOOLEAN
  BY Zenon DEF Init
<1>9. /\ waiting \subseteq Requests /\ ready \subseteq Requests /\ stray \subseteq Requests
      /\ handlers \subseteq Requests /\ tracked \subseteq Requests /\ token \subseteq Calls
      /\ listening \subseteq Events /\ channels \subseteq Channels /\ flushes \subseteq channels
      /\ active \subseteq Requests /\ stranded \subseteq Calls
      /\ missed \subseteq Events /\ refused \subseteq Events
  BY DEF Init
<1> QED BY <1>1, <1>2, <1>4, <1>5, <1>6, <1>7, <1>8, <1>9, <1>10 DEF TypeOK, Outcomes

\* doRequest of a call.
LEMMA DoCallTypes ==
  ASSUME TypeOK, NEW c \in Calls, NEW promises \in [Calls -> Outcomes], DoCall(c, promises)
  PROVE  /\ promise' \in [Calls -> Outcomes] /\ handlers' \subseteq Requests
         /\ toServer' \in Seq(ServerMessages)
<1>1. Request("Promise", c) \in ServerMessages
  BY DEF Request, ServerMessages
<1>2. CASE toServer' = Append(toServer, Request("Promise", c))
           /\ handlers' = handlers \cup {c} /\ promise' = promises
  BY <1>1, <1>2 DEF TypeOK, Requests
<1>3. CASE promise' = [promises EXCEPT ![c] = IF @ = "open" THEN "unsent" ELSE @]
           /\ UNCHANGED <<handlers, toServer>>
  BY <1>3 DEF TypeOK, Outcomes
<1> QED BY <1>2, <1>3 DEF DoCall

\* doRequest of an event.
LEMMA DoListenTypes ==
  ASSUME TypeOK, NEW e \in Events, DoListen(e)
  PROVE  /\ toServer' \in Seq(ServerMessages)
         /\ tracked' \subseteq Requests /\ IsFiniteSet(tracked')
<1>1. Request("EventListen", e) \in ServerMessages
  BY DEF Request, ServerMessages
<1>2. IsFiniteSet(tracked \cup {e})
  BY FS_AddElement DEF TypeOK
<1> QED BY <1>1, <1>2 DEF DoListen, TypeOK, Requests

\* IChannel.call.
LEMMA CallTypes ==
  ASSUME TypeOK, NEW c \in Calls, Call(c)
  PROVE  TypeOK'
<1>1. /\ promise' \in [Calls -> Outcomes] /\ handlers' \subseteq Requests
      /\ toServer' \in Seq(ServerMessages) /\ waiting' \subseteq Requests
      /\ tracked' \subseteq Requests /\ IsFiniteSet(tracked')
  <2> DEFINE opened == [promise EXCEPT ![c] = "open"]
  <2>1. opened \in [Calls -> Outcomes]
    BY DEF TypeOK, Outcomes
  <2>2. IsFiniteSet(tracked \cup {c}) /\ tracked \cup {c} \subseteq Requests
    BY FS_AddElement DEF TypeOK, Requests
  <2>3. CASE disposed \/ c \in token
    BY <2>3 DEF Call, TypeOK, Outcomes
  <2>4. CASE ~disposed /\ c \notin token /\ state = "Idle"
    <3>1. DoCall(c, opened) /\ UNCHANGED waiting /\ tracked' = tracked \cup {c}
      BY <2>4 DEF Call
    <3> HIDE DEF opened
    <3>2. promise' \in [Calls -> Outcomes] /\ handlers' \subseteq Requests
          /\ toServer' \in Seq(ServerMessages)
      BY <2>1, <3>1, DoCallTypes
    <3> QED BY <2>2, <3>1, <3>2 DEF TypeOK
  <2>5. CASE ~disposed /\ c \notin token /\ state = "Uninitialized"
    <3>1. /\ waiting' = waiting \cup {c} /\ promise' = opened /\ tracked' = tracked \cup {c}
          /\ UNCHANGED <<handlers, toServer>>
      BY <2>5 DEF Call
    <3> HIDE DEF opened
    <3> QED BY <2>1, <2>2, <3>1 DEF TypeOK, Requests
  <2> QED BY <2>3, <2>4, <2>5 DEF Call
<1> QED BY <1>1 DEF Call, TypeOK, Outcomes, serverVars, history

\* The first listener.
LEMMA AddListenerTypes ==
  ASSUME TypeOK, NEW e \in Events, AddListener(e)
  PROVE  TypeOK'
<1>1. /\ toServer' \in Seq(ServerMessages) /\ waiting' \subseteq Requests
      /\ tracked' \subseteq Requests /\ IsFiniteSet(tracked')
  BY DoListenTypes DEF AddListener, TypeOK, Requests
<1>2. listens' \in [Events -> 0..MaxListens]
  <2>1. MaxListens \in Nat /\ listens[e] \in Nat /\ listens[e] < MaxListens
    BY IdsAssumption DEF AddListener, TypeOK
  <2> QED BY <2>1 DEF AddListener, TypeOK
<1>3. listening' \subseteq Events /\ handlers' \subseteq Requests
  BY DEF AddListener, TypeOK, Requests
<1> QED BY <1>1, <1>2, <1>3 DEF AddListener, TypeOK, serverVars, history

\* Waiting for Initialize is over.
LEMMA WokenTypes ==
  ASSUME TypeOK, NEW r \in Requests, Woken(r)
  PROVE  TypeOK'
BY DEF Woken, TypeOK, serverVars, history

\* The request is sent.
LEMMA CallbackTypes ==
  ASSUME TypeOK, NEW r \in Requests, InitializedCallback(r)
  PROVE  TypeOK'
<1>1. ready' \subseteq Requests /\ stray' \subseteq Requests
  BY DEF InitializedCallback, TypeOK
<1>2. CASE r \in Calls /\ DoCall(r, promise) /\ UNCHANGED tracked
  <2>1. promise \in [Calls -> Outcomes]
    BY DEF TypeOK, Outcomes
  <2>2. /\ promise' \in [Calls -> Outcomes] /\ handlers' \subseteq Requests
        /\ toServer' \in Seq(ServerMessages)
    BY <1>2, <2>1, DoCallTypes
  <2> QED BY <1>1, <1>2, <2>2 DEF InitializedCallback, TypeOK, Outcomes, serverVars, history
<1>3. CASE r \in Events /\ DoListen(r) /\ UNCHANGED <<promise, handlers>>
  <2>1. /\ toServer' \in Seq(ServerMessages)
        /\ tracked' \subseteq Requests /\ IsFiniteSet(tracked')
    BY <1>3, DoListenTypes
  <2> QED BY <1>1, <1>3, <2>1 DEF InitializedCallback, TypeOK, serverVars, history
<1> QED BY <1>2, <1>3 DEF InitializedCallback

\* Requests are taken back.
LEMMA TakeBackTypes ==
  ASSUME TypeOK, NEW R \in SUBSET Requests, IsFiniteSet(R), TakeBack(R)
  PROVE  /\ toServer' \in Seq(ServerMessages) /\ missed' \subseteq Events
         /\ waiting' \subseteq Requests /\ ready' \subseteq Requests /\ stray' \subseteq Requests
<1>1. PICK s \in Seq(ServerMessages) : toServer' = toServer \o s
  BY Messages
<1>2. toServer' \in Seq(ServerMessages)
  BY <1>1 DEF TypeOK
<1> QED BY <1>2 DEF TakeBack, TypeOK

\* cancel() settles promises.
LEMMA CancelledTypes ==
  ASSUME TypeOK, NEW C, Cancelled(C)
  PROVE  promise' \in [Calls -> Outcomes]
BY DEF Cancelled, TypeOK, Outcomes

\* The caller's token.
LEMMA CancelTokenTypes ==
  ASSUME TypeOK, NEW c \in Calls, CancelToken(c)
  PROVE  TypeOK'
<1>1. /\ toServer' \in Seq(ServerMessages) /\ missed' \subseteq Events
      /\ waiting' \subseteq Requests /\ ready' \subseteq Requests /\ stray' \subseteq Requests
      /\ promise' \in [Calls -> Outcomes]
  <2>1. CASE c \in tracked
    <3>1. IsFiniteSet({c}) /\ {c} \in SUBSET Requests
      BY FS_Singleton DEF Requests
    <3> QED BY <2>1, <3>1, TakeBackTypes, CancelledTypes DEF CancelToken
  <2>2. CASE c \notin tracked
    BY <2>2 DEF CancelToken, TypeOK, Outcomes
  <2> QED BY <2>1, <2>2
<1> QED BY <1>1 DEF CancelToken, TypeOK, Outcomes, serverVars, history

\* finally().
LEMMA FinallyTypes ==
  ASSUME TypeOK, NEW c \in Calls, Finally(c)
  PROVE  TypeOK'
<1>1. tracked' \subseteq Requests /\ IsFiniteSet(tracked')
  BY FS_RemoveElement DEF Finally, TypeOK
<1> QED BY <1>1 DEF Finally, TypeOK, serverVars, history

\* The last listener.
LEMMA RemoveListenerTypes ==
  ASSUME TypeOK, NEW e \in Events, RemoveListener(e)
  PROVE  TypeOK'
<1>1. IsFiniteSet({e}) /\ {e} \in SUBSET Requests
  BY FS_Singleton DEF Requests
<1>2. /\ toServer' \in Seq(ServerMessages) /\ missed' \subseteq Events
      /\ waiting' \subseteq Requests /\ ready' \subseteq Requests /\ stray' \subseteq Requests
  BY <1>1, TakeBackTypes DEF RemoveListener
<1>3. tracked' \subseteq Requests /\ IsFiniteSet(tracked')
  BY FS_RemoveElement DEF RemoveListener, TypeOK
<1> QED BY <1>2, <1>3 DEF RemoveListener, TypeOK, serverVars, history

\* dispose() of the client.
LEMMA DisposeClientTypes ==
  ASSUME TypeOK, DisposeClient
  PROVE  TypeOK'
<1>1. /\ toServer' \in Seq(ServerMessages) /\ missed' \subseteq Events
      /\ waiting' \subseteq Requests /\ ready' \subseteq Requests /\ stray' \subseteq Requests
  BY TakeBackTypes DEF DisposeClient, TypeOK
<1>2. promise' \in [Calls -> Outcomes]
  BY CancelledTypes DEF DisposeClient
<1>3. tracked' \subseteq Requests /\ IsFiniteSet(tracked')
  BY FS_EmptySet DEF DisposeClient
<1> QED BY <1>1, <1>2, <1>3 DEF DisposeClient, TypeOK, Outcomes, serverVars, history

\* A message to the client, by its type.
LEMMA Responses ==
  ASSUME NEW m \in ClientMessages
  PROVE  /\ m.type \in {"Initialize", "Answer", "EventFire"}
         /\ m.type = "Answer" => m.id \in Calls /\ m.data \in Answers \cup {"unknown"}
         /\ m.type = "EventFire" => m.id \in Events /\ m.data \in 1..MaxFires
BY DEF ClientMessages, Initialize, Response

\* onBuffer.
LEMMA ReceiveResponseTypes ==
  ASSUME TypeOK, ReceiveResponse
  PROVE  TypeOK'
<1> DEFINE m == Head(toClient)
<1>1. m \in ClientMessages /\ toClient' \in Seq(ClientMessages)
  BY DEF ReceiveResponse, TypeOK
<1>2. state' \in {"Uninitialized", "Idle"} /\ handlers' \subseteq Requests
  BY DEF ReceiveResponse, TypeOK, RemoveHandler
<1>3. promise' \in [Calls -> Outcomes]
  <2>1. CASE promise' = promise
    BY <2>1 DEF TypeOK, Outcomes
  <2>2. CASE m.type = "Answer" /\ promise' = Settle(m.id, m.data)
    BY <1>1, <2>2, Responses DEF Settle, TypeOK, Outcomes
  <2> QED BY <2>1, <2>2 DEF ReceiveResponse
<1>4. received' \in [Events -> Seq(1..MaxFires)]
  <2>1. CASE received' = received
    BY <2>1 DEF TypeOK
  <2>2. CASE m.type = "EventFire" /\ received' = [received EXCEPT ![m.id] = Append(@, m.data)]
    <3>1. m.id \in Events /\ m.data \in 1..MaxFires
      BY <1>1, <2>2, Responses
    <3>2. Append(received[m.id], m.data) \in Seq(1..MaxFires)
      BY <3>1 DEF TypeOK
    <3> QED BY <2>2, <3>1, <3>2 DEF TypeOK
  <2> QED BY <2>1, <2>2 DEF ReceiveResponse
<1> QED BY <1>1, <1>2, <1>3, <1>4 DEF ReceiveResponse, TypeOK, Outcomes, serverVars, history

\* registerChannel.
LEMMA RegisterTypes ==
  ASSUME TypeOK, NEW h \in Channels, RegisterChannel(h)
  PROVE  TypeOK'
BY DEF RegisterChannel, TypeOK, clientVars, history

\* The requests that are served: calls run, events get subscriptions.
LEMMA ServeTypes ==
  ASSUME TypeOK, NEW rs \in Seq(Requests), Serve(rs)
  PROVE  /\ active' \subseteq Requests
         /\ execution' \in [Calls -> {"none", "running"} \cup Results]
         /\ subs' \in [Events -> Nat] /\ \A e \in active' \cap Events : subs'[e] > 0
<1>1. \A i \in DOMAIN rs : rs[i] \in Requests
  OBVIOUS
<1>2. active' = active \cup {rs[i] : i \in DOMAIN rs}
  BY DEF Serve, ActiveAfter, ToSet
<1>3. execution' \in [Calls -> {"none", "running"} \cup Results]
  BY DEF Serve, TypeOK
<1>4. ASSUME NEW e \in Events
      PROVE  /\ subs'[e] \in Nat /\ subs'[e] >= subs[e] /\ subs[e] \in Nat
             /\ (\E i \in DOMAIN rs : rs[i] = e) => subs'[e] > 0
  <2> DEFINE I == {i \in DOMAIN rs : rs[i] = e}
  <2>1. subs'[e] = subs[e] + Cardinality(I)
    BY DEF Serve
  <2>2. IsFiniteSet(I)
    <3>1. IsFiniteSet(1..Len(rs)) /\ I \in SUBSET (1..Len(rs))
      BY FS_Interval
    <3> QED BY <3>1, FS_Subset
  <2>3. Cardinality(I) \in Nat /\ (I # {} => Cardinality(I) # 0)
    BY <2>2, FS_CardinalityType, FS_EmptySet
  <2> HIDE DEF I
  <2>4. subs[e] \in Nat
    BY DEF TypeOK
  <2>5. (\E i \in DOMAIN rs : rs[i] = e) => I # {}
    BY DEF I
  <2> QED BY <2>1, <2>3, <2>4, <2>5
<1>5. subs' \in [Events -> Nat]
  BY <1>4 DEF Serve
<1>6. \A e \in active' \cap Events : subs'[e] > 0
  BY <1>2, <1>4 DEF TypeOK
<1> QED BY <1>1, <1>2, <1>3, <1>5, <1>6 DEF TypeOK

\* The first n requests that were collected for a channel.
LEMMA CollectedTypes ==
  ASSUME TypeOK, NEW h \in Channels, NEW n \in 0..Len(pending[h])
  PROVE  /\ Len(pending[h]) \in Nat /\ DOMAIN pending[h] = 1..Len(pending[h])
         /\ SubSeq(Collected(h), 1, n) \in Seq(Requests)
         /\ DOMAIN SubSeq(Collected(h), 1, n) = 1..n
         /\ \A i \in 1..n : /\ i \in DOMAIN pending[h]
                            /\ SubSeq(Collected(h), 1, n)[i] = pending[h][i].id
<1>1. /\ pending[h] \in Seq(PendingRequests) /\ DOMAIN pending[h] = 1..Len(pending[h])
      /\ Len(pending[h]) \in Nat
  BY DEF TypeOK
<1>2. \A i \in DOMAIN pending[h] : pending[h][i] \in PendingRequests
  BY <1>1
<1>3. \A i \in DOMAIN pending[h] : pending[h][i].id \in Requests
  BY <1>2 DEF PendingRequests
<1>4. ASSUME NEW f, f = [i \in DOMAIN pending[h] |-> pending[h][i].id]
      PROVE  f \in Seq(Requests) /\ Len(f) = Len(pending[h])
  BY <1>1, <1>3, <1>4
<1>5. /\ Collected(h) \in Seq(Requests) /\ Len(Collected(h)) = Len(pending[h])
      /\ \A i \in DOMAIN pending[h] : Collected(h)[i] = pending[h][i].id
  BY <1>4 DEF Collected
<1>6. /\ SubSeq(Collected(h), 1, n) \in Seq(Requests)
      /\ DOMAIN SubSeq(Collected(h), 1, n) = 1..n
      /\ \A i \in 1..n : SubSeq(Collected(h), 1, n)[i] = Collected(h)[i]
  BY <1>1, <1>5
<1> QED BY <1>1, <1>5, <1>6

\* What flushPendingRequests does when n requests are served.
Flushed(h, n) ==
    /\ Serve(SubSeq(Collected(h), 1, n))
    /\ refused' = refused \cup
          {e \in Events : \E i \in (n + 1)..Len(pending[h]) : Collected(h)[i] = e}
    /\ stranded' = stranded \cup
          {c \in Calls : \E i \in (n + 1)..Len(pending[h]) :
                            pending[h][i] = [id |-> c, timer |-> "armed"]}

LEMMA SomeFlushed ==
  ASSUME NEW h, FlushPendingRequests(h)
  PROVE  \E n \in 0..Len(pending[h]) : Flushed(h, n)
BY DEF FlushPendingRequests, Flushed

\* flushPendingRequests.
LEMMA FlushTypes ==
  ASSUME TypeOK, NEW h \in Channels, FlushPendingRequests(h)
  PROVE  TypeOK'
<1>1. /\ active' \subseteq Requests
      /\ execution' \in [Calls -> {"none", "running"} \cup Results]
      /\ subs' \in [Events -> Nat] /\ \A e \in active' \cap Events : subs'[e] > 0
      /\ stranded' \subseteq Calls /\ refused' \subseteq Events
  <2>1. PICK n \in 0..Len(pending[h]) : Flushed(h, n)
    BY SomeFlushed
  <2>2. Serve(SubSeq(Collected(h), 1, n)) /\ stranded' \subseteq Calls /\ refused' \subseteq Events
    BY <2>1 DEF Flushed, TypeOK
  <2>3. SubSeq(Collected(h), 1, n) \in Seq(Requests)
    BY CollectedTypes
  <2> QED BY <2>2, <2>3, ServeTypes
<1>2. /\ pending' \in [Channels -> Seq(PendingRequests)]
      /\ \A g \in Channels : \A i \in DOMAIN pending'[g] : ChannelOf[pending'[g][i].id] = g
  BY DEF FlushPendingRequests, TypeOK
<1> QED BY <1>1, <1>2 DEF FlushPendingRequests, TypeOK, clientVars

\* What a request is about.
LEMMA RequestsOf ==
  ASSUME NEW m \in ServerMessages
  PROVE  /\ m.id \in Requests
         /\ m.type \in {"Promise", "PromiseCancel", "EventListen", "EventDispose"}
         /\ m.id \in Calls <=> m.type \in {"Promise", "PromiseCancel"}
         /\ m.id \in Events <=> m.type \in {"EventListen", "EventDispose"}
BY IdsAssumption DEF ServerMessages, Requests

\* disposeActiveRequest.
LEMMA DisposeActiveTypes ==
  ASSUME TypeOK, NEW r \in Requests, DisposeActiveRequest(r)
  PROVE  /\ active' \subseteq Requests /\ missed' \subseteq Events /\ refused' \subseteq Events
         /\ subs' \in [Events -> Nat] /\ \A e \in active' \cap Events : subs'[e] > 0
<1>1. active' = active \ {r} /\ missed' \subseteq Events /\ refused' \subseteq Events
  BY DEF DisposeActiveRequest, TypeOK
<1>2. \A e \in Events : subs'[e] = IF e \in active /\ e = r THEN subs[e] - 1 ELSE subs[e]
  BY DEF DisposeActiveRequest, Unsubscribed, Disposable
<1>3. \A e \in Events : subs'[e] \in Nat
  BY <1>2 DEF TypeOK
<1>4. subs' \in [Events -> Nat]
  BY <1>3 DEF DisposeActiveRequest, Unsubscribed
<1> QED BY <1>1, <1>2, <1>4 DEF TypeOK

\* collectPendingRequest.
LEMMA CollectTypes ==
  ASSUME TypeOK, NEW r \in Requests, Collect(r)
  PROVE  /\ pending' \in [Channels -> Seq(PendingRequests)]
         /\ \A h \in Channels : \A i \in DOMAIN pending'[h] : ChannelOf[pending'[h][i].id] = h
<1> DEFINE g == ChannelOf[r]
           x == [id |-> r, timer |-> "armed"]
<1>1. g \in Channels /\ x \in PendingRequests /\ pending[g] \in Seq(PendingRequests)
  BY IdsAssumption DEF PendingRequests, TypeOK
<1>2. pending' = [pending EXCEPT ![g] = Append(pending[g], x)]
  BY DEF Collect
<1> HIDE DEF g, x
<1>3. /\ Append(pending[g], x) \in Seq(PendingRequests)
      /\ \A i \in DOMAIN Append(pending[g], x) :
            Append(pending[g], x)[i] = x \/ (i \in DOMAIN pending[g]
                                             /\ Append(pending[g], x)[i] = pending[g][i])
  BY <1>1
<1>4. pending' \in [Channels -> Seq(PendingRequests)]
  BY <1>2, <1>3 DEF TypeOK
<1>5. ChannelOf[x.id] = g
  BY DEF g, x
<1> QED BY <1>1, <1>2, <1>3, <1>4, <1>5 DEF TypeOK

\* onRawMessage.
LEMMA ReceiveRequestTypes ==
  ASSUME TypeOK, ReceiveRequest
  PROVE  TypeOK'
<1> DEFINE m == Head(toServer)
<1>1. m \in ServerMessages /\ toServer' \in Seq(ServerMessages)
  BY DEF ReceiveRequest, TypeOK
<1>2. m.id \in Requests
  BY <1>1, RequestsOf
<1>3. UNCHANGED <<clientVars, toClient, channels, flushes, stranded, fires, closed>>
  BY DEF ReceiveRequest
<1>4. CASE Serve(<<m.id>>) /\ refused' = refused \ {m.id} /\ UNCHANGED <<pending, missed>>
  <2>1. <<m.id>> \in Seq(Requests)
    BY <1>2
  <2>2. /\ active' \subseteq Requests
        /\ execution' \in [Calls -> {"none", "running"} \cup Results]
        /\ subs' \in [Events -> Nat] /\ \A e \in active' \cap Events : subs'[e] > 0
    BY <1>4, <2>1, ServeTypes
  <2> QED BY <1>1, <1>3, <1>4, <2>2 DEF TypeOK, clientVars
<1>5. CASE Collect(m.id) /\ UNCHANGED <<active, execution, subs, history>>
  <2>1. /\ pending' \in [Channels -> Seq(PendingRequests)]
        /\ \A h \in Channels : \A i \in DOMAIN pending'[h] : ChannelOf[pending'[h][i].id] = h
    BY <1>2, <1>5, CollectTypes
  <2> QED BY <1>1, <1>3, <1>5, <2>1 DEF TypeOK, clientVars, history
<1>6. CASE DisposeActiveRequest(m.id) /\ UNCHANGED <<pending, execution>>
  <2>1. /\ active' \subseteq Requests /\ missed' \subseteq Events /\ refused' \subseteq Events
        /\ subs' \in [Events -> Nat] /\ \A e \in active' \cap Events : subs'[e] > 0
    BY <1>2, <1>6, DisposeActiveTypes
  <2> QED BY <1>1, <1>3, <1>6, <2>1 DEF TypeOK, clientVars
<1>7. CASE /\ m.type = "EventListen" /\ refused' = refused \cup {m.id}
           /\ UNCHANGED <<active, execution, subs, pending, missed>>
  <2>1. refused' \subseteq Events
    BY <1>1, <1>7, RequestsOf DEF TypeOK
  <2> QED BY <1>1, <1>3, <1>7, <2>1 DEF TypeOK, clientVars
<1> QED BY <1>4, <1>5, <1>6, <1>7 DEF ReceiveRequest

\* The timer of a collected request.
LEMMA UnknownChannelTypes ==
  ASSUME TypeOK, NEW h \in Channels, NEW i \in DOMAIN pending[h], UnknownChannel(h, i)
  PROVE  TypeOK'
<1> DEFINE r == pending[h][i].id
           p == [pending[h] EXCEPT ![i].timer = "fired"]
<1>1. pending[h] \in Seq(PendingRequests) /\ pending[h][i] \in PendingRequests
  BY DEF TypeOK
<1>2. /\ p \in Seq(PendingRequests) /\ DOMAIN p = DOMAIN pending[h]
      /\ \A j \in DOMAIN p : p[j].id = pending[h][j].id
  BY <1>1 DEF PendingRequests
<1>3. pending' = [pending EXCEPT ![h] = p]
  BY DEF UnknownChannel, PendingAfterTimeout
<1> HIDE DEF p
<1>4. /\ pending' \in [Channels -> Seq(PendingRequests)]
      /\ \A g \in Channels : \A j \in DOMAIN pending'[g] : ChannelOf[pending'[g][j].id] = g
  BY <1>2, <1>3 DEF TypeOK
<1>5. toClient' \in Seq(ClientMessages)
  <2>1. r \in Calls => Response("Answer", r, "unknown") \in ClientMessages
    BY DEF Response, ClientMessages
  <2>2. UnknownAnswer(r) \in Seq(ClientMessages)
    BY <2>1 DEF UnknownAnswer
  <2>3. toClient' = toClient \o UnknownAnswer(r) /\ toClient \in Seq(ClientMessages)
    BY DEF UnknownChannel, TypeOK
  <2> HIDE DEF r
  <2> QED BY <2>2, <2>3
<1> QED BY <1>4, <1>5 DEF UnknownChannel, TypeOK, clientVars, history

\* The time-out of a call tells that its channel is unknown.
LEMMA UnknownMessages ==
  ASSUME NEW r
  PROVE  LET s == UnknownAnswer(r)
         IN  /\ s \in Seq(ClientMessages)
             /\ \A i \in DOMAIN s : s[i].type = "Answer" /\ s[i].data = "unknown"
             /\ r \in Calls => InFlight(s, "Answer", r)
<1>1. r \in Calls => /\ Response("Answer", r, "unknown") \in ClientMessages
                     /\ Response("Answer", r, "unknown").type = "Answer"
                     /\ Response("Answer", r, "unknown").id = r
                     /\ Response("Answer", r, "unknown").data = "unknown"
  BY DEF Response, ClientMessages
<1> QED BY <1>1 DEF UnknownAnswer, InFlight

\* The timer of a call that was left behind.
LEMMA StrandedTypes ==
  ASSUME TypeOK, NEW c \in Calls, StrandedTimeout(c)
  PROVE  TypeOK'
<1>1. toClient' \in Seq(ClientMessages)
  <2>1. UnknownAnswer(c) \in Seq(ClientMessages)
    BY UnknownMessages
  <2> QED BY <2>1 DEF StrandedTimeout, TypeOK
<1>2. stranded' \subseteq Calls
  BY DEF StrandedTimeout, TypeOK
<1> QED BY <1>1, <1>2 DEF StrandedTimeout, TypeOK, clientVars, history

\* What is sent when a call has been executed: its answer or nothing.
LEMMA AnswerMessages ==
  ASSUME NEW c \in Calls, NEW a \in Results
  PROVE  LET s == AnswerOf(c, a)
         IN  /\ s \in Seq(ClientMessages)
             /\ \A i \in DOMAIN s : s[i].type = "Answer" /\ s[i].id = c /\ s[i].data = a
             /\ a \in Answers => InFlight(s, "Answer", c)
<1>1. a \in Answers => /\ Response("Answer", c, a) \in ClientMessages
                       /\ Response("Answer", c, a).type = "Answer"
                       /\ Response("Answer", c, a).id = c
                       /\ Response("Answer", c, a).data = a
  BY DEF Response, ClientMessages
<1> QED BY <1>1 DEF AnswerOf, InFlight

\* A call has been executed.
LEMMA FinishTypes ==
  ASSUME TypeOK, NEW c \in Calls, NEW a \in Results, Finish(c, a)
  PROVE  TypeOK'
<1>1. AnswerOf(c, a) \in Seq(ClientMessages)
  BY AnswerMessages
<1>2. toClient' \in Seq(ClientMessages)
  BY <1>1 DEF Finish, TypeOK
<1>3. execution' \in [Calls -> {"none", "running"} \cup Results]
  BY DEF Finish, TypeOK
<1>4. active' \subseteq active
  BY DEF Finish
<1> QED BY <1>2, <1>3, <1>4 DEF Finish, TypeOK, clientVars, history

\* What is sent when an event fires.
LEMMA FireMessages ==
  ASSUME TypeOK, NEW e \in Events, Fire(e)
  PROVE  LET s == [i \in 1..subs[e] |-> Response("EventFire", e, fires[e] + 1)]
         IN  /\ s \in Seq(ClientMessages) /\ DOMAIN s = 1..subs[e]
             /\ toClient' = toClient \o s \/ toClient' = toClient
             /\ fires' = [fires EXCEPT ![e] = fires[e] + 1] /\ fires'[e] = fires[e] + 1
             /\ fires[e] + 1 \in 1..MaxFires /\ subs[e] \in Nat
<1>1. fires[e] \in Nat /\ fires[e] < MaxFires /\ MaxFires \in Nat /\ subs[e] \in Nat
  BY IdsAssumption DEF Fire, TypeOK
<1>2. fires[e] + 1 \in 1..MaxFires
  BY <1>1
<1>3. fires' = [fires EXCEPT ![e] = fires[e] + 1] /\ fires'[e] = fires[e] + 1
  BY DEF Fire, TypeOK
<1>4. Response("EventFire", e, fires[e] + 1) \in ClientMessages
  BY <1>2 DEF Response, ClientMessages
<1>5. \/ toClient' = toClient \o [i \in 1..subs[e] |-> Response("EventFire", e, fires[e] + 1)]
      \/ toClient' = toClient
  BY <1>3 DEF Fire
<1>6. ASSUME NEW m \in ClientMessages, NEW f, f = [i \in 1..subs[e] |-> m]
      PROVE  f \in Seq(ClientMessages) /\ DOMAIN f = 1..subs[e]
  BY <1>1, <1>6
<1>7. /\ [i \in 1..subs[e] |-> Response("EventFire", e, fires[e] + 1)] \in Seq(ClientMessages)
      /\ DOMAIN [i \in 1..subs[e] |-> Response("EventFire", e, fires[e] + 1)] = 1..subs[e]
  BY <1>4, <1>6
<1> QED BY <1>1, <1>2, <1>3, <1>5, <1>7

\* An event fires.
LEMMA FireTypes ==
  ASSUME TypeOK, NEW e \in Events, Fire(e)
  PROVE  TypeOK'
<1>1. toClient' \in Seq(ClientMessages)
  <2> DEFINE s == [i \in 1..subs[e] |-> Response("EventFire", e, fires[e] + 1)]
  <2>1. s \in Seq(ClientMessages) /\ (toClient' = toClient \o s \/ toClient' = toClient)
    BY FireMessages
  <2> HIDE DEF s
  <2>2. toClient \in Seq(ClientMessages)
    BY DEF TypeOK
  <2>3. toClient \o s \in Seq(ClientMessages)
    BY <2>1, <2>2
  <2> QED BY <2>1, <2>2, <2>3
<1>2. fires' \in [Events -> 0..MaxFires]
  <2>1. fires' = [fires EXCEPT ![e] = fires[e] + 1] /\ fires[e] + 1 \in 1..MaxFires
    BY FireMessages
  <2>2. fires[e] + 1 \in 0..MaxFires
    BY <2>1, IdsAssumption
  <2> QED BY <2>1, <2>2 DEF TypeOK
<1> QED BY <1>1, <1>2 DEF Fire, TypeOK, clientVars, history

\* dispose() of the server.
LEMMA DisposeServerTypes ==
  ASSUME TypeOK, DisposeServer
  PROVE  TypeOK'
<1>1. \A e \in Events : subs'[e] = IF e \in active THEN subs[e] - 1 ELSE subs[e]
  BY DEF DisposeServer, Unsubscribed
<1>2. ASSUME NEW e \in Events PROVE subs'[e] \in Nat
  <2>1. subs[e] \in Nat /\ (e \in active => subs[e] > 0)
    BY DEF TypeOK
  <2> QED BY <1>1, <2>1
<1>3. subs' \in [Events -> Nat]
  BY <1>2 DEF DisposeServer, Unsubscribed
<1> QED BY <1>3 DEF DisposeServer, TypeOK, clientVars, history

\* Every step keeps the types.
LEMMA TypesStep == TypeOK /\ [Next]_vars => TypeOK'
<1> SUFFICES ASSUME TypeOK, [Next]_vars PROVE TypeOK'
  OBVIOUS
<1>1. ASSUME NEW c \in Calls, Call(c) \/ CancelToken(c) \/ Finally(c) \/ StrandedTimeout(c)
      PROVE  TypeOK'
  BY <1>1, CallTypes, CancelTokenTypes, FinallyTypes, StrandedTypes
<1>2. ASSUME NEW e \in Events, AddListener(e) \/ RemoveListener(e) \/ Fire(e)
      PROVE  TypeOK'
  BY <1>2, AddListenerTypes, RemoveListenerTypes, FireTypes
<1>3. ASSUME NEW r \in Requests, Woken(r) \/ InitializedCallback(r)
      PROVE  TypeOK'
  BY <1>3, WokenTypes, CallbackTypes
<1>4. CASE DisposeClient \/ ReceiveResponse \/ ReceiveRequest \/ DisposeServer
  BY <1>4, DisposeClientTypes, ReceiveResponseTypes, ReceiveRequestTypes, DisposeServerTypes
<1>5. ASSUME NEW h \in Channels, RegisterChannel(h) \/ FlushPendingRequests(h)
      PROVE  TypeOK'
  BY <1>5, RegisterTypes, FlushTypes
<1>6. ASSUME NEW h \in Channels, NEW i \in DOMAIN pending[h], UnknownChannel(h, i)
      PROVE  TypeOK'
  BY <1>6, UnknownChannelTypes
<1>7. ASSUME NEW c \in Calls, NEW a \in Results, Finish(c, a)
      PROVE  TypeOK'
  BY <1>7, FinishTypes
<1>8. CASE UNCHANGED vars
  BY <1>8 DEF TypeOK, vars, clientVars, serverVars, history
<1> QED BY <1>1, <1>2, <1>3, <1>4, <1>5, <1>6, <1>7, <1>8 DEF Next

\* Types are kept whatever is cancelled, disposed or registered late; in
\* particular dispose() of the client always has finitely many requests to take
\* back, and nothing is disposed on the server that was not served.
THEOREM TypeCorrect == Spec => []TypeOK
<1> QED BY TypesStep, TypesInitially, PTL DEF Spec
-----------------------------------------------------------------------------
(* Calls: where a request is, and what answers it.                           *)

\* One request at most.
Once(stream, type, r) ==
    \A i, j \in DOMAIN stream :
        /\ stream[i].type = type /\ stream[i].id = r
        /\ stream[j].type = type /\ stream[j].id = r
        => i = j

\* What is in flight when more is sent.
LEMMA FlightMore ==
  ASSUME NEW S, NEW q \in Seq(S), NEW s \in Seq(S), NEW type, NEW r
  PROVE  /\ InFlight(q \o s, type, r) <=> InFlight(q, type, r) \/ InFlight(s, type, r)
         /\ Once(q, type, r) /\ Once(s, type, r)
                 /\ ~(InFlight(q, type, r) /\ InFlight(s, type, r))
               => Once(q \o s, type, r)
<1> DEFINE p == q \o s
<1>1. /\ p \in Seq(S) /\ Len(q) \in Nat
      /\ \A i \in DOMAIN q : i \in Nat /\ i <= Len(q) /\ i \in DOMAIN p /\ p[i] = q[i]
      /\ \A i \in DOMAIN s : i \in Nat /\ i > 0 /\ Len(q) + i \in DOMAIN p
                             /\ p[Len(q) + i] = s[i]
      /\ \A i \in DOMAIN p : i \in DOMAIN q \/ \E j \in DOMAIN s : i = Len(q) + j
  <2>1. p \in Seq(S) /\ Joined(q, s, p)
    BY More
  <2> HIDE DEF p
  <2> QED BY <2>1 DEF Joined
<1> HIDE DEF p
<1>2. InFlight(p, type, r) => InFlight(q, type, r) \/ InFlight(s, type, r)
  BY <1>1 DEF InFlight
<1>3. InFlight(q, type, r) \/ InFlight(s, type, r) => InFlight(p, type, r)
  BY <1>1 DEF InFlight
<1>4. ASSUME Once(q, type, r), Once(s, type, r), ~(InFlight(q, type, r) /\ InFlight(s, type, r))
      PROVE  Once(p, type, r)
  <2> SUFFICES ASSUME NEW i \in DOMAIN p, NEW j \in DOMAIN p,
                      p[i].type = type, p[i].id = r, p[j].type = type, p[j].id = r
               PROVE  i = j
    BY DEF Once
  <2>1. CASE i \in DOMAIN q /\ j \in DOMAIN q
    BY <1>1, <1>4, <2>1 DEF Once
  <2>2. CASE i \in DOMAIN q /\ j \notin DOMAIN q
    BY <1>1, <1>4, <2>2 DEF InFlight
  <2>3. CASE i \notin DOMAIN q /\ j \in DOMAIN q
    BY <1>1, <1>4, <2>3 DEF InFlight
  <2>4. CASE i \notin DOMAIN q /\ j \notin DOMAIN q
    <3>1. PICK k \in DOMAIN s : i = Len(q) + k
      BY <1>1, <2>4
    <3>2. PICK l \in DOMAIN s : j = Len(q) + l
      BY <1>1, <2>4
    <3> QED BY <1>1, <1>4, <3>1, <3>2 DEF Once
  <2> QED BY <2>1, <2>2, <2>3, <2>4
<1> QED BY <1>2, <1>3, <1>4 DEF p

\* What is in flight when the first message is taken.
LEMMA FlightTail ==
  ASSUME NEW S, NEW q \in Seq(S), q # <<>>, NEW type, NEW r
  PROVE  /\ InFlight(Tail(q), type, r) => InFlight(q, type, r)
         /\ InFlight(q, type, r) =>
               InFlight(Tail(q), type, r) \/ (Head(q).type = type /\ Head(q).id = r)
         /\ Once(q, type, r) => Once(Tail(q), type, r)
         /\ Once(q, type, r) /\ Head(q).type = type /\ Head(q).id = r =>
               ~InFlight(Tail(q), type, r)
<1> DEFINE t == Tail(q)
<1>1. /\ 1 \in DOMAIN q /\ Head(q) = q[1]
      /\ \A i \in DOMAIN t : i \in Nat /\ i + 1 # 1 /\ i + 1 \in DOMAIN q /\ t[i] = q[i + 1]
      /\ \A i \in DOMAIN q : i \in Nat /\ i >= 1 /\ (i # 1 => i - 1 \in DOMAIN t)
  BY HeadAndTail
<1> HIDE DEF t
<1>2. InFlight(t, type, r) => InFlight(q, type, r)
  BY <1>1 DEF InFlight
<1>3. ASSUME NEW i \in DOMAIN q, q[i].type = type, q[i].id = r, i # 1
      PROVE  InFlight(t, type, r)
  <2>1. i - 1 \in DOMAIN t /\ t[i - 1] = q[i]
    BY <1>1, <1>3
  <2> QED BY <1>3, <2>1 DEF InFlight
<1>4. Once(q, type, r) => Once(t, type, r)
  <2> SUFFICES ASSUME Once(q, type, r), NEW i \in DOMAIN t, NEW j \in DOMAIN t,
                      t[i].type = type, t[i].id = r, t[j].type = type, t[j].id = r
               PROVE  i = j
    BY DEF Once
  <2>1. i + 1 = j + 1
    BY <1>1 DEF Once
  <2> QED BY <1>1, <2>1
<1>5. Once(q, type, r) /\ Head(q).type = type /\ Head(q).id = r => ~InFlight(t, type, r)
  BY <1>1 DEF Once, InFlight
<1>6. InFlight(q, type, r) =>
         InFlight(t, type, r) \/ (Head(q).type = type /\ Head(q).id = r)
  BY <1>1, <1>3 DEF InFlight
<1> QED BY <1>2, <1>4, <1>5, <1>6 DEF t

\* One more message.
LEMMA FlightAppend ==
  ASSUME NEW S, NEW q \in Seq(S), NEW m \in S, NEW type, NEW r
  PROVE  /\ InFlight(Append(q, m), type, r) <=>
               InFlight(q, type, r) \/ (m.type = type /\ m.id = r)
         /\ Once(q, type, r) /\ ~(InFlight(q, type, r) /\ m.type = type /\ m.id = r)
               => Once(Append(q, m), type, r)
<1> DEFINE s == <<m>>
<1>1. Append(q, m) = q \o s /\ s \in Seq(S) /\ DOMAIN s = {1} /\ s[1] = m
  BY AppendIsConcat
<1> HIDE DEF s
<1>2. InFlight(s, type, r) <=> (m.type = type /\ m.id = r)
  BY <1>1 DEF InFlight
<1>3. Once(s, type, r)
  BY <1>1 DEF Once
<1> QED BY <1>1, <1>2, <1>3, FlightMore

\* The request of c is on its way to the server.
Sent(c) == InFlight(toServer, "Promise", c)

\* It is still going to be sent.
Queued(c) == c \in waiting \cup ready \cup stray

\* A call's request is in one place, and once; there is none before the call and
\* when it could not be sent.
OnePlace(c) ==
    /\ Once(toServer, "Promise", c)
    /\ c \in waiting => c \notin ready \cup stray
    /\ c \in ready => c \notin stray
    /\ Queued(c) => ~Sent(c) /\ ~IsCollected(c) /\ execution[c] = "none"
    /\ Sent(c) => ~IsCollected(c) /\ execution[c] = "none"
    /\ IsCollected(c) => execution[c] = "none"
    /\ promise[c] \in {"none", "unsent"} =>
          ~Queued(c) /\ ~Sent(c) /\ ~IsCollected(c) /\ execution[c] = "none"

\* An answer that is not the time-out's is the one of the execution.
Truthful(c) ==
    \A i \in DOMAIN toClient :
        /\ toClient[i].type = "Answer" /\ toClient[i].id = c
        /\ toClient[i].data \in Answers
        => execution[c] = toClient[i].data

CallInv == \A c \in Calls : OnePlace(c) /\ Truthful(c)

\* At first there is no call.
LEMMA CallsInitially == Init => CallInv
<1> SUFFICES ASSUME Init, NEW c \in Calls PROVE OnePlace(c) /\ Truthful(c)
  BY DEF CallInv
<1>1. ~Sent(c) /\ Once(toServer, "Promise", c)
  BY DEF Init, Sent, InFlight, Once
<1>2. ~IsCollected(c)
  <2>1. ChannelOf[c] \in Channels
    BY IdsAssumption DEF Requests
  <2> QED BY <2>1 DEF Init, IsCollected
<1>3. OnePlace(c)
  BY <1>1, <1>2 DEF Init, OnePlace, Queued
<1>4. Truthful(c)
  BY DEF Init, Truthful, Initialize, Response
<1> QED BY <1>3, <1>4

\* A step that leaves the request of c where it is.
LEMMA PlaceKept ==
  ASSUME TypeOK, NEW c \in Calls, OnePlace(c),
         c \in waiting' <=> c \in waiting, c \in ready' <=> c \in ready,
         c \in stray' <=> c \in stray,
         Once(toServer', "Promise", c), Sent(c)' <=> Sent(c),
         IsCollected(c)' <=> IsCollected(c),
         execution'[c] = execution[c] \/ execution[c] = "running",
         promise'[c] \in {"none", "unsent"} => promise[c] \in {"none", "unsent"}
  PROVE  OnePlace(c)'
BY DEF OnePlace, Queued

\* Nothing is sent to the server.
LEMMA SameServerStream ==
  ASSUME NEW c, UNCHANGED toServer
  PROVE  /\ Sent(c)' <=> Sent(c)
         /\ Once(toServer, "Promise", c) => Once(toServer', "Promise", c)
BY DEF Sent

\* Nothing that asks for c is sent to the server.
LEMMA OtherMessages ==
  ASSUME TypeOK, NEW c \in Calls, NEW s \in Seq(ServerMessages), toServer' = toServer \o s,
         \A i \in DOMAIN s : ~(s[i].type = "Promise" /\ s[i].id = c)
  PROVE  /\ Sent(c)' <=> Sent(c)
         /\ Once(toServer, "Promise", c) => Once(toServer', "Promise", c)
<1>1. toServer \in Seq(ServerMessages)
  BY DEF TypeOK
<1>2. ~InFlight(s, "Promise", c) /\ Once(s, "Promise", c)
  BY DEF InFlight, Once
<1>3. /\ InFlight(toServer \o s, "Promise", c)
            <=> InFlight(toServer, "Promise", c) \/ InFlight(s, "Promise", c)
      /\ Once(toServer, "Promise", c) /\ Once(s, "Promise", c)
              /\ ~(InFlight(toServer, "Promise", c) /\ InFlight(s, "Promise", c))
            => Once(toServer \o s, "Promise", c)
  BY <1>1, FlightMore
<1> QED BY <1>2, <1>3 DEF Sent

\* doRequest of an event is no concern of c.
LEMMA ListenIsOther ==
  ASSUME TypeOK, NEW c \in Calls, NEW e \in Events, DoListen(e)
  PROVE  /\ Sent(c)' <=> Sent(c)
         /\ Once(toServer, "Promise", c) => Once(toServer', "Promise", c)
<1> DEFINE m == Request("EventListen", e)
<1>1. m \in ServerMessages /\ m.type = "EventListen"
  BY DEF Request, ServerMessages
<1>2. toServer' = Append(toServer, m) /\ toServer \in Seq(ServerMessages)
  BY DEF DoListen, TypeOK
<1> HIDE DEF m
<1>3. toServer' = toServer \o <<m>> /\ <<m>> \in Seq(ServerMessages)
      /\ DOMAIN <<m>> = {1} /\ <<m>>[1] = m
  BY <1>1, <1>2, AppendIsConcat
<1> QED BY <1>1, <1>3, OtherMessages

\* doRequest of a call: it is sent, or its promise tells that it was not.
LEMMA DoCallPlaces ==
  ASSUME TypeOK, NEW c \in Calls, NEW d \in Calls, NEW promises \in [Calls -> Outcomes],
         DoCall(d, promises), Once(toServer, "Promise", c), c = d => ~Sent(c)
  PROVE  /\ Once(toServer', "Promise", c)
         /\ c # d => (Sent(c)' <=> Sent(c)) /\ promise'[c] = promises[c]
         /\ c = d => \/ Sent(c)' /\ promise'[c] = promises[c]
                     \/ ~Sent(c)' /\ promise'[c] = promises[c] /\ promises[c] # "open"
                     \/ ~Sent(c)' /\ promise'[c] = "unsent"
<1>1. CASE /\ toServer' = Append(toServer, Request("Promise", d))
           /\ promise' = promises
  <2> DEFINE m == Request("Promise", d)
  <2>1. m \in ServerMessages /\ m.type = "Promise" /\ m.id = d
    BY DEF Request, ServerMessages
  <2>2. toServer \in Seq(ServerMessages) /\ toServer' = Append(toServer, m)
    BY <1>1 DEF TypeOK
  <2> HIDE DEF m
  <2>3. /\ InFlight(Append(toServer, m), "Promise", c)
             <=> InFlight(toServer, "Promise", c) \/ (m.type = "Promise" /\ m.id = c)
        /\ Once(toServer, "Promise", c)
               /\ ~(InFlight(toServer, "Promise", c) /\ m.type = "Promise" /\ m.id = c)
             => Once(Append(toServer, m), "Promise", c)
    BY <2>1, <2>2, FlightAppend
  <2> QED BY <1>1, <2>1, <2>2, <2>3 DEF Sent
<1>2. CASE /\ promise' = [promises EXCEPT ![d] = IF @ = "open" THEN "unsent" ELSE @]
           /\ UNCHANGED <<handlers, toServer>>
  <2>1. (Sent(c)' <=> Sent(c)) /\ Once(toServer', "Promise", c)
    BY <1>2, SameServerStream
  <2>2. c # d => promise'[c] = promises[c]
    BY <1>2
  <2>3. c = d => promise'[c] = IF promises[c] = "open" THEN "unsent" ELSE promises[c]
    BY <1>2
  <2> QED BY <2>1, <2>2, <2>3
<1> QED BY <1>1, <1>2 DEF DoCall

\* IChannel.call.
LEMMA CallPlaces ==
  ASSUME TypeOK, NEW c \in Calls, NEW d \in Calls, OnePlace(c), Call(d)
  PROVE  OnePlace(c)'
<1> DEFINE opened == [promise EXCEPT ![d] = "open"]
<1>1. promise[d] = "none" /\ UNCHANGED <<ready, stray, pending, execution>>
  BY DEF Call, serverVars
<1>2. (IsCollected(c)' <=> IsCollected(c)) /\ execution'[c] = execution[c]
  BY <1>1 DEF IsCollected
<1>3. opened \in [Calls -> Outcomes] /\ opened[d] = "open" /\ (c # d => opened[c] = promise[c])
  BY DEF TypeOK, Outcomes
<1>4. c = d => ~Queued(c) /\ ~Sent(c) /\ ~IsCollected(c) /\ execution[c] = "none"
  BY <1>1 DEF OnePlace
<1>5. CASE /\ promise' = [promise EXCEPT ![d] = "cancelled"]
           /\ UNCHANGED <<waiting, handlers, tracked, toServer>>
  <2>1. promise'[c] \in {"none", "unsent"} => promise[c] \in {"none", "unsent"}
    BY <1>5 DEF TypeOK
  <2>2. (Sent(c)' <=> Sent(c)) /\ Once(toServer', "Promise", c)
    BY <1>5, SameServerStream DEF OnePlace
  <2> QED BY <1>1, <1>2, <1>5, <2>1, <2>2, PlaceKept
<1>6. CASE DoCall(d, opened) /\ UNCHANGED waiting
  <2> HIDE DEF opened
  <2>1. /\ Once(toServer', "Promise", c)
        /\ c # d => (Sent(c)' <=> Sent(c)) /\ promise'[c] = opened[c]
        /\ c = d => \/ Sent(c)' /\ promise'[c] = opened[c]
                    \/ ~Sent(c)' /\ promise'[c] = opened[c] /\ opened[c] # "open"
                    \/ ~Sent(c)' /\ promise'[c] = "unsent"
    BY <1>3, <1>4, <1>6, DoCallPlaces DEF OnePlace
  <2>2. CASE c # d
    BY <1>1, <1>2, <1>3, <1>6, <2>1, <2>2, PlaceKept
  <2>3. CASE c = d
    BY <1>1, <1>2, <1>3, <1>4, <1>6, <2>1, <2>3 DEF OnePlace, Queued
  <2> QED BY <2>2, <2>3
<1>7. CASE /\ waiting' = waiting \cup {d} /\ promise' = opened
           /\ UNCHANGED <<handlers, toServer>>
  <2> HIDE DEF opened
  <2>1. (Sent(c)' <=> Sent(c)) /\ Once(toServer', "Promise", c)
    BY <1>7, SameServerStream DEF OnePlace
  <2>2. CASE c # d
    BY <1>1, <1>2, <1>3, <1>7, <2>1, <2>2, PlaceKept
  <2>3. CASE c = d
    BY <1>1, <1>2, <1>3, <1>4, <1>7, <2>1, <2>3 DEF OnePlace, Queued
  <2> QED BY <2>2, <2>3
<1> QED BY <1>5, <1>6, <1>7 DEF Call

\* Requests are taken back: nothing asks for a call.
LEMMA TakeBackPlaces ==
  ASSUME TypeOK, NEW R \in SUBSET Requests, IsFiniteSet(R), TakeBack(R),
         UNCHANGED <<pending, execution>>, NEW c \in Calls, OnePlace(c),
         promise'[c] \in {"none", "unsent"} => promise[c] \in {"none", "unsent"}
  PROVE  OnePlace(c)'
<1>1. PICK s \in Seq(ServerMessages) :
         /\ toServer' = toServer \o s
         /\ \A i \in DOMAIN s :
               s[i].type = IF s[i].id \in Calls THEN "PromiseCancel" ELSE "EventDispose"
  BY Messages
<1>2. (Sent(c)' <=> Sent(c)) /\ Once(toServer', "Promise", c)
  BY <1>1, OtherMessages DEF OnePlace
<1>3. IsCollected(c)' <=> IsCollected(c)
  BY DEF IsCollected
<1>4. /\ c \in waiting' => c \in waiting
      /\ c \in ready' => c \in ready
      /\ c \in stray' <=> c \in stray \/ (c \in ready /\ c \notin ready')
  BY DEF TakeBack
<1> QED BY <1>2, <1>3, <1>4 DEF OnePlace, Queued

\* cancel() only cancels.
LEMMA CancelledPlaces ==
  ASSUME TypeOK, NEW C, Cancelled(C), NEW c \in Calls
  PROVE  promise'[c] \in {"none", "unsent"} => promise[c] \in {"none", "unsent"}
BY DEF Cancelled

\* The callback of a queued request.
LEMMA CallbackPlaces ==
  ASSUME TypeOK, NEW c \in Calls, NEW r \in Requests, OnePlace(c), InitializedCallback(r)
  PROVE  OnePlace(c)'
<1>1. UNCHANGED <<waiting, pending, execution>>
  BY DEF InitializedCallback, serverVars
<1>2. (IsCollected(c)' <=> IsCollected(c)) /\ execution'[c] = execution[c]
  BY <1>1 DEF IsCollected
<1>3. /\ c # r => (c \in ready' <=> c \in ready) /\ (c \in stray' <=> c \in stray)
      /\ c = r => Queued(c)
  BY DEF InitializedCallback, Queued
<1>4. CASE r \in Calls /\ DoCall(r, promise)
  <2>0. promise \in [Calls -> Outcomes]
    BY DEF TypeOK, Outcomes
  <2>1. c = r => ~Sent(c)
    BY <1>3 DEF OnePlace
  <2>2. /\ Once(toServer', "Promise", c)
        /\ c # r => (Sent(c)' <=> Sent(c)) /\ promise'[c] = promise[c]
        /\ c = r => \/ Sent(c)' /\ promise'[c] = promise[c]
                    \/ ~Sent(c)' /\ promise'[c] = promise[c] /\ promise[c] # "open"
                    \/ ~Sent(c)' /\ promise'[c] = "unsent"
    BY <1>4, <2>0, <2>1, DoCallPlaces DEF OnePlace
  <2>3. CASE c # r
    BY <1>1, <1>2, <1>3, <2>2, <2>3, PlaceKept
  <2>4. CASE c = r
    <3>1. c \notin waiting' /\ c \notin ready' /\ c \notin stray'
      BY <2>4 DEF InitializedCallback, OnePlace
    <3>2. promise[c] \notin {"none", "unsent"}
      BY <1>3, <2>4 DEF OnePlace
    <3>3. ~IsCollected(c) /\ execution[c] = "none"
      BY <1>3, <2>4 DEF OnePlace
    <3> QED BY <1>2, <2>2, <2>4, <3>1, <3>2, <3>3 DEF OnePlace, Queued
  <2> QED BY <2>3, <2>4
<1>5. CASE r \in Events /\ DoListen(r) /\ UNCHANGED <<promise, handlers>>
  <2>1. c # r
    BY <1>5, IdsAssumption
  <2>2. (Sent(c)' <=> Sent(c)) /\ Once(toServer', "Promise", c)
    BY <1>5, ListenIsOther DEF OnePlace
  <2> QED BY <1>1, <1>2, <1>3, <1>5, <2>1, <2>2, PlaceKept
<1> QED BY <1>4, <1>5 DEF InitializedCallback

\* The steps of the client.
LEMMA ClientPlaces ==
  ASSUME TypeOK, NEW c \in Calls, OnePlace(c),
         \/ \E d \in Calls : Call(d) \/ CancelToken(d) \/ Finally(d)
         \/ \E e \in Events : AddListener(e) \/ RemoveListener(e)
         \/ \E r \in Requests : Woken(r) \/ InitializedCallback(r)
         \/ DisposeClient
  PROVE  OnePlace(c)'
<1>1. ASSUME NEW d \in Calls, CancelToken(d)
      PROVE  OnePlace(c)'
  <2>1. CASE d \in tracked
    <3>1. /\ TakeBack({d}) /\ Cancelled({d}) /\ UNCHANGED <<pending, execution>>
          /\ IsFiniteSet({d}) /\ {d} \in SUBSET Requests
      BY <1>1, <2>1, FS_Singleton DEF CancelToken, Requests, serverVars
    <3> QED BY <3>1, TakeBackPlaces, CancelledPlaces
  <2>2. CASE d \notin tracked
    <3>1. UNCHANGED <<waiting, ready, stray, toServer, promise, pending, execution>>
      BY <1>1, <2>2 DEF CancelToken, serverVars
    <3> QED BY <3>1 DEF OnePlace, Queued, Sent, IsCollected
  <2> QED BY <2>1, <2>2
<1>2. ASSUME NEW d \in Calls, Finally(d)
      PROVE  OnePlace(c)'
  BY <1>2 DEF Finally, serverVars, OnePlace, Queued, Sent, IsCollected
<1>3. ASSUME NEW e \in Events, AddListener(e)
      PROVE  OnePlace(c)'
  <2>1. c # e
    BY IdsAssumption
  <2>2. /\ UNCHANGED <<ready, stray, promise, pending, execution>>
        /\ c \in waiting' <=> c \in waiting
    BY <1>3, <2>1 DEF AddListener, serverVars
  <2>3. (Sent(c)' <=> Sent(c)) /\ Once(toServer', "Promise", c)
    <3>1. CASE DoListen(e)
      BY <3>1, ListenIsOther DEF OnePlace
    <3>2. CASE UNCHANGED toServer
      BY <3>2, SameServerStream DEF OnePlace
    <3> QED BY <1>3, <3>1, <3>2 DEF AddListener
  <2>4. IsCollected(c)' <=> IsCollected(c)
    BY <2>2 DEF IsCollected
  <2> QED BY <2>2, <2>3, <2>4, PlaceKept
<1>4. ASSUME NEW e \in Events, RemoveListener(e)
      PROVE  OnePlace(c)'
  <2>1. /\ TakeBack({e}) /\ UNCHANGED <<promise, pending, execution>>
        /\ IsFiniteSet({e}) /\ {e} \in SUBSET Requests
    BY <1>4, FS_Singleton DEF RemoveListener, Requests, serverVars
  <2> QED BY <2>1, TakeBackPlaces
<1>5. ASSUME NEW r \in Requests, Woken(r)
      PROVE  OnePlace(c)'
  <2>1. /\ UNCHANGED <<stray, toServer, promise, pending, execution>>
        /\ c \in waiting' <=> c \in waiting /\ c # r
        /\ c \in ready' <=> c \in ready \/ c = r
        /\ r \in waiting
    BY <1>5 DEF Woken, serverVars
  <2>2. (Sent(c)' <=> Sent(c)) /\ (IsCollected(c)' <=> IsCollected(c))
    BY <2>1 DEF Sent, IsCollected
  <2> QED BY <2>1, <2>2 DEF OnePlace, Queued
<1>6. CASE DisposeClient
  <2>1. /\ TakeBack(tracked) /\ Cancelled(tracked) /\ UNCHANGED <<pending, execution>>
        /\ IsFiniteSet(tracked) /\ tracked \in SUBSET Requests
    BY <1>6 DEF DisposeClient, TypeOK, serverVars
  <2> QED BY <2>1, TakeBackPlaces, CancelledPlaces
<1> QED BY <1>1, <1>2, <1>3, <1>4, <1>5, <1>6, CallPlaces, CallbackPlaces

\* onResponse: a promise becomes neither fresh nor unsent.
LEMMA ResponsePlaces ==
  ASSUME TypeOK, NEW c \in Calls, OnePlace(c), ReceiveResponse
  PROVE  OnePlace(c)'
<1> DEFINE m == Head(toClient)
<1>1. UNCHANGED <<waiting, ready, stray, toServer, pending, execution>>
  BY DEF ReceiveResponse, serverVars
<1>2. promise'[c] \in {"none", "unsent"} => promise[c] \in {"none", "unsent"}
  <2>1. CASE promise' = promise
    BY <2>1
  <2>2. CASE m.type = "Answer" /\ promise' = Settle(m.id, m.data)
    <3>1. m \in ClientMessages
      BY DEF ReceiveResponse, TypeOK
    <3>2. m.id \in Calls /\ m.data \in Answers \cup {"unknown"}
      BY <2>2, <3>1, Responses
    <3>3. m.data \notin {"none", "unsent"}
      BY <3>2 DEF Answers
    <3> HIDE DEF m
    <3>4. promise'[c] = promise[c] \/ promise'[c] = m.data
      BY <2>2, <3>2 DEF Settle, TypeOK
    <3> QED BY <3>3, <3>4
  <2> QED BY <2>1, <2>2 DEF ReceiveResponse
<1> QED BY <1>1, <1>2 DEF OnePlace, Queued, Sent, IsCollected

\* The requests collected for h are served or left behind.
LEMMA FlushPlaces ==
  ASSUME TypeOK, NEW h \in Channels, FlushPendingRequests(h), NEW c \in Calls
  PROVE  /\ IsCollected(c)' <=> IsCollected(c) /\ ChannelOf[c] # h
         /\ \/ execution'[c] = execution[c]
            \/ IsCollected(c) /\ ChannelOf[c] = h /\ execution'[c] = "running"
         /\ \A i \in DOMAIN pending[h] :
               pending[h][i] = [id |-> c, timer |-> "armed"]
               => execution'[c] = "running" \/ c \in stranded'
<1>1. ChannelOf[c] \in Channels
  BY IdsAssumption DEF Requests
<1>2. pending' = [pending EXCEPT ![h] = <<>>]
  BY DEF FlushPendingRequests
<1>3. IsCollected(c)' <=> IsCollected(c) /\ ChannelOf[c] # h
  BY <1>1, <1>2 DEF IsCollected, TypeOK
<1>4. PICK n \in 0..Len(pending[h]) : Flushed(h, n)
  BY SomeFlushed
<1> DEFINE rs == SubSeq(Collected(h), 1, n)
<1>5. /\ Len(pending[h]) \in Nat /\ DOMAIN pending[h] = 1..Len(pending[h]) /\ DOMAIN rs = 1..n
      /\ \A i \in 1..n : i \in DOMAIN pending[h] /\ rs[i] = pending[h][i].id
  BY CollectedTypes
<1>6. execution'[c] = IF \E i \in DOMAIN rs : rs[i] = c THEN "running" ELSE execution[c]
  BY <1>4 DEF Flushed, Serve
<1>7. \A i \in (n + 1)..Len(pending[h]) :
         pending[h][i] = [id |-> c, timer |-> "armed"] => c \in stranded'
  BY <1>4 DEF Flushed
<1> HIDE DEF rs
<1>8. (\E i \in DOMAIN rs : rs[i] = c) => IsCollected(c) /\ ChannelOf[c] = h
  <2> SUFFICES ASSUME NEW i \in 1..n, rs[i] = c
               PROVE  IsCollected(c) /\ ChannelOf[c] = h
    BY <1>5
  <2>1. i \in DOMAIN pending[h] /\ pending[h][i].id = c
    BY <1>5
  <2>2. ChannelOf[c] = h
    BY <2>1 DEF TypeOK
  <2> QED BY <2>1, <2>2 DEF IsCollected
<1>9. ASSUME NEW i \in DOMAIN pending[h], pending[h][i] = [id |-> c, timer |-> "armed"]
      PROVE  execution'[c] = "running" \/ c \in stranded'
  <2>1. i \in 1..n \/ i \in (n + 1)..Len(pending[h])
    BY <1>5
  <2>2. i \in 1..n => rs[i] = c
    BY <1>5, <1>9
  <2> QED BY <1>5, <1>6, <1>7, <1>9, <2>1, <2>2
<1> QED BY <1>3, <1>6, <1>8, <1>9

\* A request is collected.
LEMMA CollectPlaces ==
  ASSUME TypeOK, NEW r \in Requests, Collect(r), NEW c \in Requests
  PROVE  IsCollected(c)' <=> IsCollected(c) \/ c = r
<1> DEFINE x == [id |-> r, timer |-> "armed"]
           g == ChannelOf[r]
<1>1. ChannelOf[c] \in Channels /\ g \in Channels
  BY IdsAssumption
<1>2. pending' = [pending EXCEPT ![g] = Append(pending[g], x)]
  BY DEF Collect
<1>3. pending[g] \in Seq(PendingRequests) /\ x \in PendingRequests /\ x.id = r
  BY <1>1 DEF TypeOK, PendingRequests
<1> HIDE DEF x
<1>4. /\ \A i \in DOMAIN pending[g] :
            i \in DOMAIN Append(pending[g], x) /\ Append(pending[g], x)[i] = pending[g][i]
      /\ \E i \in DOMAIN Append(pending[g], x) : Append(pending[g], x)[i] = x
      /\ \A i \in DOMAIN Append(pending[g], x) :
            Append(pending[g], x)[i] = x \/ (i \in DOMAIN pending[g]
                                             /\ Append(pending[g], x)[i] = pending[g][i])
  <2>1. Len(Append(pending[g], x)) = Len(pending[g]) + 1
        /\ Append(pending[g], x)[Len(pending[g]) + 1] = x
        /\ Len(pending[g]) + 1 \in DOMAIN Append(pending[g], x)
    BY <1>3
  <2>2. \A i \in DOMAIN pending[g] :
            i \in DOMAIN Append(pending[g], x) /\ Append(pending[g], x)[i] = pending[g][i]
    BY <1>3
  <2>3. \A i \in DOMAIN Append(pending[g], x) :
            Append(pending[g], x)[i] = x \/ (i \in DOMAIN pending[g]
                                             /\ Append(pending[g], x)[i] = pending[g][i])
    BY <1>3
  <2> QED BY <2>1, <2>2, <2>3
<1>5. pending'[ChannelOf[c]] =
         IF ChannelOf[c] = g THEN Append(pending[g], x) ELSE pending[ChannelOf[c]]
  BY <1>1, <1>2 DEF TypeOK
<1>6. CASE ChannelOf[c] = g
  BY <1>3, <1>4, <1>5, <1>6 DEF IsCollected
<1>7. CASE ChannelOf[c] # g
  BY <1>5, <1>7 DEF IsCollected
<1> QED BY <1>6, <1>7

\* A request is served: a call runs from now on.
LEMMA ServeOne ==
  ASSUME NEW r \in Requests, Serve(<<r>>), NEW c \in Calls
  PROVE  execution'[c] = IF c = r THEN "running" ELSE execution[c]
<1>1. DOMAIN <<r>> = {1} /\ <<r>>[1] = r
  OBVIOUS
<1>2. execution'[c] = IF \E i \in DOMAIN <<r>> : <<r>>[i] = c THEN "running" ELSE execution[c]
  BY DEF Serve
<1> QED BY <1>1, <1>2

\* onRawMessage.
LEMMA RequestPlaces ==
  ASSUME TypeOK, NEW c \in Calls, OnePlace(c), ReceiveRequest
  PROVE  OnePlace(c)' /\ (execution'[c] = execution[c] \/ execution[c] = "none")
<1> DEFINE m == Head(toServer)
<1>1. /\ m \in ServerMessages /\ toServer \in Seq(ServerMessages) /\ toServer # <<>>
      /\ toServer' = Tail(toServer) /\ UNCHANGED <<waiting, ready, stray, promise>>
  BY DEF ReceiveRequest, TypeOK, clientVars
<1>2. /\ m.id \in Requests
      /\ m.id \in Calls /\ m.type \in {"Promise", "EventListen"} => m.type = "Promise"
  BY <1>1, RequestsOf
<1>3. CASE m.type \in {"PromiseCancel", "EventDispose"} /\ UNCHANGED <<pending, execution>>
  <2>1. (Sent(c)' <=> Sent(c)) /\ Once(toServer', "Promise", c)
    BY <1>1, <1>3, FlightTail DEF Sent, OnePlace
  <2>2. IsCollected(c)' <=> IsCollected(c)
    BY <1>3 DEF IsCollected
  <2> QED BY <1>1, <1>3, <2>1, <2>2, PlaceKept
<1>4. CASE m.type \in {"Promise", "EventListen"} /\ Serve(<<m.id>>) /\ UNCHANGED pending
  <2>1. IsCollected(c)' <=> IsCollected(c)
    BY <1>4 DEF IsCollected
  <2>2. execution'[c] = IF c = m.id THEN "running" ELSE execution[c]
    BY <1>2, <1>4, ServeOne
  <2>3. CASE c = m.id
    <3>1. Sent(c) /\ ~Sent(c)' /\ Once(toServer', "Promise", c)
      <4>1. m.type = "Promise"
        BY <1>2, <1>4, <2>3
      <4>2. 1 \in DOMAIN toServer /\ m = toServer[1]
        BY <1>1, HeadAndTail
      <4>3. Sent(c)
        BY <2>3, <4>1, <4>2 DEF Sent, InFlight
      <4> QED BY <1>1, <2>3, <4>1, <4>3, FlightTail DEF Sent, OnePlace
    <3> QED BY <1>1, <2>1, <2>2, <2>3, <3>1 DEF OnePlace, Queued
  <2>4. CASE c # m.id
    <3>1. (Sent(c)' <=> Sent(c)) /\ Once(toServer', "Promise", c)
      BY <1>1, <2>4, FlightTail DEF Sent, OnePlace
    <3> QED BY <1>1, <2>1, <2>2, <2>4, <3>1, PlaceKept
  <2> QED BY <2>3, <2>4
<1>5. CASE m.type \in {"Promise", "EventListen"} /\ Collect(m.id) /\ UNCHANGED execution
  <2>1. IsCollected(c)' <=> IsCollected(c) \/ c = m.id
    BY <1>2, <1>5, CollectPlaces DEF Requests
  <2>3. CASE c = m.id
    <3>1. Sent(c) /\ ~Sent(c)' /\ Once(toServer', "Promise", c)
      <4>1. m.type = "Promise"
        BY <1>2, <1>5, <2>3
      <4>2. 1 \in DOMAIN toServer /\ m = toServer[1]
        BY <1>1, HeadAndTail
      <4>3. Sent(c)
        BY <2>3, <4>1, <4>2 DEF Sent, InFlight
      <4> QED BY <1>1, <2>3, <4>1, <4>3, FlightTail DEF Sent, OnePlace
    <3> QED BY <1>1, <1>5, <2>1, <2>3, <3>1 DEF OnePlace, Queued
  <2>4. CASE c # m.id
    <3>1. (Sent(c)' <=> Sent(c)) /\ Once(toServer', "Promise", c)
      BY <1>1, <2>4, FlightTail DEF Sent, OnePlace
    <3> QED BY <1>1, <1>5, <2>1, <2>4, <3>1, PlaceKept
  <2> QED BY <2>3, <2>4
<1>6. CASE m.type = "EventListen" /\ UNCHANGED <<execution, pending>>
  <2>1. (Sent(c)' <=> Sent(c)) /\ Once(toServer', "Promise", c)
    BY <1>1, <1>6, FlightTail DEF Sent, OnePlace
  <2>2. IsCollected(c)' <=> IsCollected(c)
    BY <1>6 DEF IsCollected
  <2> QED BY <1>1, <1>6, <2>1, <2>2, PlaceKept
<1> QED BY <1>3, <1>4, <1>5, <1>6 DEF ReceiveRequest

\* The time-out leaves the request where it is.
LEMMA UnknownPlaces ==
  ASSUME TypeOK, NEW h \in Channels, NEW i \in DOMAIN pending[h], UnknownChannel(h, i)
  PROVE  \A g \in Channels :
            /\ DOMAIN pending'[g] = DOMAIN pending[g]
            /\ \A j \in DOMAIN pending[g] :
                  /\ pending'[g][j].id = pending[g][j].id
                  /\ <<g, j>> # <<h, i>> => pending'[g][j] = pending[g][j]
<1> DEFINE p == [pending[h] EXCEPT ![i].timer = "fired"]
<1>1. pending[h] \in Seq(PendingRequests) /\ pending[h][i] \in PendingRequests
  BY DEF TypeOK
<1>2. /\ DOMAIN p = DOMAIN pending[h]
      /\ \A j \in DOMAIN p : j # i => p[j] = pending[h][j]
  BY <1>1
<1>3. p[i].id = pending[h][i].id
  BY <1>1 DEF PendingRequests
<1>4. pending' = [pending EXCEPT ![h] = p]
  BY DEF UnknownChannel, PendingAfterTimeout
<1> HIDE DEF p
<1>5. \A g \in Channels : pending'[g] = IF g = h THEN p ELSE pending[g]
  BY <1>4 DEF TypeOK
<1> QED BY <1>2, <1>3, <1>5

\* Every step of the server keeps the requests of calls in one place.
LEMMA ServerPlaces ==
  ASSUME TypeOK, NEW c \in Calls, OnePlace(c),
         \/ \E e \in Events : Fire(e)
         \/ \E h \in Channels : RegisterChannel(h) \/ FlushPendingRequests(h)
         \/ \E h \in Channels : \E i \in DOMAIN pending[h] : UnknownChannel(h, i)
         \/ \E d \in Calls, a \in Results : Finish(d, a)
         \/ \E d \in Calls : StrandedTimeout(d)
         \/ DisposeServer
  PROVE  OnePlace(c)'
<1>1. UNCHANGED <<waiting, ready, stray, promise, toServer>>
  BY DEF Fire, RegisterChannel, FlushPendingRequests, UnknownChannel, Finish, StrandedTimeout,
         DisposeServer, clientVars
<1>2. (Sent(c)' <=> Sent(c)) /\ Once(toServer', "Promise", c)
  BY <1>1, SameServerStream DEF OnePlace
<1>3. CASE UNCHANGED <<pending, execution>>
  <2>1. IsCollected(c)' <=> IsCollected(c)
    BY <1>3 DEF IsCollected
  <2> QED BY <1>1, <1>2, <1>3, <2>1, PlaceKept
<1>4. ASSUME NEW h \in Channels, FlushPendingRequests(h)
      PROVE  OnePlace(c)'
  <2>1. /\ IsCollected(c)' <=> IsCollected(c) /\ ChannelOf[c] # h
        /\ \/ execution'[c] = execution[c]
           \/ IsCollected(c) /\ ChannelOf[c] = h /\ execution'[c] = "running"
    BY <1>4, FlushPlaces
  <2> QED BY <1>1, <1>2, <2>1 DEF OnePlace, Queued
<1>5. ASSUME NEW h \in Channels, NEW i \in DOMAIN pending[h], UnknownChannel(h, i)
      PROVE  OnePlace(c)'
  <2>1. ChannelOf[c] \in Channels
    BY IdsAssumption DEF Requests
  <2> DEFINE g == ChannelOf[c]
  <2>5. /\ DOMAIN pending'[g] = DOMAIN pending[g]
        /\ \A j \in DOMAIN pending[g] : pending'[g][j].id = pending[g][j].id
    BY <1>5, <2>1, UnknownPlaces
  <2>2. IsCollected(c)' <=> IsCollected(c)
    BY <2>5 DEF IsCollected
  <2>3. UNCHANGED execution
    BY <1>5 DEF UnknownChannel
  <2> QED BY <1>1, <1>2, <2>2, <2>3, PlaceKept
<1>6. ASSUME NEW d \in Calls, NEW a \in Results, Finish(d, a)
      PROVE  OnePlace(c)'
  <2>1. UNCHANGED pending /\ (execution'[c] = execution[c] \/ execution[c] = "running")
    BY <1>6 DEF Finish, TypeOK
  <2>2. IsCollected(c)' <=> IsCollected(c)
    BY <2>1 DEF IsCollected
  <2> QED BY <1>1, <1>2, <2>1, <2>2, PlaceKept
<1>7. ASSUME NEW e \in Events, Fire(e)
      PROVE  UNCHANGED <<pending, execution>>
  BY <1>7 DEF Fire
<1>8. ASSUME NEW h \in Channels, RegisterChannel(h)
      PROVE  UNCHANGED <<pending, execution>>
  BY <1>8 DEF RegisterChannel
<1>9. DisposeServer \/ (\E d \in Calls : StrandedTimeout(d)) => UNCHANGED <<pending, execution>>
  BY DEF DisposeServer, StrandedTimeout
<1> QED BY <1>3, <1>4, <1>5, <1>6, <1>7, <1>8, <1>9

\* What was sent to the client stays true, and so does what is sent with it.
LEMMA TruthfulMore ==
  ASSUME TypeOK, NEW c \in Calls, Truthful(c), NEW s \in Seq(ClientMessages),
         toClient' = toClient \o s,
         \A i \in DOMAIN s : s[i].type = "Answer" /\ s[i].id = c /\ s[i].data \in Answers =>
             execution'[c] = s[i].data,
         execution'[c] = execution[c] \/ execution[c] = "running"
  PROVE  Truthful(c)'
<1> DEFINE q == toClient
           p == q \o s
<1>1. /\ \A i \in DOMAIN p : i \in DOMAIN q \/ \E j \in DOMAIN s : i = Len(q) + j
      /\ \A i \in DOMAIN q : p[i] = q[i]
      /\ \A j \in DOMAIN s : p[Len(q) + j] = s[j]
  <2>1. q \in Seq(ClientMessages)
    BY DEF TypeOK
  <2> HIDE DEF q
  <2>2. Joined(q, s, p)
    BY <2>1, More
  <2> HIDE DEF p
  <2> QED BY <2>2 DEF Joined
<1> HIDE DEF p
<1>2. "running" \notin Answers /\ toClient' = p
  BY DEF Answers, p
<1> QED BY <1>1, <1>2 DEF Truthful

\* Nothing is sent.
LEMMA TruthfulKept ==
  ASSUME NEW c, Truthful(c), UNCHANGED toClient,
         execution'[c] = execution[c] \/ execution[c] = "none"
  PROVE  Truthful(c)'
BY DEF Truthful, Answers

\* The client hears of nothing that did not happen.
LEMMA TruthfulStep ==
  ASSUME TypeOK, NEW c \in Calls, OnePlace(c), Truthful(c), [Next]_vars
  PROVE  Truthful(c)'
<1>1. CASE UNCHANGED <<toClient, execution>>
  BY <1>1, TruthfulKept
<1>2. CASE ReceiveRequest
  <2>1. UNCHANGED toClient
    BY <1>2 DEF ReceiveRequest
  <2> QED BY <1>2, <2>1, RequestPlaces, TruthfulKept
<1>3. CASE ReceiveResponse
  <2>1. /\ toClient \in Seq(ClientMessages) /\ toClient # <<>> /\ toClient' = Tail(toClient)
        /\ UNCHANGED execution
    BY <1>3 DEF ReceiveResponse, TypeOK, serverVars
  <2>2. \A i \in DOMAIN toClient' : i + 1 \in DOMAIN toClient /\ toClient'[i] = toClient[i + 1]
    BY <2>1, HeadAndTail
  <2> QED BY <2>1, <2>2 DEF Truthful
<1>4. ASSUME NEW h \in Channels, FlushPendingRequests(h)
      PROVE  Truthful(c)'
  <2>1. execution'[c] = execution[c] \/ execution[c] = "none"
    BY <1>4, FlushPlaces DEF OnePlace
  <2>2. UNCHANGED toClient
    BY <1>4 DEF FlushPendingRequests, clientVars
  <2> QED BY <2>1, <2>2, TruthfulKept
<1>14. ASSUME NEW r, toClient' = toClient \o UnknownAnswer(r), UNCHANGED execution
       PROVE  Truthful(c)'
  <2> DEFINE s == UnknownAnswer(r)
  <2>1. /\ s \in Seq(ClientMessages)
        /\ \A j \in DOMAIN s : s[j].data = "unknown"
    BY UnknownMessages
  <2>2. "unknown" \notin Answers
    BY DEF Answers
  <2> HIDE DEF s
  <2> QED BY <1>14, <2>1, <2>2, TruthfulMore DEF s
<1>5. ASSUME NEW h \in Channels, NEW i \in DOMAIN pending[h], UnknownChannel(h, i)
      PROVE  Truthful(c)'
  <2>1. toClient' = toClient \o UnknownAnswer(pending[h][i].id) /\ UNCHANGED execution
    BY <1>5 DEF UnknownChannel
  <2> QED BY <1>14, <2>1
<1>15. ASSUME NEW d \in Calls, StrandedTimeout(d)
       PROVE  Truthful(c)'
  <2>1. toClient' = toClient \o UnknownAnswer(d) /\ UNCHANGED execution
    BY <1>15 DEF StrandedTimeout
  <2> QED BY <1>14, <2>1
<1>6. ASSUME NEW d \in Calls, NEW a \in Results, Finish(d, a)
      PROVE  Truthful(c)'
  <2> DEFINE s == AnswerOf(d, a)
  <2>1. /\ s \in Seq(ClientMessages)
        /\ \A i \in DOMAIN s : s[i].id = d /\ s[i].data = a
    BY AnswerMessages
  <2>2. /\ toClient' = toClient \o s
        /\ execution[d] = "running" /\ execution'[c] = IF c = d THEN a ELSE execution[c]
    BY <1>6 DEF Finish, TypeOK
  <2> HIDE DEF s
  <2>3. \A i \in DOMAIN s : s[i].id = c => execution'[c] = s[i].data
    BY <2>1, <2>2
  <2> QED BY <2>1, <2>2, <2>3, TruthfulMore
<1>7. ASSUME NEW e \in Events, Fire(e)
      PROVE  Truthful(c)'
  <2> DEFINE s == [i \in 1..subs[e] |-> Response("EventFire", e, fires[e] + 1)]
  <2>1. s \in Seq(ClientMessages) /\ (toClient' = toClient \o s \/ UNCHANGED toClient)
    BY <1>7, FireMessages
  <2>2. \A i \in DOMAIN s : s[i].type = "EventFire"
    BY DEF Response
  <2>3. UNCHANGED execution
    BY <1>7 DEF Fire
  <2> HIDE DEF s
  <2> QED BY <2>1, <2>2, <2>3, TruthfulMore, TruthfulKept
<1>8. ASSUME NEW d \in Calls, Call(d) \/ CancelToken(d) \/ Finally(d)
      PROVE  UNCHANGED <<toClient, execution>>
  BY <1>8 DEF Call, CancelToken, Finally, serverVars
<1>9. ASSUME NEW e \in Events, AddListener(e) \/ RemoveListener(e)
      PROVE  UNCHANGED <<toClient, execution>>
  BY <1>9 DEF AddListener, RemoveListener, serverVars
<1>10. ASSUME NEW r \in Requests, Woken(r) \/ InitializedCallback(r)
       PROVE  UNCHANGED <<toClient, execution>>
  BY <1>10 DEF Woken, InitializedCallback, serverVars
<1>11. ASSUME NEW h \in Channels, RegisterChannel(h)
       PROVE  UNCHANGED <<toClient, execution>>
  BY <1>11 DEF RegisterChannel, clientVars
<1>12. DisposeClient \/ DisposeServer => UNCHANGED <<toClient, execution>>
  BY DEF DisposeClient, DisposeServer, serverVars, clientVars
<1>13. UNCHANGED vars => UNCHANGED <<toClient, execution>>
  BY DEF vars, serverVars
<1> QED BY <1>1, <1>2, <1>3, <1>4, <1>5, <1>6, <1>7, <1>8, <1>9, <1>10, <1>11, <1>12, <1>13,
           <1>15
        DEF Next

\* Every step.
LEMMA CallsStep == TypeOK /\ CallInv /\ [Next]_vars => CallInv'
<1> SUFFICES ASSUME TypeOK, CallInv, [Next]_vars, NEW c \in Calls
             PROVE  OnePlace(c)' /\ Truthful(c)'
  BY DEF CallInv
<1>1. OnePlace(c) /\ Truthful(c)
  BY DEF CallInv
<1>2. Truthful(c)'
  BY <1>1, TruthfulStep
<1>3. CASE UNCHANGED vars
  <2>1. UNCHANGED <<waiting, ready, stray, promise, toServer, pending, execution>>
    BY <1>3 DEF vars, clientVars, serverVars
  <2>2. (Sent(c)' <=> Sent(c)) /\ (IsCollected(c)' <=> IsCollected(c))
    BY <2>1 DEF Sent, IsCollected
  <2> QED BY <1>1, <1>2, <2>1, <2>2 DEF OnePlace, Queued
<1>4. CASE \/ \E d \in Calls : Call(d) \/ CancelToken(d) \/ Finally(d)
           \/ \E e \in Events : AddListener(e) \/ RemoveListener(e)
           \/ \E r \in Requests : Woken(r) \/ InitializedCallback(r)
           \/ DisposeClient
  BY <1>1, <1>2, <1>4, ClientPlaces
<1>5. CASE ReceiveResponse \/ ReceiveRequest
  BY <1>1, <1>2, <1>5, ResponsePlaces, RequestPlaces
<1>6. CASE \/ \E e \in Events : Fire(e)
           \/ \E h \in Channels : RegisterChannel(h) \/ FlushPendingRequests(h)
           \/ \E h \in Channels : \E i \in DOMAIN pending[h] : UnknownChannel(h, i)
           \/ \E d \in Calls, a \in Results : Finish(d, a)
           \/ \E d \in Calls : StrandedTimeout(d)
           \/ DisposeServer
  BY <1>1, <1>2, <1>6, ServerPlaces
<1> QED BY <1>2, <1>3, <1>4, <1>5, <1>6 DEF Next
-----------------------------------------------------------------------------
(* Calls: the steps of RemoteCalls.                                          *)

Inv == TypeOK /\ CallInv

\* The invariant.
LEMMA Invariant == Spec => []Inv
<1>1. Init => Inv
  BY TypesInitially, CallsInitially DEF Inv
<1>2. Inv /\ [Next]_vars => Inv'
  BY TypesStep, CallsStep DEF Inv
<1> QED BY <1>1, <1>2, PTL DEF Spec

RcVars == <<promise, execution>>

\* A promise is given up.
LEMMA GivesUp ==
  ASSUME TypeOK, NEW C \in SUBSET Calls, Cancelled(C), UNCHANGED execution
  PROVE  [RC!RcNext]_RcVars
<1> DEFINE D == {c \in C : promise[c] = "open"}
<1>1. promise' = [c \in Calls |-> IF c \in D THEN "cancelled" ELSE promise[c]]
  BY DEF Cancelled
<1>2. D \in SUBSET Calls /\ \A c \in D : promise[c] = "open"
  OBVIOUS
<1> HIDE DEF D
<1>3. CASE D = {}
  BY <1>1, <1>3 DEF RcVars, TypeOK
<1>4. CASE D # {}
  <2>1. RC!GiveUp(D)
    BY <1>1, <1>2, <1>4 DEF RC!GiveUp, RC!GivenUp
  <2> QED BY <1>2, <2>1 DEF RC!RcNext
<1> QED BY <1>3, <1>4

\* One promise is given up.
LEMMA GivesUpOne ==
  ASSUME TypeOK, NEW c \in Calls, promise[c] = "open", NEW s \in {"unsent", "unknown"},
         promise' = [promise EXCEPT ![c] = s], UNCHANGED execution
  PROVE  RC!RcNext
<1>1. promise' = [d \in Calls |-> IF d \in {c} THEN s ELSE promise[d]]
  BY DEF TypeOK
<1>2. RC!GiveUp({c})
  BY <1>1 DEF RC!GiveUp, RC!GivenUp
<1> QED BY <1>2 DEF RC!RcNext

\* A call is made.
LEMMA Asks ==
  ASSUME TypeOK, NEW c \in Calls, Call(c)
  PROVE  RC!RcNext
<1> DEFINE opened == [promise EXCEPT ![c] = "open"]
<1>1. promise[c] = "none" /\ UNCHANGED execution
  BY DEF Call, serverVars
<1>2. \/ promise' = [promise EXCEPT ![c] = "cancelled"] \/ promise' = opened
      \/ promise' = [opened EXCEPT ![c] = IF @ = "open" THEN "unsent" ELSE @]
  BY DEF Call, DoCall
<1>3. [opened EXCEPT ![c] = IF @ = "open" THEN "unsent" ELSE @] = [promise EXCEPT ![c] = "unsent"]
  BY DEF TypeOK
<1>4. \E s \in {"open", "cancelled", "unsent"} : promise' = [promise EXCEPT ![c] = s]
  BY <1>2, <1>3
<1>5. RC!Ask(c)
  BY <1>1, <1>4 DEF RC!Ask
<1> QED BY <1>5 DEF RC!RcNext

\* The callback of a queued request finds that it cannot be sent, or sends it.
LEMMA CallbackMaps ==
  ASSUME TypeOK, NEW r \in Requests, InitializedCallback(r)
  PROVE  [RC!RcNext]_RcVars
<1>1. UNCHANGED execution
  BY DEF InitializedCallback, serverVars
<1>2. CASE UNCHANGED promise
  BY <1>1, <1>2 DEF RcVars
<1>3. CASE /\ r \in Calls
           /\ promise' = [promise EXCEPT ![r] = IF @ = "open" THEN "unsent" ELSE @]
  <2>1. CASE promise[r] = "open"
    <3>1. promise' = [promise EXCEPT ![r] = "unsent"]
      BY <1>3, <2>1
    <3> QED BY <1>1, <1>3, <2>1, <3>1, GivesUpOne
  <2>2. CASE promise[r] # "open"
    <3>1. promise' = promise
      BY <1>3, <2>2 DEF TypeOK
    <3> QED BY <1>1, <3>1 DEF RcVars
  <2> QED BY <2>1, <2>2
<1> QED BY <1>2, <1>3 DEF InitializedCallback, DoCall

\* An answer is received.
LEMMA AnswerMaps ==
  ASSUME TypeOK, CallInv, ReceiveResponse
  PROVE  [RC!RcNext]_RcVars
<1> DEFINE m == Head(toClient)
<1>1. UNCHANGED execution
  BY DEF ReceiveResponse, serverVars
<1>2. CASE UNCHANGED promise
  BY <1>1, <1>2 DEF RcVars
<1>3. CASE m.type = "Answer" /\ promise' = Settle(m.id, m.data)
  <2>1. m \in ClientMessages /\ 1 \in DOMAIN toClient /\ m = toClient[1]
    BY HeadAndTail DEF ReceiveResponse, TypeOK
  <2>2. m.id \in Calls /\ m.data \in Answers \cup {"unknown"}
    BY <1>3, <2>1, Responses
  <2>3. m.data \in Answers => execution[m.id] = m.data
    BY <1>3, <2>1, <2>2 DEF CallInv, Truthful
  <2> DEFINE c == m.id
             a == m.data
  <2>4. c \in Calls /\ a \in Answers \cup {"unknown"} /\ (a \in Answers => execution[c] = a)
        /\ promise' = [promise EXCEPT ![c] = IF promise[c] = "open" THEN a ELSE promise[c]]
    BY <1>3, <2>2, <2>3 DEF Settle
  <2> HIDE DEF c, a
  <2>5. CASE promise[c] # "open"
    <3>1. promise' = promise
      BY <2>4, <2>5 DEF TypeOK
    <3> QED BY <1>1, <3>1 DEF RcVars
  <2>6. CASE promise[c] = "open" /\ a = "unknown"
    BY <1>1, <2>4, <2>6, GivesUpOne
  <2>7. CASE promise[c] = "open" /\ a \in Answers
    <3>1. RC!Return(c)
      BY <1>1, <2>4, <2>7 DEF RC!Return, RC!Answers, Answers
    <3> QED BY <2>4, <3>1 DEF RC!RcNext
  <2> QED BY <2>4, <2>5, <2>6, <2>7
<1> QED BY <1>2, <1>3 DEF ReceiveResponse

\* Requests are served.
LEMMA Executes ==
  ASSUME TypeOK, UNCHANGED promise, execution' \in [Calls -> {"none", "running"} \cup Results],
         \A c \in Calls : \/ execution'[c] = execution[c]
                          \/ /\ promise[c] \notin {"none", "unsent"} /\ execution[c] = "none"
                             /\ execution'[c] = "running"
  PROVE  [RC!RcNext]_RcVars
<1> DEFINE C == {c \in Calls : execution'[c] # execution[c]}
<1>1. execution' = [c \in Calls |-> IF c \in C THEN "running" ELSE execution[c]]
  BY DEF TypeOK
<1>2. C \in SUBSET Calls
      /\ \A c \in C : promise[c] \notin {"none", "unsent"} /\ execution[c] = "none"
  OBVIOUS
<1> HIDE DEF C
<1>3. CASE C = {}
  <2>1. execution' = execution
    BY <1>1, <1>3 DEF TypeOK
  <2> QED BY <2>1 DEF RcVars
<1>4. CASE C # {}
  <2>1. RC!Execute(C)
    BY <1>1, <1>2, <1>4 DEF RC!Execute
  <2> QED BY <1>2, <2>1 DEF RC!RcNext
<1> QED BY <1>3, <1>4

\* Collected requests are served: they were sent, and not executed yet.
LEMMA FlushMaps ==
  ASSUME TypeOK, CallInv, NEW h \in Channels, FlushPendingRequests(h)
  PROVE  [RC!RcNext]_RcVars
<1>1. UNCHANGED promise
  BY DEF FlushPendingRequests, clientVars
<1>2. execution' \in [Calls -> {"none", "running"} \cup Results]
  BY FlushTypes DEF TypeOK
<1>3. ASSUME NEW c \in Calls
      PROVE  \/ execution'[c] = execution[c]
             \/ /\ promise[c] \notin {"none", "unsent"} /\ execution[c] = "none"
                /\ execution'[c] = "running"
  <2>1. OnePlace(c)
    BY DEF CallInv
  <2>2. execution'[c] = execution[c] \/ (IsCollected(c) /\ execution'[c] = "running")
    BY FlushPlaces
  <2> QED BY <2>1, <2>2 DEF OnePlace
<1> QED BY <1>1, <1>2, <1>3, Executes

\* So was a request that is served at once.
LEMMA RequestMaps ==
  ASSUME TypeOK, CallInv, ReceiveRequest
  PROVE  [RC!RcNext]_RcVars
<1> DEFINE m == Head(toServer)
<1>1. UNCHANGED promise
  BY DEF ReceiveRequest, clientVars
<1>2. CASE UNCHANGED execution
  BY <1>1, <1>2 DEF RcVars
<1>3. CASE m.type \in {"Promise", "EventListen"} /\ Serve(<<m.id>>)
  <2>1. m \in ServerMessages /\ 1 \in DOMAIN toServer /\ m = toServer[1]
    BY HeadAndTail DEF ReceiveRequest, TypeOK
  <2>2. m.id \in Requests /\ (m.id \in Calls => m.type = "Promise")
    BY <1>3, <2>1, RequestsOf
  <2>3. execution' \in [Calls -> {"none", "running"} \cup Results]
    BY ReceiveRequestTypes DEF TypeOK
  <2>4. ASSUME NEW c \in Calls
        PROVE  \/ execution'[c] = execution[c]
               \/ /\ promise[c] \notin {"none", "unsent"} /\ execution[c] = "none"
                  /\ execution'[c] = "running"
    <3>1. OnePlace(c) /\ execution'[c] = IF c = m.id THEN "running" ELSE execution[c]
      BY <1>3, <2>2, ServeOne DEF CallInv
    <3>2. c = m.id => Sent(c)
      BY <2>1, <2>2 DEF Sent, InFlight
    <3> QED BY <3>1, <3>2 DEF OnePlace
  <2> QED BY <1>1, <2>3, <2>4, Executes
<1> QED BY <1>2, <1>3 DEF ReceiveRequest

\* Every step maps to a step or a stutter.
LEMMA StepMaps == Inv /\ [Next]_vars => [RC!RcNext]_RcVars
<1> SUFFICES ASSUME TypeOK, CallInv, [Next]_vars PROVE [RC!RcNext]_RcVars
  BY DEF Inv
<1>1. ASSUME NEW c \in Calls, Call(c)
      PROVE  [RC!RcNext]_RcVars
  BY <1>1, Asks
<1>2. ASSUME NEW c \in Calls, CancelToken(c)
      PROVE  [RC!RcNext]_RcVars
  <2>1. UNCHANGED execution
    BY <1>2 DEF CancelToken, serverVars
  <2>2. CASE Cancelled({c})
    BY <2>1, <2>2, GivesUp
  <2>3. CASE UNCHANGED promise
    BY <2>1, <2>3 DEF RcVars
  <2> QED BY <1>2, <2>2, <2>3 DEF CancelToken
<1>3. CASE DisposeClient
  <2> DEFINE C == tracked \cap Calls
  <2>1. Cancelled(C) /\ UNCHANGED execution
    BY <1>3 DEF DisposeClient, Cancelled, serverVars
  <2> QED BY <2>1, GivesUp
<1>4. ASSUME NEW c \in Calls, NEW a \in Results, Finish(c, a)
      PROVE  [RC!RcNext]_RcVars
  <2>1. RC!Finish(c)
    BY <1>4 DEF Finish, clientVars, RC!Finish, RC!Answers, Answers, Results
  <2> QED BY <2>1 DEF RC!RcNext
<1>5. CASE UNCHANGED <<promise, execution>>
  BY <1>5 DEF RcVars
<1>6. ASSUME NEW e \in Events, AddListener(e) \/ RemoveListener(e) \/ Fire(e)
      PROVE  UNCHANGED <<promise, execution>>
  BY <1>6 DEF AddListener, RemoveListener, Fire, clientVars, serverVars
<1>7. ASSUME NEW c \in Calls, Finally(c)
      PROVE  UNCHANGED <<promise, execution>>
  BY <1>7 DEF Finally, serverVars
<1>8. ASSUME NEW r \in Requests, Woken(r)
      PROVE  UNCHANGED <<promise, execution>>
  BY <1>8 DEF Woken, serverVars
<1>9. ASSUME NEW h \in Channels, RegisterChannel(h)
      PROVE  UNCHANGED <<promise, execution>>
  BY <1>9 DEF RegisterChannel, clientVars
<1>10. ASSUME NEW h \in Channels, NEW i \in DOMAIN pending[h], UnknownChannel(h, i)
       PROVE  UNCHANGED <<promise, execution>>
  BY <1>10 DEF UnknownChannel, clientVars
<1>11. DisposeServer \/ (\E c \in Calls : StrandedTimeout(c)) => UNCHANGED <<promise, execution>>
  BY DEF DisposeServer, StrandedTimeout, clientVars
<1>12. UNCHANGED vars => UNCHANGED <<promise, execution>>
  BY DEF vars, clientVars, serverVars
<1> QED BY <1>1, <1>2, <1>3, <1>4, <1>5, <1>6, <1>7, <1>8, <1>9, <1>10, <1>11, <1>12,
           CallbackMaps, AnswerMaps, RequestMaps, FlushMaps
        DEF Next

\* A call is executed at most once, its promise is settled at most once and an
\* answer is the answer of that execution: the channels implement RemoteCalls for
\* any calls and channels, whatever is cancelled, disposed of, registered late or
\* answered twice.
THEOREM Refinement == Spec => ImplementsCalls
<1>1. Init => RC!RcInit
  BY DEF Init, RC!RcInit
<1>2. Inv /\ [Next]_vars => [RC!RcNext]_<<promise, execution>>
  BY StepMaps DEF RcVars
<1>3. Spec => RC!RcInit /\ [][RC!RcNext]_<<promise, execution>>
  BY <1>1, <1>2, Invariant, PTL DEF Spec
<1> QED BY <1>3 DEF ImplementsCalls, RC!RcSafety, RC!rcVars
-----------------------------------------------------------------------------
(* Handlers: an answer is still to come.                                     *)

\* c was collected and its timer still runs.
Armed(c) ==
    \E i \in DOMAIN pending[ChannelOf[c]] :
        pending[ChannelOf[c]][i] = [id |-> c, timer |-> "armed"]

\* The client sends something or nothing.
LEMMA ClientSends ==
  ASSUME TypeOK,
         \/ \E d \in Calls : Call(d) \/ CancelToken(d) \/ Finally(d)
         \/ \E e \in Events : AddListener(e) \/ RemoveListener(e)
         \/ \E r \in Requests : Woken(r) \/ InitializedCallback(r)
         \/ DisposeClient
  PROVE  /\ \E s \in Seq(ServerMessages) : toServer' = toServer \o s
         /\ UNCHANGED <<toClient, execution, pending, stranded>>
<1>0. UNCHANGED <<toClient, execution, pending, stranded>>
  BY DEF Call, CancelToken, Finally, AddListener, RemoveListener, Woken, InitializedCallback,
         DisposeClient, serverVars
<1>1. toServer \in Seq(ServerMessages)
  BY DEF TypeOK
<1>2. CASE UNCHANGED toServer
  <2>1. <<>> \in Seq(ServerMessages) /\ toServer' = toServer \o <<>>
    BY <1>1, <1>2
  <2> QED BY <1>0, <2>1
<1>3. ASSUME NEW m \in ServerMessages, toServer' = Append(toServer, m)
      PROVE  \E s \in Seq(ServerMessages) : toServer' = toServer \o s
  <2>1. <<m>> \in Seq(ServerMessages) /\ toServer' = toServer \o <<m>>
    BY <1>1, <1>3, AppendIsConcat
  <2> QED BY <2>1
<1>4. ASSUME NEW d \in Calls, NEW promises, DoCall(d, promises)
      PROVE  UNCHANGED toServer \/ \E s \in Seq(ServerMessages) : toServer' = toServer \o s
  <2>1. Request("Promise", d) \in ServerMessages
    BY DEF Request, ServerMessages
  <2>2. UNCHANGED toServer \/ toServer' = Append(toServer, Request("Promise", d))
    BY <1>4 DEF DoCall
  <2> QED BY <1>3, <2>1, <2>2
<1>5. ASSUME NEW e \in Events, DoListen(e)
      PROVE  \E s \in Seq(ServerMessages) : toServer' = toServer \o s
  <2>1. Request("EventListen", e) \in ServerMessages
    BY DEF Request, ServerMessages
  <2> QED BY <1>3, <1>5, <2>1 DEF DoListen
<1>6. ASSUME NEW R \in SUBSET Requests, IsFiniteSet(R), TakeBack(R)
      PROVE  \E s \in Seq(ServerMessages) : toServer' = toServer \o s
  BY <1>6, Messages
<1>7. ASSUME NEW d \in Calls, Call(d) \/ CancelToken(d) \/ Finally(d)
      PROVE  UNCHANGED toServer \/ \E s \in Seq(ServerMessages) : toServer' = toServer \o s
  <2>1. IsFiniteSet({d}) /\ {d} \in SUBSET Requests
    BY FS_Singleton DEF Requests
  <2>2. Call(d) => UNCHANGED toServer \/ \E promises : DoCall(d, promises)
    BY DEF Call
  <2>3. CancelToken(d) => UNCHANGED toServer \/ TakeBack({d})
    BY DEF CancelToken
  <2>4. Finally(d) => UNCHANGED toServer
    BY DEF Finally
  <2> QED BY <1>4, <1>6, <1>7, <2>1, <2>2, <2>3, <2>4
<1>8. ASSUME NEW e \in Events, AddListener(e) \/ RemoveListener(e)
      PROVE  UNCHANGED toServer \/ \E s \in Seq(ServerMessages) : toServer' = toServer \o s
  <2>1. IsFiniteSet({e}) /\ {e} \in SUBSET Requests
    BY FS_Singleton DEF Requests
  <2>2. AddListener(e) => UNCHANGED toServer \/ DoListen(e)
    BY DEF AddListener
  <2>3. RemoveListener(e) => TakeBack({e})
    BY DEF RemoveListener
  <2> QED BY <1>5, <1>6, <1>8, <2>1, <2>2, <2>3
<1>9. ASSUME NEW r \in Requests, Woken(r) \/ InitializedCallback(r)
      PROVE  UNCHANGED toServer \/ \E s \in Seq(ServerMessages) : toServer' = toServer \o s
  <2>1. InitializedCallback(r) => \/ r \in Calls /\ DoCall(r, promise)
                                  \/ r \in Events /\ DoListen(r)
    BY DEF InitializedCallback
  <2>2. Woken(r) => UNCHANGED toServer
    BY DEF Woken
  <2> QED BY <1>4, <1>5, <1>9, <2>1, <2>2
<1>10. ASSUME DisposeClient
       PROVE  \E s \in Seq(ServerMessages) : toServer' = toServer \o s
  <2>1. TakeBack(tracked) /\ IsFiniteSet(tracked) /\ tracked \in SUBSET Requests
    BY <1>10 DEF DisposeClient, TypeOK
  <2> QED BY <1>6, <2>1
<1> QED BY <1>0, <1>2, <1>7, <1>8, <1>9, <1>10

\* A new handler comes with a request on its way.
LEMMA NewHandler ==
  ASSUME TypeOK, NEW c \in Calls, c \notin handlers, c \in handlers', [Next]_vars
  PROVE  Sent(c)'
<1>1. ASSUME NEW d \in Calls, NEW promises, DoCall(d, promises)
      PROVE  Sent(c)'
  <2> DEFINE m == Request("Promise", d)
  <2>1. m \in ServerMessages /\ m.type = "Promise" /\ m.id = d
    BY DEF Request, ServerMessages
  <2>2. c = d /\ toServer' = Append(toServer, m) /\ toServer \in Seq(ServerMessages)
    BY <1>1 DEF DoCall, TypeOK
  <2> HIDE DEF m
  <2>3. InFlight(Append(toServer, m), "Promise", c)
    BY <2>1, <2>2, FlightAppend
  <2> QED BY <2>2, <2>3 DEF Sent
<1>2. ASSUME NEW d \in Calls, Call(d) \/ CancelToken(d) \/ Finally(d)
      PROVE  Sent(c)'
  <2>1. \E promises : DoCall(d, promises)
    BY <1>2 DEF Call, CancelToken, Finally
  <2> QED BY <1>1, <2>1
<1>3. ASSUME NEW r \in Requests, Woken(r) \/ InitializedCallback(r)
      PROVE  Sent(c)'
  <2>1. r \in Calls /\ DoCall(r, promise)
    BY <1>3 DEF Woken, InitializedCallback
  <2> QED BY <1>1, <2>1
<1>4. ASSUME NEW e \in Events, AddListener(e) \/ RemoveListener(e) \/ Fire(e)
      PROVE  handlers' \subseteq handlers \cup {e}
  BY <1>4 DEF AddListener, RemoveListener, Fire, clientVars
<1>5. DisposeClient \/ ReceiveResponse => handlers' \subseteq handlers
  BY DEF DisposeClient, ReceiveResponse, RemoveHandler
<1>6. ReceiveRequest \/ DisposeServer \/ (\E d \in Calls : StrandedTimeout(d)) => handlers' = handlers
  BY DEF ReceiveRequest, DisposeServer, StrandedTimeout, clientVars
<1>7. ASSUME NEW h \in Channels, \/ RegisterChannel(h) \/ FlushPendingRequests(h)
                                 \/ \E i \in DOMAIN pending[h] : UnknownChannel(h, i)
      PROVE  handlers' = handlers
  BY <1>7 DEF RegisterChannel, FlushPendingRequests, UnknownChannel, clientVars
<1>8. ASSUME NEW d \in Calls, NEW a \in Results, Finish(d, a)
      PROVE  handlers' = handlers
  BY <1>8 DEF Finish, clientVars
<1>9. UNCHANGED vars => handlers' = handlers
  BY DEF vars, clientVars
<1>10. c \notin Events
  BY IdsAssumption
<1> QED BY <1>2, <1>3, <1>4, <1>5, <1>6, <1>7, <1>8, <1>9, <1>10 DEF Next

\* An answer on its way arrives, unless it removes the handler.
LEMMA AnswerComes ==
  ASSUME TypeOK, NEW c \in Calls, InFlight(toClient, "Answer", c), c \in handlers, c \in handlers',
         ReceiveResponse
  PROVE  InFlight(toClient', "Answer", c)
<1> DEFINE m == Head(toClient)
<1>1. toClient \in Seq(ClientMessages) /\ toClient # <<>> /\ toClient' = Tail(toClient)
  BY DEF ReceiveResponse, TypeOK
<1>2. ~(m.type = "Answer" /\ m.id = c)
  <2> SUFFICES ASSUME m.type = "Answer", m.id = c PROVE FALSE
    OBVIOUS
  <2>1. handlers' = handlers \ {c}
    BY DEF ReceiveResponse, RemoveHandler
  <2> QED BY <2>1
<1> QED BY <1>1, <1>2, FlightTail

\* While the server lives an announced answer stays announced.
LEMMA StaysAnnounced ==
  ASSUME TypeOK, NEW c \in Calls, WillBeAnswered(c), c \in handlers, c \in handlers', [Next]_vars
  PROVE  WillBeAnswered(c)' \/ Unanswered(c)'
<1>0. /\ toServer \in Seq(ServerMessages) /\ toClient \in Seq(ClientMessages)
      /\ ChannelOf[c] \in Channels
  BY IdsAssumption DEF TypeOK, Requests
<1> DEFINE Announced == \/ Sent(c)' \/ InFlight(toClient', "Answer", c) \/ Armed(c)'
                        \/ execution'[c] \in {"running", "unserializable"}
                        \/ c \in stranded'
<1>1. \/ Sent(c) \/ InFlight(toClient, "Answer", c) \/ Armed(c)
      \/ execution[c] = "running" \/ c \in stranded
  BY DEF WillBeAnswered, Sent, Armed
<1>2. SUFFICES Announced
  BY DEF WillBeAnswered, Unanswered, Sent, Armed
<1>3. UNCHANGED pending => (Armed(c)' <=> Armed(c))
  BY DEF Armed
<1>4. UNCHANGED toServer => (Sent(c)' <=> Sent(c))
  BY SameServerStream
<1>5. ASSUME NEW s \in Seq(ClientMessages), toClient' = toClient \o s
      PROVE  /\ InFlight(toClient, "Answer", c) => InFlight(toClient', "Answer", c)
             /\ InFlight(s, "Answer", c) => InFlight(toClient', "Answer", c)
  BY <1>0, <1>5, FlightMore
<1>6. CASE \/ \E d \in Calls : Call(d) \/ CancelToken(d) \/ Finally(d)
           \/ \E e \in Events : AddListener(e) \/ RemoveListener(e)
           \/ \E r \in Requests : Woken(r) \/ InitializedCallback(r)
           \/ DisposeClient
  <2>1. PICK s \in Seq(ServerMessages) : toServer' = toServer \o s
    BY <1>6, ClientSends
  <2>2. UNCHANGED <<toClient, execution, pending, stranded>>
    BY <1>6, ClientSends
  <2>3. Sent(c) => Sent(c)'
    BY <1>0, <2>1, FlightMore DEF Sent
  <2> QED BY <1>1, <1>3, <2>2, <2>3
<1>7. CASE ReceiveResponse
  <2>1. UNCHANGED <<toServer, execution, pending, stranded>>
    BY <1>7 DEF ReceiveResponse, serverVars
  <2> QED BY <1>1, <1>3, <1>4, <1>7, <2>1, AnswerComes
<1>8. CASE ReceiveRequest
  <2> DEFINE m == Head(toServer)
  <2>1. m \in ServerMessages /\ toServer # <<>> /\ toServer' = Tail(toServer)
        /\ UNCHANGED <<toClient, stranded>>
    BY <1>0, <1>8 DEF ReceiveRequest
  <2>2. m.id \in Requests /\ (m.type = "Promise" => m.type \notin {"PromiseCancel", "EventDispose"})
    BY <2>1, RequestsOf
  <2>3. Sent(c) => Sent(c)' \/ (m.type = "Promise" /\ m.id = c)
    BY <1>0, <2>1, FlightTail DEF Sent
  <2>4. CASE m.type \in {"PromiseCancel", "EventDispose"} /\ UNCHANGED <<pending, execution>>
    BY <1>1, <1>3, <2>1, <2>2, <2>3, <2>4
  <2>5. CASE Serve(<<m.id>>) /\ UNCHANGED pending
    <3>1. execution'[c] = IF c = m.id THEN "running" ELSE execution[c]
      BY <2>2, <2>5, ServeOne
    <3> QED BY <1>1, <1>3, <2>1, <2>3, <2>5, <3>1
  <2>6. CASE Collect(m.id) /\ UNCHANGED execution
    <3> DEFINE x == [id |-> m.id, timer |-> "armed"]
               g == ChannelOf[m.id]
    <3>1. g \in Channels /\ pending[g] \in Seq(PendingRequests) /\ x \in PendingRequests
      BY <2>2, IdsAssumption DEF TypeOK, PendingRequests
    <3>2. pending' = [pending EXCEPT ![g] = Append(pending[g], x)]
      BY <2>6 DEF Collect
    <3> HIDE DEF x
    <3>3. /\ \A i \in DOMAIN pending[g] :
                i \in DOMAIN Append(pending[g], x) /\ Append(pending[g], x)[i] = pending[g][i]
          /\ Len(pending[g]) + 1 \in DOMAIN Append(pending[g], x)
          /\ Append(pending[g], x)[Len(pending[g]) + 1] = x
      BY <3>1
    <3>4. \A h \in Channels :
             pending'[h] = IF h = g THEN Append(pending[g], x) ELSE pending[h]
      BY <3>1, <3>2 DEF TypeOK
    <3>5. Armed(c) => Armed(c)'
      BY <1>0, <3>3, <3>4 DEF Armed
    <3>6. c = m.id => Armed(c)'
      BY <1>0, <3>3, <3>4 DEF Armed, x
    <3> QED BY <1>1, <2>1, <2>3, <2>6, <3>5, <3>6
  <2>7. CASE m.type = "EventListen" /\ UNCHANGED <<pending, execution>>
    BY <1>1, <1>3, <2>1, <2>3, <2>7
  <2> QED BY <1>8, <2>4, <2>5, <2>6, <2>7 DEF ReceiveRequest
<1>9. ASSUME NEW h \in Channels, FlushPendingRequests(h)
      PROVE  Announced
  <2>1. /\ \A i \in DOMAIN pending[h] :
              pending[h][i] = [id |-> c, timer |-> "armed"]
              => execution'[c] = "running" \/ c \in stranded'
        /\ execution[c] = "running" => execution'[c] = "running"
    BY <1>9, FlushPlaces
  <2>2. /\ UNCHANGED <<toServer, toClient>> /\ stranded \subseteq stranded'
        /\ ChannelOf[c] # h => pending'[ChannelOf[c]] = pending[ChannelOf[c]]
    BY <1>0, <1>9 DEF FlushPendingRequests, clientVars, TypeOK
  <2>3. ChannelOf[c] = h /\ Armed(c) => execution'[c] = "running" \/ c \in stranded'
    BY <2>1 DEF Armed
  <2>4. ChannelOf[c] # h => (Armed(c)' <=> Armed(c))
    BY <2>2 DEF Armed
  <2> QED BY <1>1, <1>4, <2>1, <2>2, <2>3, <2>4
<1>10. ASSUME NEW h \in Channels, NEW i \in DOMAIN pending[h], UnknownChannel(h, i)
       PROVE  Announced
  <2> DEFINE r == pending[h][i].id
             s == UnknownAnswer(r)
  <2>1. UNCHANGED <<toServer, execution, stranded>> /\ toClient' = toClient \o s
    BY <1>10 DEF UnknownChannel, clientVars
  <2>2. s \in Seq(ClientMessages) /\ (r = c => InFlight(s, "Answer", c))
    BY UnknownMessages
  <2>3. InFlight(toClient, "Answer", c) \/ r = c => InFlight(toClient', "Answer", c)
    <3> HIDE DEF s, r
    <3> QED BY <1>5, <2>1, <2>2
  <2>4. Armed(c) => Armed(c)' \/ r = c
    <3> SUFFICES ASSUME NEW j \in DOMAIN pending[ChannelOf[c]],
                        pending[ChannelOf[c]][j] = [id |-> c, timer |-> "armed"],
                        r # c
                 PROVE  Armed(c)'
      BY DEF Armed
    <3>1. <<ChannelOf[c], j>> # <<h, i>>
      OBVIOUS
    <3> DEFINE g == ChannelOf[c]
    <3>2. g \in Channels /\ j \in DOMAIN pending[g] /\ <<g, j>> # <<h, i>>
      BY <1>0, <3>1
    <3> HIDE DEF g
    <3>3. j \in DOMAIN pending'[g] /\ pending'[g][j] = pending[g][j]
      BY <1>10, <3>2, UnknownPlaces
    <3> QED BY <3>3 DEF Armed, g
  <2> QED BY <1>1, <1>4, <2>1, <2>3, <2>4
<1>11. ASSUME NEW d \in Calls, NEW a \in Results, Finish(d, a)
       PROVE  Announced
  <2> DEFINE s == AnswerOf(d, a)
  <2>1. s \in Seq(ClientMessages) /\ (a \in Answers => InFlight(s, "Answer", d))
    BY AnswerMessages
  <2>2. /\ UNCHANGED <<toServer, pending, stranded>> /\ toClient' = toClient \o s
        /\ execution'[c] = IF c = d THEN a ELSE execution[c]
    BY <1>11 DEF Finish, clientVars, TypeOK
  <2> HIDE DEF s
  <2>3. /\ InFlight(toClient, "Answer", c) => InFlight(toClient', "Answer", c)
        /\ c = d /\ a \in Answers => InFlight(toClient', "Answer", c)
    BY <1>5, <2>1, <2>2
  <2>4. a \notin Answers => a = "unserializable"
    BY DEF Results
  <2> QED BY <1>1, <1>3, <1>4, <2>2, <2>3, <2>4
<1>12. ASSUME NEW e \in Events, Fire(e)
       PROVE  Announced
  <2> DEFINE s == [i \in 1..subs[e] |-> Response("EventFire", e, fires[e] + 1)]
  <2>1. s \in Seq(ClientMessages) /\ (toClient' = toClient \o s \/ UNCHANGED toClient)
    BY <1>12, FireMessages
  <2>2. UNCHANGED <<toServer, execution, pending, stranded>>
    BY <1>12 DEF Fire, clientVars
  <2> HIDE DEF s
  <2>3. InFlight(toClient, "Answer", c) => InFlight(toClient', "Answer", c)
    BY <1>5, <2>1
  <2> QED BY <1>1, <1>3, <1>4, <2>2, <2>3
<1>13. CASE UNCHANGED <<toServer, toClient, execution, pending, stranded>>
  BY <1>1, <1>3, <1>4, <1>13
<1>14. ASSUME NEW h \in Channels, RegisterChannel(h)
       PROVE  UNCHANGED <<toServer, toClient, execution, pending, stranded>>
  BY <1>14 DEF RegisterChannel
<1>15. DisposeServer => UNCHANGED <<toServer, toClient, execution, pending, stranded>>
  BY DEF DisposeServer
<1>16. UNCHANGED vars => UNCHANGED <<toServer, toClient, execution, pending, stranded>>
  BY DEF vars, serverVars
<1>17. ASSUME NEW d \in Calls, StrandedTimeout(d)
       PROVE  Announced
  <2> DEFINE s == UnknownAnswer(d)
  <2>1. s \in Seq(ClientMessages) /\ InFlight(s, "Answer", d)
    BY UnknownMessages
  <2>2. /\ UNCHANGED <<toServer, pending, execution>> /\ toClient' = toClient \o s
        /\ c \in stranded => c \in stranded' \/ c = d
    BY <1>17 DEF StrandedTimeout
  <2> HIDE DEF s
  <2>3. InFlight(toClient, "Answer", c) \/ c = d => InFlight(toClient', "Answer", c)
    BY <1>5, <2>1, <2>2
  <2> QED BY <1>1, <1>3, <1>4, <2>2, <2>3
<1> QED BY <1>6, <1>7, <1>8, <1>9, <1>10, <1>11, <1>12, <1>13, <1>14, <1>15, <1>16, <1>17 DEF Next

\* A call that was executed is not executed again.
LEMMA StaysUnanswered ==
  ASSUME TypeOK, NEW c \in Calls, OnePlace(c), Unanswered(c), [Next]_vars
  PROVE  Unanswered(c)'
<1>1. SUFFICES execution'[c] = execution[c]
  BY DEF Unanswered
<1>2. execution[c] = "unserializable" /\ ~IsCollected(c)
  BY DEF Unanswered, OnePlace
<1>3. ASSUME NEW h \in Channels, FlushPendingRequests(h)
      PROVE  execution'[c] = execution[c]
  BY <1>2, <1>3, FlushPlaces
<1>4. CASE ReceiveRequest
  BY <1>2, <1>4, RequestPlaces
<1>5. ASSUME NEW d \in Calls, NEW a \in Results, Finish(d, a)
      PROVE  execution'[c] = execution[c]
  BY <1>2, <1>5 DEF Finish, TypeOK
<1>6. CASE \/ \E d \in Calls : Call(d) \/ CancelToken(d) \/ Finally(d)
           \/ \E e \in Events : AddListener(e) \/ RemoveListener(e)
           \/ \E r \in Requests : Woken(r) \/ InitializedCallback(r)
           \/ DisposeClient
  BY <1>6, ClientSends
<1>7. ASSUME NEW h, NEW i, UnknownChannel(h, i) \/ RegisterChannel(h)
      PROVE  UNCHANGED execution
  BY <1>7 DEF UnknownChannel, RegisterChannel
<1>8. ASSUME NEW d, StrandedTimeout(d) \/ Fire(d)
      PROVE  UNCHANGED execution
  BY <1>8 DEF StrandedTimeout, Fire
<1>9. ReceiveResponse \/ DisposeServer => UNCHANGED execution
  BY DEF ReceiveResponse, DisposeServer, serverVars
<1>10. UNCHANGED vars => UNCHANGED execution
  BY DEF vars, serverVars
<1> QED BY <1>3, <1>4, <1>5, <1>6, <1>7, <1>8, <1>9, <1>10 DEF Next

\* Cancelling leaves the handler of a call in place, and still no handler is
\* left behind for good: while the server lives, the message that removes it is
\* in flight, its execution runs or its time-out is armed.  Only the handler of a
\* call whose result could not be serialized stays.
THEOREM NoLeak == Spec => []NoHandlerLeak
<1>1. Init => NoHandlerLeak
  BY DEF Init, NoHandlerLeak
<1>2. TypeOK /\ CallInv /\ NoHandlerLeak /\ [Next]_vars => NoHandlerLeak'
  <2> SUFFICES ASSUME TypeOK, CallInv, NoHandlerLeak, [Next]_vars, ~closed', NEW c \in Calls,
                      c \in handlers'
               PROVE  WillBeAnswered(c)' \/ Unanswered(c)'
    BY DEF NoHandlerLeak
  <2>1. ~closed
    BY DEF Next, Call, CancelToken, Finally, AddListener, RemoveListener, Fire, Woken,
           InitializedCallback, DisposeClient, ReceiveResponse, RegisterChannel,
           FlushPendingRequests, UnknownChannel, StrandedTimeout, Finish, ReceiveRequest,
           DisposeServer, vars, serverVars
  <2>2. CASE c \in handlers
    BY <2>1, <2>2, StaysAnnounced, StaysUnanswered DEF NoHandlerLeak, CallInv
  <2>3. CASE c \notin handlers
    BY <2>3, NewHandler DEF Sent, WillBeAnswered
  <2> QED BY <2>2, <2>3
<1>3. Inv => TypeOK /\ CallInv
  BY DEF Inv
<1> QED BY <1>1, <1>2, <1>3, Invariant, PTL DEF Spec
=============================================================================
