--------------------------- MODULE IpcEventsProofs ---------------------------
(***************************************************************************)
(* The events of IpcChannels: subscriptions and firings, for any calls,    *)
(* events, channels and bounds.                                            *)
(***************************************************************************)
EXTENDS IpcChannelsProofs

\* Where the messages about e are.
About(q, e) == {i \in DOMAIN q : q[i].id = e}

Switch == {"on", "off"}

\* What a request does to the subscription.
After(m) == IF m.type = "EventListen" THEN "on" ELSE "off"

\* The requests about e switch its subscription on and off in turn, starting
\* from the value `from' and ending with `to'.
Alternates(q, e, from, to) ==
    LET E == About(q, e)
    IN  /\ E = {} => from = to
        /\ \A i \in E : (\A j \in E : i <= j) => After(q[i]) # from
        /\ \A i \in E : (\A j \in E : j <= i) => After(q[i]) = to
        /\ \A i, j \in E :
              i < j /\ (\A k \in E : k <= i \/ j <= k) => After(q[i]) # After(q[j])

\* The server has a subscription for e, will have one or has refused one.
Has(e) == IF subs[e] > 0 \/ IsCollected(e) \/ e \in refused THEN "on" ELSE "off"

\* The client has asked for one.
Wants(e) == IF e \in listening /\ e \notin waiting \cup ready THEN "on" ELSE "off"

\* What the client knows of e.
ClientSide(e) ==
    /\ e \notin stray
    /\ e \in waiting \cup ready => e \in listening /\ e \notin tracked
    /\ e \in waiting => e \notin ready
    /\ e \in tracked => e \in listening

\* Its request is collected once.
CollectedOnce(e) ==
    \A i, j \in DOMAIN pending[ChannelOf[e]] :
        pending[ChannelOf[e]][i].id = e /\ pending[ChannelOf[e]][j].id = e => i = j

\* What the server knows of it: one subscription, one request that is collected or
\* nothing because it was refused.
ServerSide(e) ==
    /\ subs[e] = IF e \in active THEN 1 ELSE 0
    /\ e \in active => ~IsCollected(e) /\ e \notin refused
    /\ e \in refused => ~IsCollected(e)
    /\ CollectedOnce(e)

\* And what is on its way between them.
InStep(e) ==
    \E from \in Switch :
        (~closed => from = Has(e)) /\ Alternates(toServer, e, from, Wants(e))

SubscriptionInv ==
    \A e \in Events \ missed : ClientSide(e) /\ ServerSide(e) /\ InStep(e)
-----------------------------------------------------------------------------
(* Requests that alternate.                                                  *)

\* One more request about e.
LEMMA AlternatesMore ==
  ASSUME NEW S, NEW q \in Seq(S), NEW s \in Seq(S), NEW e, NEW from \in Switch, NEW to \in Switch,
         NEW k \in DOMAIN s, s[k].id = e, \A j \in DOMAIN s : s[j].id = e => j = k,
         After(s[k]) # to, Alternates(q, e, from, to)
  PROVE  Alternates(q \o s, e, from, After(s[k]))
<1> DEFINE p == q \o s
           n == Len(q) + k
           E == About(q, e)
           F == About(p, e)
           t == After(s[k])
<1>1. /\ \A i \in DOMAIN q : i \in Nat /\ i <= Len(q) /\ i \in DOMAIN p /\ p[i] = q[i]
      /\ \A i \in DOMAIN s : i \in Nat /\ i > 0 /\ Len(q) + i \in DOMAIN p
                             /\ p[Len(q) + i] = s[i]
      /\ \A i \in DOMAIN p : i \in DOMAIN q \/ \E j \in DOMAIN s : i = Len(q) + j
      /\ Len(q) \in Nat
  <2>1. Joined(q, s, p)
    BY More
  <2> HIDE DEF p
  <2> QED BY <2>1 DEF Joined
<1> HIDE DEF p
<1>2. n \in Nat /\ n \in DOMAIN p /\ p[n] = s[k] /\ n \in F
  BY <1>1 DEF About
<1>3. \A i \in E : i \in Nat /\ i < n /\ i \in F /\ p[i] = q[i]
  BY <1>1 DEF About
<1>4. ASSUME NEW i \in F PROVE i \in E \/ i = n
  <2>1. CASE i \in DOMAIN q
    BY <1>1, <2>1 DEF About
  <2>2. CASE i \notin DOMAIN q
    <3>1. PICK j \in DOMAIN s : i = Len(q) + j
      BY <1>1, <2>2 DEF About
    <3>2. j = k
      BY <1>1, <3>1 DEF About
    <3> QED BY <3>1, <3>2
  <2> QED BY <2>1, <2>2
<1>5. F = E \cup {n} /\ n \notin E
  BY <1>2, <1>3, <1>4
<1>6. /\ E = {} => from = to
      /\ \A i \in E : (\A j \in E : i <= j) => After(q[i]) # from
      /\ \A i \in E : (\A j \in E : j <= i) => After(q[i]) = to
      /\ \A i, j \in E :
            i < j /\ (\A l \in E : l <= i \/ j <= l) => After(q[i]) # After(q[j])
  BY DEF Alternates
<1>7. t \in Switch /\ t # to /\ After(p[n]) = t /\ \A i \in E : After(p[i]) = After(q[i])
  BY <1>2, <1>3 DEF After, Switch
<1> HIDE DEF E, F, n, t
<1>8. ASSUME NEW i \in F, \A j \in F : i <= j
      PROVE  After(p[i]) # from
  <2>1. CASE i = n
    <3>1. E = {}
      BY <1>2, <1>3, <1>5, <1>8, <2>1
    <3> QED BY <1>6, <1>7, <2>1, <3>1
  <2>2. CASE i \in E
    BY <1>5, <1>6, <1>7, <1>8, <2>2
  <2> QED BY <1>5, <2>1, <2>2
<1>9. ASSUME NEW i \in F, \A j \in F : j <= i
      PROVE  After(p[i]) = t
  <2>1. i = n
    BY <1>2, <1>3, <1>5, <1>9
  <2> QED BY <1>7, <2>1
<1>10. ASSUME NEW i \in F, NEW j \in F, i < j, \A l \in F : l <= i \/ j <= l
       PROVE  After(p[i]) # After(p[j])
  <2>1. CASE j = n
    <3>1. i \in E
      BY <1>2, <1>5, <1>10, <2>1
    <3>2. \A l \in E : l <= i
      BY <1>2, <1>3, <1>5, <1>10, <2>1
    <3> QED BY <1>6, <1>7, <2>1, <3>1, <3>2
  <2>2. CASE j \in E
    <3>1. i \in E
      BY <1>2, <1>3, <1>5, <1>10, <2>2
    <3> QED BY <1>5, <1>6, <1>7, <1>10, <2>2, <3>1
  <2> QED BY <1>5, <2>1, <2>2
<1>11. F # {}
  BY <1>2
<1> QED BY <1>8, <1>9, <1>10, <1>11 DEF Alternates, F, p, t

\* Requests about others.
LEMMA AlternatesOther ==
  ASSUME NEW S, NEW q \in Seq(S), NEW s \in Seq(S), NEW e, NEW from, NEW to,
         \A j \in DOMAIN s : s[j].id # e, Alternates(q, e, from, to)
  PROVE  Alternates(q \o s, e, from, to)
<1> DEFINE p == q \o s
<1>1. /\ \A i \in DOMAIN q : i \in Nat /\ i <= Len(q) /\ i \in DOMAIN p /\ p[i] = q[i]
      /\ \A i \in DOMAIN s : i \in Nat /\ i > 0 /\ Len(q) + i \in DOMAIN p
                             /\ p[Len(q) + i] = s[i]
      /\ \A i \in DOMAIN p : i \in DOMAIN q \/ \E j \in DOMAIN s : i = Len(q) + j
  <2>1. Joined(q, s, p)
    BY More
  <2> HIDE DEF p
  <2> QED BY <2>1 DEF Joined
<1> HIDE DEF p
<1>2. About(p, e) = About(q, e) /\ \A i \in About(q, e) : p[i] = q[i]
  BY <1>1 DEF About
<1> QED BY <1>2 DEF Alternates, p

\* A request about another one is taken.
LEMMA AlternatesTail ==
  ASSUME NEW S, NEW q \in Seq(S), q # <<>>, NEW e, NEW from, NEW to,
         Head(q).id # e, Alternates(q, e, from, to)
  PROVE  Alternates(Tail(q), e, from, to)
<1> DEFINE p == Tail(q)
           E == About(q, e)
           F == About(p, e)
<1>1. /\ Head(q) = q[1]
      /\ \A i \in DOMAIN p : i \in Nat /\ i + 1 # 1 /\ i + 1 \in DOMAIN q /\ p[i] = q[i + 1]
      /\ \A i \in DOMAIN q : i \in Nat /\ i >= 1 /\ (i # 1 => i - 1 \in DOMAIN p)
  BY HeadAndTail
<1> HIDE DEF p
<1>2. \A i \in F : i \in Nat /\ i + 1 \in E /\ p[i] = q[i + 1]
  BY <1>1 DEF About
<1>3. ASSUME NEW i \in E PROVE i \in Nat /\ i - 1 \in F
  <2>1. i \in Nat /\ i # 1 /\ i - 1 \in DOMAIN p
    BY <1>1 DEF About
  <2>2. i - 1 + 1 = i
    BY <2>1
  <2> QED BY <1>1, <2>1, <2>2 DEF About
<1>4. /\ E = {} => from = to
      /\ \A i \in E : (\A j \in E : i <= j) => After(q[i]) # from
      /\ \A i \in E : (\A j \in E : j <= i) => After(q[i]) = to
      /\ \A i, j \in E :
            i < j /\ (\A l \in E : l <= i \/ j <= l) => After(q[i]) # After(q[j])
  BY DEF Alternates
<1> HIDE DEF E, F
<1>5. F = {} => from = to
  BY <1>3, <1>4
<1>6. ASSUME NEW i \in F, \A j \in F : i <= j
      PROVE  After(p[i]) # from
  <2>1. \A j \in E : i + 1 <= j
    BY <1>2, <1>3, <1>6
  <2> QED BY <1>2, <1>4, <2>1
<1>7. ASSUME NEW i \in F, \A j \in F : j <= i
      PROVE  After(p[i]) = to
  <2>1. \A j \in E : j <= i + 1
    BY <1>2, <1>3, <1>7
  <2> QED BY <1>2, <1>4, <2>1
<1>8. ASSUME NEW i \in F, NEW j \in F, i < j, \A l \in F : l <= i \/ j <= l
      PROVE  After(p[i]) # After(p[j])
  <2>1. ASSUME NEW l \in E PROVE l <= i + 1 \/ j + 1 <= l
    <3>1. l \in Nat /\ i \in Nat /\ j \in Nat /\ (l - 1 <= i \/ j <= l - 1)
      BY <1>2, <1>3, <1>8
    <3> QED BY <3>1
  <2>2. i + 1 < j + 1
    BY <1>2, <1>8
  <2> QED BY <1>2, <1>4, <2>1, <2>2
<1> QED BY <1>5, <1>6, <1>7, <1>8 DEF Alternates, p, F

\* A request about e is taken: it switches.
LEMMA AlternatesTaken ==
  ASSUME NEW S, NEW q \in Seq(S), q # <<>>, NEW e, NEW from \in Switch, NEW to \in Switch,
         Head(q).id = e, Alternates(q, e, from, to)
  PROVE  /\ After(Head(q)) # from
         /\ Alternates(Tail(q), e, After(Head(q)), to)
<1> DEFINE p == Tail(q)
           E == About(q, e)
           F == About(p, e)
           t == After(Head(q))
<1>1. /\ 1 \in DOMAIN q /\ Head(q) = q[1]
      /\ \A i \in DOMAIN p : i \in Nat /\ i + 1 # 1 /\ i + 1 \in DOMAIN q /\ p[i] = q[i + 1]
      /\ \A i \in DOMAIN q : i \in Nat /\ i >= 1 /\ (i # 1 => i - 1 \in DOMAIN p)
  BY HeadAndTail
<1> HIDE DEF p
<1>2. \A i \in F : i \in Nat /\ i > 0 /\ i + 1 \in E /\ p[i] = q[i + 1]
  <2> SUFFICES ASSUME NEW i \in F PROVE i \in Nat /\ i > 0 /\ i + 1 \in E /\ p[i] = q[i + 1]
    OBVIOUS
  <2>1. i \in Nat /\ i + 1 # 1 /\ i + 1 \in DOMAIN q /\ p[i] = q[i + 1]
    BY <1>1 DEF About
  <2> QED BY <2>1 DEF About
<1>3. ASSUME NEW i \in E, i # 1 PROVE i - 1 \in F
  <2>1. i \in Nat /\ i - 1 \in DOMAIN p
    BY <1>1, <1>3 DEF About
  <2>2. i - 1 + 1 = i
    BY <2>1
  <2> QED BY <1>1, <2>1, <2>2 DEF About
<1>4. /\ \A i \in E : (\A j \in E : i <= j) => After(q[i]) # from
      /\ \A i \in E : (\A j \in E : j <= i) => After(q[i]) = to
      /\ \A i, j \in E :
            i < j /\ (\A l \in E : l <= i \/ j <= l) => After(q[i]) # After(q[j])
  BY DEF Alternates
<1>5. 1 \in E /\ \A i \in E : i \in Nat /\ 1 <= i
  BY <1>1 DEF About
<1>6. t = After(q[1]) /\ \A i : After(q[i]) \in Switch
  BY <1>1 DEF After, Switch
<1> HIDE DEF E, F, t
<1>7. t # from
  BY <1>4, <1>5, <1>6
<1>8. F = {} => t = to
  BY <1>3, <1>4, <1>5, <1>6
<1>9. ASSUME NEW i \in F, \A j \in F : i <= j
      PROVE  After(p[i]) # t
  <2>1. \A j \in E : j <= 1 \/ i + 1 <= j
    BY <1>2, <1>3, <1>5, <1>9
  <2>2. 1 < i + 1
    BY <1>2
  <2>3. After(q[1]) # After(q[i + 1])
    BY <1>2, <1>4, <1>5, <2>1, <2>2
  <2> QED BY <1>2, <1>6, <2>3
<1>10. ASSUME NEW i \in F, \A j \in F : j <= i
      PROVE  After(p[i]) = to
  <2>1. ASSUME NEW j \in E PROVE j <= i + 1
    <3>1. j \in Nat /\ i \in Nat /\ i > 0 /\ (j # 1 => j - 1 <= i)
      BY <1>2, <1>3, <1>5, <1>10
    <3> QED BY <3>1
  <2> QED BY <1>2, <1>4, <2>1
<1>11. ASSUME NEW i \in F, NEW j \in F, i < j, \A l \in F : l <= i \/ j <= l
      PROVE  After(p[i]) # After(p[j])
  <2>1. ASSUME NEW l \in E PROVE l <= i + 1 \/ j + 1 <= l
    <3>1. /\ l \in Nat /\ i \in Nat /\ j \in Nat /\ i > 0
          /\ l # 1 => l - 1 <= i \/ j <= l - 1
      BY <1>2, <1>3, <1>5, <1>11
    <3> QED BY <3>1
  <2>2. i + 1 < j + 1
    BY <1>2, <1>11
  <2> QED BY <1>2, <1>4, <2>1, <2>2
<1> QED BY <1>7, <1>8, <1>9, <1>10, <1>11 DEF Alternates, p, F, t
-----------------------------------------------------------------------------
(* Subscriptions: the steps of the client.                                   *)

\* Wants(e) and Has(e) are positions of the switch.
LEMMA Switches == ASSUME NEW e PROVE Has(e) \in Switch /\ Wants(e) \in Switch
BY DEF Has, Wants, Switch

\* Nothing about e is sent.
LEMMA SilentSend ==
  ASSUME TypeOK, NEW e, NEW m \in ServerMessages, m.id # e, toServer' = Append(toServer, m),
         NEW from, NEW to, Alternates(toServer, e, from, to)
  PROVE  Alternates(toServer', e, from, to)
<1>1. toServer \in Seq(ServerMessages)
  BY DEF TypeOK
<1>2. /\ toServer' = toServer \o <<m>> /\ <<m>> \in Seq(ServerMessages)
      /\ DOMAIN <<m>> = {1} /\ <<m>>[1] = m
  BY <1>1, AppendIsConcat
<1>3. \A j \in DOMAIN <<m>> : <<m>>[j].id # e
  BY <1>2
<1> QED BY <1>1, <1>2, <1>3, AlternatesOther

\* doRequest of a call.
LEMMA DoCallSilent ==
  ASSUME TypeOK, NEW e \in Events, NEW d \in Calls, NEW promises, DoCall(d, promises),
         NEW from, NEW to, Alternates(toServer, e, from, to)
  PROVE  Alternates(toServer', e, from, to)
<1> DEFINE m == Request("Promise", d)
<1>1. m \in ServerMessages /\ m.id # e
  BY IdsAssumption DEF Request, ServerMessages
<1>2. UNCHANGED toServer \/ toServer' = Append(toServer, m)
  BY DEF DoCall
<1> HIDE DEF m
<1> QED BY <1>1, <1>2, SilentSend

\* doRequest of an event.
LEMMA DoListenSwitches ==
  ASSUME TypeOK, NEW e \in Events, NEW d \in Events, DoListen(d),
         NEW from \in Switch, NEW to \in Switch, d = e => to = "off",
         Alternates(toServer, e, from, to)
  PROVE  Alternates(toServer', e, from, IF d = e THEN "on" ELSE to)
<1> DEFINE m == Request("EventListen", d)
<1>1. m \in ServerMessages /\ m.id = d /\ After(m) = "on"
  BY DEF Request, ServerMessages, After
<1>2. toServer \in Seq(ServerMessages) /\ toServer' = Append(toServer, m)
  BY DEF DoListen, TypeOK
<1> HIDE DEF m
<1>3. CASE d # e
  BY <1>1, <1>2, <1>3, SilentSend
<1>4. CASE d = e
  <2>1. /\ toServer' = toServer \o <<m>> /\ <<m>> \in Seq(ServerMessages)
        /\ DOMAIN <<m>> = {1} /\ <<m>>[1] = m
    BY <1>1, <1>2, AppendIsConcat
  <2>2. /\ 1 \in DOMAIN <<m>> /\ <<m>>[1].id = e
        /\ \A j \in DOMAIN <<m>> : <<m>>[j].id = e => j = 1
        /\ After(<<m>>[1]) # to
    BY <1>1, <1>4, <2>1
  <2>3. Alternates(toServer \o <<m>>, e, from, After(<<m>>[1]))
    BY <1>2, <2>1, <2>2, AlternatesMore
  <2> QED BY <1>1, <1>4, <2>1, <2>3
<1> QED BY <1>3, <1>4

\* Requests are taken back: the server is told of what it was asked for.
LEMMA TakeBackSwitches ==
  ASSUME TypeOK, NEW R \in SUBSET Requests, IsFiniteSet(R), TakeBack(R), NEW e \in Events,
         e \in R => e \in listening, NEW from \in Switch, Alternates(toServer, e, from, Wants(e))
  PROVE  Alternates(toServer', e, from, IF e \in R THEN "off" ELSE Wants(e))
<1>1. PICK s \in Seq(ServerMessages) :
         /\ toServer' = toServer \o s
         /\ \A i \in DOMAIN s :
               /\ s[i].id \in R \ (waiting \cup ready)
               /\ s[i].type = IF s[i].id \in Calls THEN "PromiseCancel" ELSE "EventDispose"
         /\ \A i, j \in DOMAIN s : s[i].id = s[j].id => i = j
         /\ \A r \in R \ (waiting \cup ready) : \E i \in DOMAIN s : s[i].id = r
  BY Messages
<1>2. toServer \in Seq(ServerMessages)
  BY DEF TypeOK
<1>3. CASE e \in R \ (waiting \cup ready)
  <2>1. PICK k \in DOMAIN s : s[k].id = e
    BY <1>1, <1>3
  <2>2. /\ \A j \in DOMAIN s : s[j].id = e => j = k
        /\ s[k].type = "EventDispose"
    BY <1>1, <2>1, IdsAssumption
  <2>3. After(s[k]) = "off" /\ Wants(e) = "on"
    BY <1>3, <2>2 DEF After, Wants
  <2>4. Wants(e) \in Switch /\ After(s[k]) # Wants(e)
    BY <2>3, Switches
  <2>5. Alternates(toServer \o s, e, from, After(s[k]))
    BY <1>2, <2>1, <2>2, <2>4, AlternatesMore
  <2> QED BY <1>1, <1>3, <2>3, <2>5
<1>4. CASE e \notin R \ (waiting \cup ready)
  <2>1. \A i \in DOMAIN s : s[i].id # e
    BY <1>1, <1>4
  <2>2. Alternates(toServer', e, from, Wants(e))
    BY <1>1, <1>2, <2>1, AlternatesOther
  <2>3. e \in R => Wants(e) = "off"
    BY <1>4 DEF Wants
  <2> QED BY <2>2, <2>3
<1> QED BY <1>3, <1>4

\* What is taken back is not queued any more, or its callback is missed.
LEMMA TakeBackQueues ==
  ASSUME NEW R, TakeBack(R), NEW e \in Events, e \notin missed'
  PROVE  /\ e \in waiting' <=> e \in waiting /\ e \notin R
         /\ e \in ready' <=> e \in ready
         /\ e \in stray' <=> e \in stray
         /\ e \in ready => e \notin R
BY DEF TakeBack

\* The client's steps.
ClientStep ==
    \/ \E d \in Calls : Call(d) \/ CancelToken(d) \/ Finally(d)
    \/ \E d \in Events : AddListener(d) \/ RemoveListener(d)
    \/ \E r \in Requests : Woken(r) \/ InitializedCallback(r)
    \/ DisposeClient

\* Each of them leaves the stream alternating, whatever the server has.
LEMMA ClientStepSwitches ==
  ASSUME TypeOK, NEW e \in Events, e \notin missed', ClientSide(e), ClientStep,
         NEW from \in Switch, Alternates(toServer, e, from, Wants(e))
  PROVE  ClientSide(e)' /\ Alternates(toServer', e, from, Wants(e)')
<1>0. e \notin Calls /\ Wants(e) \in Switch
  BY IdsAssumption, Switches
<1>1. ASSUME NEW d \in Calls, Call(d)
      PROVE  ClientSide(e)' /\ Alternates(toServer', e, from, Wants(e)')
  <2>1. /\ UNCHANGED <<ready, stray, listening>>
        /\ e \in waiting' <=> e \in waiting
        /\ e \in tracked' <=> e \in tracked
    BY <1>0, <1>1 DEF Call
  <2>2. UNCHANGED toServer \/ \E promises : DoCall(d, promises)
    BY <1>1 DEF Call
  <2>3. Alternates(toServer', e, from, Wants(e))
    BY <2>2, DoCallSilent
  <2>4. Wants(e)' = Wants(e)
    BY <2>1 DEF Wants
  <2> QED BY <2>1, <2>3, <2>4 DEF ClientSide
<1>2. ASSUME NEW d \in Calls, CancelToken(d)
      PROVE  ClientSide(e)' /\ Alternates(toServer', e, from, Wants(e)')
  <2>1. UNCHANGED <<listening, tracked>>
    BY <1>2 DEF CancelToken
  <2>2. CASE TakeBack({d})
    <3>1. IsFiniteSet({d}) /\ {d} \in SUBSET Requests /\ e \notin {d}
      BY <1>0, FS_Singleton DEF Requests
    <3>2. Alternates(toServer', e, from, Wants(e))
      BY <2>2, <3>1, TakeBackSwitches
    <3>3. /\ e \in waiting' <=> e \in waiting
          /\ e \in ready' <=> e \in ready
          /\ e \in stray' <=> e \in stray
      BY <2>2, <3>1, TakeBackQueues
    <3>4. Wants(e)' = Wants(e)
      BY <2>1, <3>3 DEF Wants
    <3> QED BY <2>1, <3>2, <3>3, <3>4 DEF ClientSide
  <2>3. CASE UNCHANGED <<waiting, ready, stray, toServer>>
    BY <2>1, <2>3 DEF ClientSide, Wants
  <2> QED BY <1>2, <2>2, <2>3 DEF CancelToken
<1>3. ASSUME NEW d \in Calls, Finally(d)
      PROVE  ClientSide(e)' /\ Alternates(toServer', e, from, Wants(e)')
  <2>1. UNCHANGED <<waiting, ready, stray, listening, toServer>> /\ tracked' \subseteq tracked
    BY <1>3 DEF Finally
  <2> QED BY <2>1 DEF ClientSide, Wants
<1>4. ASSUME NEW d \in Events, AddListener(d)
      PROVE  ClientSide(e)' /\ Alternates(toServer', e, from, Wants(e)')
  <2>1. /\ d \notin listening /\ listening' = listening \cup {d} /\ UNCHANGED <<ready, stray>>
    BY <1>4 DEF AddListener
  <2>2. e = d => Wants(e) = "off" /\ e \notin waiting /\ e \notin ready /\ e \notin tracked
    BY <2>1 DEF ClientSide, Wants
  <2>3. CASE DoListen(d) /\ UNCHANGED waiting
    <3>1. Alternates(toServer', e, from, IF d = e THEN "on" ELSE Wants(e))
      BY <1>0, <2>2, <2>3, DoListenSwitches
    <3>2. Wants(e)' = IF d = e THEN "on" ELSE Wants(e)
      BY <2>1, <2>2, <2>3 DEF Wants
    <3>3. tracked' = tracked \cup {d}
      BY <2>3 DEF DoListen
    <3> QED BY <2>1, <2>2, <2>3, <3>1, <3>2, <3>3 DEF ClientSide
  <2>4. CASE waiting' = waiting \cup {d} /\ UNCHANGED <<tracked, toServer>>
    <3>1. Wants(e)' = Wants(e)
      BY <2>1, <2>2, <2>4 DEF Wants
    <3> QED BY <2>1, <2>2, <2>4, <3>1 DEF ClientSide
  <2> QED BY <1>4, <2>3, <2>4 DEF AddListener
<1>5. ASSUME NEW d \in Events, RemoveListener(d)
      PROVE  ClientSide(e)' /\ Alternates(toServer', e, from, Wants(e)')
  <2>1. /\ TakeBack({d}) /\ d \in listening /\ listening' = listening \ {d}
        /\ tracked' = IF d \in waiting \cup ready THEN tracked ELSE tracked \ {d}
        /\ IsFiniteSet({d}) /\ {d} \in SUBSET Requests
    BY <1>5, FS_Singleton DEF RemoveListener, Requests
  <2>2. Alternates(toServer', e, from, IF e \in {d} THEN "off" ELSE Wants(e))
    BY <2>1, TakeBackSwitches
  <2>3. /\ e \in waiting' <=> e \in waiting /\ e \notin {d}
        /\ e \in ready' <=> e \in ready
        /\ e \in stray' <=> e \in stray
        /\ e \in ready => e \notin {d}
    BY <2>1, TakeBackQueues
  <2>4. Wants(e)' = IF e \in {d} THEN "off" ELSE Wants(e)
    BY <2>1, <2>3 DEF Wants
  <2> QED BY <2>1, <2>2, <2>3, <2>4 DEF ClientSide
<1>6. ASSUME NEW r \in Requests, Woken(r)
      PROVE  ClientSide(e)' /\ Alternates(toServer', e, from, Wants(e)')
  <2>1. /\ UNCHANGED <<stray, listening, tracked, toServer>> /\ r \in waiting
        /\ waiting' = waiting \ {r} /\ ready' = ready \cup {r}
    BY <1>6 DEF Woken
  <2>2. Wants(e)' = Wants(e)
    BY <2>1 DEF Wants
  <2> QED BY <2>1, <2>2 DEF ClientSide
<1>7. ASSUME NEW r \in Requests, InitializedCallback(r)
      PROVE  ClientSide(e)' /\ Alternates(toServer', e, from, Wants(e)')
  <2>1. /\ UNCHANGED <<waiting, listening>>
        /\ \/ r \in ready /\ ready' = ready \ {r} /\ UNCHANGED stray
           \/ r \in stray /\ stray' = stray \ {r} /\ UNCHANGED ready
    BY <1>7 DEF InitializedCallback
  <2>2. e = r => e \in ready /\ e \notin waiting /\ e \in listening /\ e \notin ready'
    BY <2>1 DEF ClientSide
  <2>3. CASE r \in Calls /\ DoCall(r, promise) /\ UNCHANGED tracked
    <3>1. Alternates(toServer', e, from, Wants(e))
      BY <2>3, DoCallSilent
    <3>2. e # r /\ Wants(e)' = Wants(e)
      BY <1>0, <2>1, <2>3 DEF Wants
    <3> QED BY <2>1, <2>3, <3>1, <3>2 DEF ClientSide
  <2>4. CASE r \in Events /\ DoListen(r)
    <3>1. r = e => Wants(e) = "off"
      BY <2>2 DEF Wants
    <3>2. Alternates(toServer', e, from, IF r = e THEN "on" ELSE Wants(e))
      BY <1>0, <2>4, <3>1, DoListenSwitches
    <3>3. Wants(e)' = IF r = e THEN "on" ELSE Wants(e)
      BY <2>1, <2>2 DEF Wants
    <3>4. tracked' = tracked \cup {r}
      BY <2>4 DEF DoListen
    <3> QED BY <2>1, <2>2, <3>2, <3>3, <3>4 DEF ClientSide
  <2> QED BY <1>7, <2>3, <2>4 DEF InitializedCallback
<1>8. ASSUME DisposeClient
      PROVE  ClientSide(e)' /\ Alternates(toServer', e, from, Wants(e)')
  <2>1. /\ TakeBack(tracked) /\ listening' = listening \ tracked /\ tracked' = {}
        /\ IsFiniteSet(tracked) /\ tracked \in SUBSET Requests
    BY <1>8 DEF DisposeClient, TypeOK
  <2>2. e \in tracked => e \in listening /\ e \notin waiting /\ e \notin ready
    BY DEF ClientSide
  <2>3. Alternates(toServer', e, from, IF e \in tracked THEN "off" ELSE Wants(e))
    BY <2>1, <2>2, TakeBackSwitches
  <2>4. /\ e \in waiting' <=> e \in waiting /\ e \notin tracked
        /\ e \in ready' <=> e \in ready
        /\ e \in stray' <=> e \in stray
    BY <2>1, TakeBackQueues
  <2>5. Wants(e)' = IF e \in tracked THEN "off" ELSE Wants(e)
    BY <2>1, <2>2, <2>4 DEF Wants
  <2> QED BY <2>1, <2>2, <2>3, <2>4, <2>5 DEF ClientSide
<1> QED BY <1>1, <1>2, <1>3, <1>4, <1>5, <1>6, <1>7, <1>8 DEF ClientStep
-----------------------------------------------------------------------------
(* Subscriptions: the steps of the server.                                   *)

\* A request that is served once gets one subscription.
LEMMA ServeEvent ==
  ASSUME TypeOK, NEW rs \in Seq(Requests), Serve(rs), NEW e \in Events,
         \A i, j \in DOMAIN rs : rs[i] = e /\ rs[j] = e => i = j
  PROVE  /\ subs'[e] = IF \E i \in DOMAIN rs : rs[i] = e THEN subs[e] + 1 ELSE subs[e]
         /\ e \in active' <=> e \in active \/ \E i \in DOMAIN rs : rs[i] = e
<1> DEFINE I == {i \in DOMAIN rs : rs[i] = e}
<1>1. subs'[e] = subs[e] + Cardinality(I) /\ subs[e] \in Nat
  BY DEF Serve, TypeOK
<1>2. active' = active \cup {rs[i] : i \in DOMAIN rs}
  BY DEF Serve, ActiveAfter, ToSet
<1>3. CASE \E i \in DOMAIN rs : rs[i] = e
  <2>1. PICK i \in DOMAIN rs : rs[i] = e
    BY <1>3
  <2>2. I = {i}
    BY <2>1
  <2>3. Cardinality(I) = 1
    BY <2>2, FS_Singleton
  <2> HIDE DEF I
  <2> QED BY <1>1, <1>2, <1>3, <2>3
<1>4. CASE ~\E i \in DOMAIN rs : rs[i] = e
  <2>1. I = {}
    BY <1>4
  <2>2. Cardinality(I) = 0
    BY <2>1, FS_EmptySet
  <2> HIDE DEF I
  <2> QED BY <1>1, <1>2, <1>4, <2>2
<1> QED BY <1>3, <1>4

\* One request is served.
LEMMA ServeOneEvent ==
  ASSUME TypeOK, NEW r \in Requests, Serve(<<r>>), NEW e \in Events
  PROVE  /\ subs'[e] = IF e = r THEN subs[e] + 1 ELSE subs[e]
         /\ e \in active' <=> e \in active \/ e = r
<1>1. <<r>> \in Seq(Requests) /\ DOMAIN <<r>> = {1} /\ <<r>>[1] = r
  OBVIOUS
<1>2. \A i, j \in DOMAIN <<r>> : <<r>>[i] = e /\ <<r>>[j] = e => i = j
  BY <1>1
<1>3. (\E i \in DOMAIN <<r>> : <<r>>[i] = e) <=> e = r
  BY <1>1
<1> QED BY <1>1, <1>2, <1>3, ServeEvent

\* A request is collected, and once if it was not collected before.
LEMMA CollectOnce ==
  ASSUME TypeOK, NEW r \in Requests, Collect(r), NEW e \in Events, CollectedOnce(e),
         e = r => ~IsCollected(e)
  PROVE  CollectedOnce(e)' /\ (IsCollected(e)' <=> IsCollected(e) \/ e = r)
<1> DEFINE x == [id |-> r, timer |-> "armed"]
           g == ChannelOf[e]
           q == pending[g]
<1>1. IsCollected(e)' <=> IsCollected(e) \/ e = r
  BY CollectPlaces DEF Requests
<1>2. g \in Channels /\ q \in Seq(PendingRequests) /\ x \in PendingRequests /\ x.id = r
  BY IdsAssumption DEF TypeOK, PendingRequests, Requests
<1>3. pending'[g] = IF ChannelOf[r] = g THEN Append(q, x) ELSE q
  BY <1>2 DEF Collect, TypeOK
<1>4. CollectedOnce(e)'
  <2>1. CASE ChannelOf[r] # g
    <3>1. pending'[g] = q
      BY <1>3, <2>1
    <3> QED BY <3>1 DEF CollectedOnce
  <2>2. CASE ChannelOf[r] = g
    <3> HIDE DEF x
    <3>1. pending'[g] = Append(q, x)
      BY <1>3, <2>2
    <3>2. \A i \in DOMAIN Append(q, x) :
             \/ i \in DOMAIN q /\ Append(q, x)[i] = q[i]
             \/ i = Len(q) + 1 /\ Append(q, x)[i] = x
      BY <1>2
    <3>3. e = r => \A i \in DOMAIN q : q[i].id # e
      BY DEF IsCollected
    <3>4. \A i, j \in DOMAIN q : q[i].id = e /\ q[j].id = e => i = j
      BY DEF CollectedOnce
    <3> HIDE DEF q
    <3>5. \A i, j \in DOMAIN Append(q, x) :
             Append(q, x)[i].id = e /\ Append(q, x)[j].id = e => i = j
      BY <1>2, <3>2, <3>3, <3>4
    <3> QED BY <3>1, <3>5 DEF CollectedOnce
  <2> QED BY <2>1, <2>2
<1> QED BY <1>1, <1>4

\* A request that does not concern e.
LEMMA OtherRequest ==
  ASSUME TypeOK, NEW e \in Events, CollectedOnce(e), ReceiveRequest, Head(toServer).id # e
  PROVE  /\ subs'[e] = subs[e] /\ (e \in active' <=> e \in active)
         /\ (IsCollected(e)' <=> IsCollected(e)) /\ CollectedOnce(e)'
         /\ e \in refused' <=> e \in refused
<1> DEFINE m == Head(toServer)
<1>1. m.id \in Requests
  BY RequestsOf DEF ReceiveRequest, TypeOK
<1>2. UNCHANGED pending => (IsCollected(e)' <=> IsCollected(e)) /\ CollectedOnce(e)'
  BY DEF IsCollected, CollectedOnce
<1>3. CASE Serve(<<m.id>>) /\ refused' = refused \ {m.id} /\ UNCHANGED pending
  <2>1. /\ subs'[e] = IF e = m.id THEN subs[e] + 1 ELSE subs[e]
        /\ e \in active' <=> e \in active \/ e = m.id
    BY <1>1, <1>3, ServeOneEvent
  <2> QED BY <1>2, <1>3, <2>1
<1>4. CASE Collect(m.id) /\ UNCHANGED <<active, subs, history>>
  BY <1>1, <1>4, CollectOnce DEF history
<1>5. CASE DisposeActiveRequest(m.id) /\ UNCHANGED pending
  <2>1. /\ subs'[e] = subs[e] /\ (e \in active' <=> e \in active)
        /\ e \in refused' <=> e \in refused
    BY <1>5 DEF DisposeActiveRequest, Unsubscribed, Disposable
  <2> QED BY <1>2, <1>5, <2>1
<1>6. CASE refused' = refused \cup {m.id} /\ UNCHANGED <<active, subs, pending>>
  BY <1>2, <1>6
<1> QED BY <1>3, <1>4, <1>5, <1>6 DEF ReceiveRequest

\* A request about e finds what the stream says.
LEMMA OwnRequest ==
  ASSUME TypeOK, NEW e \in Events, e \notin missed', ServerSide(e), ReceiveRequest,
         Head(toServer).id = e, After(Head(toServer)) # Has(e)
  PROVE  ServerSide(e)' /\ Has(e)' = After(Head(toServer))
<1> DEFINE m == Head(toServer)
<1>1. m \in ServerMessages /\ m.id = e /\ e \in Requests
  BY DEF ReceiveRequest, TypeOK, Requests
<1>2. m.type \in {"EventListen", "EventDispose"}
  BY <1>1, RequestsOf
<1>3. CASE m.type = "EventListen"
  <2>1. Has(e) = "off" /\ After(m) = "on"
    BY <1>3 DEF After, Has
  <2>2. ~IsCollected(e) /\ subs[e] = 0 /\ e \notin active /\ e \notin refused
    BY <2>1 DEF Has, ServerSide
  <2>3. CASE Serve(<<m.id>>) /\ refused' = refused \ {m.id} /\ UNCHANGED pending
    <3>1. subs'[e] = 1 /\ e \in active'
      BY <1>1, <2>2, <2>3, ServeOneEvent
    <3>2. (IsCollected(e)' <=> IsCollected(e)) /\ (CollectedOnce(e)' <=> CollectedOnce(e))
      BY <2>3 DEF IsCollected, CollectedOnce
    <3>3. e \notin refused'
      BY <1>1, <2>3
    <3>4. CollectedOnce(e)
      BY DEF ServerSide
    <3> QED BY <2>1, <2>2, <3>1, <3>2, <3>3, <3>4 DEF ServerSide, Has
  <2>4. CASE Collect(m.id) /\ UNCHANGED <<active, subs, history>>
    <3>1. CollectedOnce(e)' /\ IsCollected(e)'
      BY <1>1, <2>2, <2>4, CollectOnce DEF ServerSide
    <3> QED BY <2>1, <2>2, <2>4, <3>1 DEF ServerSide, Has, history
  <2>5. CASE refused' = refused \cup {m.id} /\ UNCHANGED <<active, subs, pending>>
    <3>1. (IsCollected(e)' <=> IsCollected(e)) /\ (CollectedOnce(e)' <=> CollectedOnce(e))
      BY <2>5 DEF IsCollected, CollectedOnce
    <3>2. e \in refused'
      BY <1>1, <2>5
    <3> QED BY <2>1, <2>2, <2>5, <3>1, <3>2 DEF ServerSide, Has
  <2> QED BY <1>3, <2>3, <2>4, <2>5 DEF ReceiveRequest
<1>4. CASE m.type = "EventDispose"
  <2>1. Has(e) = "on" /\ After(m) = "off"
    BY <1>4 DEF After, Has
  <2>2. DisposeActiveRequest(e) /\ UNCHANGED pending
    BY <1>1, <1>4 DEF ReceiveRequest
  <2>3. ~IsCollected(e)
    BY <2>2 DEF DisposeActiveRequest
  <2>4. subs[e] = IF e \in active THEN 1 ELSE 0
    BY DEF ServerSide
  <2>5. subs'[e] = 0 /\ e \notin active' /\ e \notin refused'
    BY <2>2, <2>4 DEF DisposeActiveRequest, Unsubscribed, Disposable
  <2>6. (IsCollected(e)' <=> IsCollected(e)) /\ (CollectedOnce(e)' <=> CollectedOnce(e))
    BY <2>2 DEF IsCollected, CollectedOnce
  <2> QED BY <2>1, <2>3, <2>5, <2>6 DEF ServerSide, Has
<1> QED BY <1>2, <1>3, <1>4

\* onRawMessage.
LEMMA RequestSwitches ==
  ASSUME TypeOK, NEW e \in Events, e \notin missed', ServerSide(e), ReceiveRequest,
         Alternates(toServer, e, Has(e), Wants(e))
  PROVE  ServerSide(e)' /\ Alternates(toServer', e, Has(e)', Wants(e)')
<1>1. /\ toServer \in Seq(ServerMessages) /\ toServer # <<>> /\ toServer' = Tail(toServer)
      /\ UNCHANGED <<listening, waiting, ready>>
  BY DEF ReceiveRequest, TypeOK, clientVars
<1>2. Wants(e)' = Wants(e)
  BY <1>1 DEF Wants
<1>3. CASE Head(toServer).id = e
  <2>1. /\ After(Head(toServer)) # Has(e)
        /\ Alternates(Tail(toServer), e, After(Head(toServer)), Wants(e))
    BY <1>1, <1>3, Switches, AlternatesTaken
  <2>2. ServerSide(e)' /\ Has(e)' = After(Head(toServer))
    BY <1>3, <2>1, OwnRequest
  <2> QED BY <1>1, <1>2, <2>1, <2>2
<1>4. CASE Head(toServer).id # e
  <2>1. /\ subs'[e] = subs[e] /\ (e \in active' <=> e \in active)
        /\ (IsCollected(e)' <=> IsCollected(e)) /\ CollectedOnce(e)'
        /\ e \in refused' <=> e \in refused
    BY <1>4, OtherRequest DEF ServerSide
  <2>2. ServerSide(e)' /\ Has(e)' = Has(e)
    BY <2>1 DEF ServerSide, Has
  <2>3. Alternates(Tail(toServer), e, Has(e), Wants(e))
    BY <1>1, <1>4, AlternatesTail
  <2> QED BY <1>1, <1>2, <2>2, <2>3
<1> QED BY <1>3, <1>4

\* The requests that were collected for h are served, refused or left behind.
LEMMA FlushSwitches ==
  ASSUME TypeOK, NEW e \in Events, ServerSide(e), NEW h \in Channels, FlushPendingRequests(h)
  PROVE  ServerSide(e)' /\ Has(e)' = Has(e)
<1> DEFINE g == ChannelOf[e]
<1>1. g \in Channels
  BY IdsAssumption DEF Requests
<1>2. pending' = [pending EXCEPT ![h] = <<>>]
  BY DEF FlushPendingRequests
<1>3. IsCollected(e)' <=> IsCollected(e) /\ g # h
  BY <1>1, <1>2 DEF IsCollected, TypeOK
<1>4. CollectedOnce(e)'
  <2>1. CASE g = h
    <3>1. pending'[g] = <<>>
      BY <1>1, <1>2, <2>1 DEF TypeOK
    <3> QED BY <3>1 DEF CollectedOnce
  <2>2. CASE g # h
    <3>1. pending'[g] = pending[g]
      BY <1>1, <1>2, <2>2 DEF TypeOK
    <3> QED BY <3>1 DEF CollectedOnce, ServerSide
  <2> QED BY <2>1, <2>2
<1>5. PICK n \in 0..Len(pending[h]) : Flushed(h, n)
  BY SomeFlushed
<1> DEFINE rs == SubSeq(Collected(h), 1, n)
           Served == \E i \in DOMAIN rs : rs[i] = e
           Behind == \E i \in (n + 1)..Len(pending[h]) : Collected(h)[i] = e
<1>6. /\ rs \in Seq(Requests) /\ DOMAIN rs = 1..n
      /\ Len(pending[h]) \in Nat /\ DOMAIN pending[h] = 1..Len(pending[h])
      /\ \A i \in 1..n : i \in DOMAIN pending[h] /\ rs[i] = pending[h][i].id
  BY CollectedTypes
<1>7. \A i \in DOMAIN pending[h] : Collected(h)[i] = pending[h][i].id
  BY DEF Collected
<1>8. Serve(rs) /\ (e \in refused' <=> e \in refused \/ Behind)
  BY <1>5 DEF Flushed
<1> HIDE DEF rs
<1>9. \A i, j \in DOMAIN pending[h] :
         pending[h][i].id = e /\ pending[h][j].id = e => i = j /\ g = h
  <2> SUFFICES ASSUME NEW i \in DOMAIN pending[h], NEW j \in DOMAIN pending[h],
                      pending[h][i].id = e, pending[h][j].id = e
               PROVE  i = j /\ g = h
    OBVIOUS
  <2>1. g = h
    BY DEF TypeOK
  <2> QED BY <2>1 DEF ServerSide, CollectedOnce
<1>10. IsCollected(e) /\ g = h <=> \E i \in DOMAIN pending[h] : pending[h][i].id = e
  BY <1>9 DEF IsCollected
<1>11. \A i, j \in DOMAIN rs : rs[i] = e /\ rs[j] = e => i = j
  BY <1>6, <1>9
<1>12. Served => IsCollected(e) /\ g = h
  BY <1>6, <1>10
<1>13. Behind => IsCollected(e) /\ g = h
  BY <1>6, <1>7, <1>10
<1>14. IsCollected(e) /\ g = h => Served \/ Behind
  <2> SUFFICES ASSUME NEW i \in DOMAIN pending[h], pending[h][i].id = e
               PROVE  Served \/ Behind
    BY <1>10
  <2>1. i \in 1..n \/ i \in (n + 1)..Len(pending[h])
    BY <1>6
  <2> QED BY <1>6, <1>7, <2>1
<1>15. ~(Served /\ Behind)
  <2> SUFFICES ASSUME NEW i \in 1..n, NEW j \in (n + 1)..Len(pending[h]),
                      rs[i] = e, Collected(h)[j] = e
               PROVE  FALSE
    BY <1>6
  <2>1. j \in DOMAIN pending[h] /\ i # j
    BY <1>6
  <2> QED BY <1>6, <1>7, <1>9, <2>1
<1>16. /\ subs'[e] = IF Served THEN subs[e] + 1 ELSE subs[e]
       /\ e \in active' <=> e \in active \/ Served
  BY <1>6, <1>8, <1>11, ServeEvent
<1> HIDE DEF g, Served, Behind
<1>17. IsCollected(e) => subs[e] = 0 /\ e \notin active /\ e \notin refused
  BY DEF ServerSide
<1>18. CASE Served
  BY <1>3, <1>4, <1>8, <1>12, <1>15, <1>16, <1>17, <1>18 DEF ServerSide, Has
<1>19. CASE Behind
  BY <1>3, <1>4, <1>8, <1>13, <1>15, <1>16, <1>17, <1>19 DEF ServerSide, Has
<1>20. CASE ~Served /\ ~Behind
  BY <1>3, <1>4, <1>8, <1>14, <1>16, <1>20 DEF ServerSide, Has
<1> QED BY <1>18, <1>19, <1>20

\* The other steps of the server do not switch.
LEMMA QuietServerStep ==
  ASSUME TypeOK, NEW e \in Events, ServerSide(e),
         \/ \E d \in Events : Fire(d)
         \/ \E h \in Channels : RegisterChannel(h)
         \/ \E h \in Channels : \E i \in DOMAIN pending[h] : UnknownChannel(h, i)
         \/ \E c \in Calls, a \in Results : Finish(c, a)
         \/ \E c \in Calls : StrandedTimeout(c)
  PROVE  ServerSide(e)' /\ Has(e)' = Has(e)
<1>1. UNCHANGED <<subs, refused>>
  BY DEF Fire, RegisterChannel, UnknownChannel, Finish, StrandedTimeout, history
<1>2. e \in active' <=> e \in active
  <2>1. ASSUME NEW c \in Calls, NEW a \in Results, Finish(c, a)
        PROVE  e \in active' <=> e \in active
    BY <2>1, IdsAssumption DEF Finish
  <2>2. ASSUME NEW d, Fire(d) PROVE UNCHANGED active
    BY <2>2 DEF Fire
  <2>3. ASSUME NEW h, RegisterChannel(h) PROVE UNCHANGED active
    BY <2>3 DEF RegisterChannel
  <2>4. ASSUME NEW h, NEW i, UnknownChannel(h, i) PROVE UNCHANGED active
    BY <2>4 DEF UnknownChannel
  <2>5. ASSUME NEW c, StrandedTimeout(c) PROVE UNCHANGED active
    BY <2>5 DEF StrandedTimeout
  <2> QED BY <2>1, <2>2, <2>3, <2>4, <2>5
<1>3. (IsCollected(e)' <=> IsCollected(e)) /\ CollectedOnce(e)'
  <2>1. CASE UNCHANGED pending
    BY <2>1 DEF IsCollected, CollectedOnce, ServerSide
  <2>2. ASSUME NEW h \in Channels, NEW i \in DOMAIN pending[h], UnknownChannel(h, i)
        PROVE  (IsCollected(e)' <=> IsCollected(e)) /\ CollectedOnce(e)'
    <3> DEFINE g == ChannelOf[e]
    <3>1. g \in Channels
      BY IdsAssumption DEF Requests
    <3>2. /\ DOMAIN pending'[g] = DOMAIN pending[g]
          /\ \A j \in DOMAIN pending[g] : pending'[g][j].id = pending[g][j].id
      BY <2>2, <3>1, UnknownPlaces
    <3> QED BY <3>2 DEF IsCollected, CollectedOnce, ServerSide
  <2>3. ASSUME NEW c, NEW a, Finish(c, a) PROVE UNCHANGED pending
    BY <2>3 DEF Finish
  <2>4. ASSUME NEW d, Fire(d) PROVE UNCHANGED pending
    BY <2>4 DEF Fire
  <2>5. ASSUME NEW h, RegisterChannel(h) PROVE UNCHANGED pending
    BY <2>5 DEF RegisterChannel
  <2>6. ASSUME NEW c, StrandedTimeout(c) PROVE UNCHANGED pending
    BY <2>6 DEF StrandedTimeout
  <2> QED BY <2>1, <2>2, <2>3, <2>4, <2>5, <2>6
<1> QED BY <1>1, <1>2, <1>3 DEF ServerSide, Has
-----------------------------------------------------------------------------
(* Subscriptions: every step.                                                *)

\* At first there is none.
LEMMA SubscriptionsInitially == Init => SubscriptionInv
<1> SUFFICES ASSUME Init, NEW e \in Events
             PROVE  ClientSide(e) /\ ServerSide(e) /\ InStep(e)
  BY DEF SubscriptionInv
<1>1. ClientSide(e)
  BY DEF Init, ClientSide
<1>2. ~IsCollected(e) /\ CollectedOnce(e)
  <2>1. ChannelOf[e] \in Channels
    BY IdsAssumption DEF Requests
  <2> QED BY <2>1 DEF Init, IsCollected, CollectedOnce
<1>3. ServerSide(e)
  BY <1>2 DEF Init, ServerSide
<1>4. Has(e) = "off" /\ Wants(e) = "off"
  BY <1>2 DEF Init, Has, Wants
<1>5. About(toServer, e) = {}
  BY DEF Init, About
<1>6. InStep(e)
  BY <1>4, <1>5 DEF InStep, Alternates, Switch
<1> QED BY <1>1, <1>3, <1>6

\* What is missed stays missed, and a server that went away does not come back.
LEMMA NeverForgotten == [Next]_vars => missed \subseteq missed' /\ (closed => closed')
<1> SUFFICES ASSUME [Next]_vars PROVE missed \subseteq missed' /\ (closed => closed')
  OBVIOUS
<1>1. CASE UNCHANGED missed
  <2>1. UNCHANGED closed \/ closed'
    BY DEF Next, Call, CancelToken, Finally, AddListener, RemoveListener, Fire, Woken,
           InitializedCallback, DisposeClient, ReceiveResponse, RegisterChannel,
           FlushPendingRequests, UnknownChannel, StrandedTimeout, Finish, ReceiveRequest,
           DisposeServer, vars, serverVars
  <2> QED BY <1>1, <2>1
<1>2. ASSUME NEW R, TakeBack(R) PROVE missed \subseteq missed'
  BY <1>2 DEF TakeBack
<1>3. ASSUME NEW c \in Calls, CancelToken(c)
      PROVE  missed \subseteq missed' /\ (closed => closed')
  <2>1. UNCHANGED closed
    BY <1>3 DEF CancelToken, serverVars
  <2> QED BY <1>2, <1>3, <2>1 DEF CancelToken
<1>4. ASSUME NEW e \in Events, RemoveListener(e)
      PROVE  missed \subseteq missed' /\ (closed => closed')
  <2>1. UNCHANGED closed /\ TakeBack({e})
    BY <1>4 DEF RemoveListener, serverVars
  <2> QED BY <1>2, <2>1
<1>5. CASE DisposeClient
  <2>1. UNCHANGED closed /\ TakeBack(tracked)
    BY <1>5 DEF DisposeClient, serverVars
  <2> QED BY <1>2, <2>1
<1>6. CASE ReceiveRequest
  <2>1. UNCHANGED closed /\ missed \subseteq missed'
    BY <1>6 DEF ReceiveRequest, DisposeActiveRequest, history
  <2> QED BY <2>1
<1>7. ASSUME NEW c, Call(c) \/ Finally(c)
      PROVE  UNCHANGED missed
  BY <1>7 DEF Call, Finally, history
<1>8. ASSUME NEW e, AddListener(e) \/ Fire(e)
      PROVE  UNCHANGED missed
  BY <1>8 DEF AddListener, Fire, history
<1>9. ASSUME NEW r, Woken(r) \/ InitializedCallback(r)
      PROVE  UNCHANGED missed
  BY <1>9 DEF Woken, InitializedCallback, history
<1>10. ASSUME NEW h, RegisterChannel(h) \/ FlushPendingRequests(h)
       PROVE  UNCHANGED missed
  BY <1>10 DEF RegisterChannel, FlushPendingRequests, history
<1>11. ASSUME NEW h, NEW i, UnknownChannel(h, i)
       PROVE  UNCHANGED missed
  BY <1>11 DEF UnknownChannel, history
<1>12. ASSUME NEW c, NEW a, Finish(c, a) \/ StrandedTimeout(c)
       PROVE  UNCHANGED missed
  BY <1>12 DEF Finish, StrandedTimeout, history
<1>13. ReceiveResponse \/ DisposeServer => UNCHANGED missed
  BY DEF ReceiveResponse, DisposeServer, history
<1>14. UNCHANGED vars => UNCHANGED missed
  BY DEF vars, history
<1> QED BY <1>1, <1>3, <1>4, <1>5, <1>6, <1>7, <1>8, <1>9, <1>10, <1>11, <1>12, <1>13, <1>14
        DEF Next

\* Every step keeps the ends in step.
LEMMA SubscriptionStep ==
  ASSUME TypeOK, NEW e \in Events, e \notin missed', [Next]_vars,
         ClientSide(e), ServerSide(e), InStep(e)
  PROVE  ClientSide(e)' /\ ServerSide(e)' /\ InStep(e)'
<1>0. closed => closed'
  BY NeverForgotten
<1>1. PICK from \in Switch : (~closed => from = Has(e)) /\ Alternates(toServer, e, from, Wants(e))
  BY DEF InStep
<1>2. CASE ClientStep
  <2>1. UNCHANGED <<subs, active, pending, refused>>
    <3>1. UNCHANGED <<serverVars, refused>>
      BY <1>2 DEF ClientStep, Call, CancelToken, Finally, AddListener, RemoveListener,
                  Woken, InitializedCallback, DisposeClient, history
    <3> QED BY <3>1 DEF serverVars
  <2>2. ServerSide(e)' /\ Has(e)' = Has(e)
    BY <2>1 DEF ServerSide, CollectedOnce, IsCollected, Has
  <2>3. ClientSide(e)' /\ Alternates(toServer', e, from, Wants(e)')
    BY <1>1, <1>2, ClientStepSwitches
  <2> QED BY <1>0, <1>1, <2>2, <2>3 DEF InStep
<1>3. CASE UNCHANGED <<toServer, waiting, ready, stray, listening, tracked>>
           /\ ServerSide(e)' /\ (~closed' => Has(e)' = Has(e))
  <2>1. ClientSide(e)' /\ Wants(e)' = Wants(e)
    BY <1>3 DEF ClientSide, Wants
  <2>2. Alternates(toServer', e, from, Wants(e)')
    BY <1>1, <1>3, <2>1
  <2>3. ~closed' => from = Has(e)'
    BY <1>0, <1>1, <1>3
  <2> QED BY <1>3, <2>1, <2>2, <2>3 DEF InStep
<1>4. CASE ReceiveResponse
  <2>1. UNCHANGED <<toServer, waiting, ready, stray, listening, tracked, subs, active, pending,
                  refused>>
    BY <1>4 DEF ReceiveResponse, serverVars, history
  <2>2. ServerSide(e)' /\ Has(e)' = Has(e)
    BY <2>1 DEF ServerSide, CollectedOnce, IsCollected, Has
  <2> QED BY <1>3, <2>1, <2>2
<1>5. CASE ReceiveRequest
  <2>1. ~closed /\ UNCHANGED <<waiting, ready, stray, listening, tracked>>
    BY <1>5 DEF ReceiveRequest, clientVars
  <2>2. ServerSide(e)' /\ Alternates(toServer', e, Has(e)', Wants(e)')
    BY <1>1, <1>5, <2>1, RequestSwitches
  <2>3. ClientSide(e)'
    BY <2>1 DEF ClientSide
  <2>4. Has(e)' \in Switch
    BY DEF Has, Switch
  <2> QED BY <2>2, <2>3, <2>4 DEF InStep
<1>6. CASE DisposeServer
  <2>1. /\ UNCHANGED <<toServer, waiting, ready, stray, listening, tracked, pending, refused>>
        /\ closed'
    BY <1>6 DEF DisposeServer, clientVars, history
  <2>2. subs'[e] = 0 /\ e \notin active'
    BY <1>6 DEF DisposeServer, Unsubscribed, ServerSide
  <2>3. ServerSide(e)'
    BY <2>1, <2>2 DEF ServerSide, CollectedOnce, IsCollected
  <2> QED BY <1>3, <2>1, <2>3
<1>7. ASSUME NEW h \in Channels, FlushPendingRequests(h)
      PROVE  ClientSide(e)' /\ ServerSide(e)' /\ InStep(e)'
  <2>1. UNCHANGED <<toServer, waiting, ready, stray, listening, tracked>>
    BY <1>7 DEF FlushPendingRequests, clientVars
  <2> QED BY <1>3, <1>7, <2>1, FlushSwitches
<1>8. CASE \/ \E d \in Events : Fire(d)
           \/ \E h \in Channels : RegisterChannel(h)
           \/ \E h \in Channels : \E i \in DOMAIN pending[h] : UnknownChannel(h, i)
           \/ \E c \in Calls, a \in Results : Finish(c, a)
           \/ \E c \in Calls : StrandedTimeout(c)
  <2>1. UNCHANGED <<toServer, waiting, ready, stray, listening, tracked>>
    BY <1>8 DEF Fire, RegisterChannel, UnknownChannel, Finish, StrandedTimeout, clientVars
  <2> QED BY <1>3, <1>8, <2>1, QuietServerStep
<1>9. CASE UNCHANGED vars
  <2>1. UNCHANGED <<toServer, waiting, ready, stray, listening, tracked, subs, active, pending,
                  refused>>
    BY <1>9 DEF vars, clientVars, serverVars, history
  <2>2. ServerSide(e)' /\ Has(e)' = Has(e)
    BY <2>1 DEF ServerSide, CollectedOnce, IsCollected, Has
  <2> QED BY <1>3, <2>1, <2>2
<1> QED BY <1>2, <1>4, <1>5, <1>6, <1>7, <1>8, <1>9 DEF Next, ClientStep

\* The invariant.
LEMMA SubscriptionsInvariant == Spec => []SubscriptionInv
<1>1. TypeOK /\ SubscriptionInv /\ [Next]_vars => SubscriptionInv'
  BY SubscriptionStep, NeverForgotten DEF SubscriptionInv
<1> QED BY <1>1, SubscriptionsInitially, TypeCorrect, PTL DEF Spec

\* Once the two ends have caught up the server holds exactly one subscription
\* for an event with listeners and none for the others, however the requests of
\* its comings and goings crossed, were delayed or were collected: they switch
\* the subscription on and off in turn.
THEOREM InStepAlways == Spec => []SubscriptionsMatch
<1>1. TypeOK /\ SubscriptionInv => SubscriptionsMatch
  <2> SUFFICES ASSUME SubscriptionInv, ~closed, NEW e \in Events \ missed, Quiet(e)
               PROVE  subs[e] = IF e \in listening \ refused THEN 1 ELSE 0
    BY DEF SubscriptionsMatch
  <2>1. ServerSide(e) /\ Alternates(toServer, e, Has(e), Wants(e))
    BY DEF SubscriptionInv, InStep
  <2>2. /\ About(toServer, e) = {} /\ ~IsCollected(e)
        /\ e \notin waiting \cup ready
    BY DEF Quiet, About
  <2>3. Has(e) = Wants(e)
    BY <2>1, <2>2 DEF Alternates
  <2>4. (subs[e] > 0) \/ e \in refused <=> e \in listening
    BY <2>2, <2>3 DEF Has, Wants
  <2>5. subs[e] = (IF e \in active THEN 1 ELSE 0) /\ (e \in active => e \notin refused)
    BY <2>1 DEF ServerSide
  <2>6. CASE e \in active
    BY <2>4, <2>5, <2>6
  <2>7. CASE e \notin active
    BY <2>4, <2>5, <2>7
  <2> QED BY <2>6, <2>7
<1> QED BY <1>1, TypeCorrect, SubscriptionsInvariant, PTL
-----------------------------------------------------------------------------
(* Firings.                                                                  *)

IsFiring(m, e) == m.type = "EventFire" /\ m.id = e

\* What was received of e was fired in this order, what is on its way was fired
\* later, and nothing was fired after firing n.
InOrder(q, r, n, e) ==
    /\ \A i, j \in DOMAIN r : i < j => r[i] < r[j]
    /\ \A i \in DOMAIN r : r[i] <= n
    /\ \A i \in DOMAIN q : IsFiring(q[i], e) =>
          /\ q[i].data <= n
          /\ \A j \in DOMAIN r : r[j] < q[i].data
          /\ \A j \in DOMAIN q : IsFiring(q[j], e) /\ i < j => q[i].data < q[j].data

FiringInv == \A e \in Events \ missed : InOrder(toClient, received[e], fires[e], e)

\* Something else is sent.
LEMMA OrderOther ==
  ASSUME NEW S, NEW q \in Seq(S), NEW s \in Seq(S), NEW e, NEW r, NEW n,
         \A i \in DOMAIN s : ~IsFiring(s[i], e), InOrder(q, r, n, e)
  PROVE  InOrder(q \o s, r, n, e)
<1> DEFINE p == q \o s
<1>1. /\ \A i \in DOMAIN q : i \in DOMAIN p /\ p[i] = q[i]
      /\ \A i \in DOMAIN s : p[Len(q) + i] = s[i]
      /\ \A i \in DOMAIN p : i \in DOMAIN q \/ \E j \in DOMAIN s : i = Len(q) + j
  <2>1. Joined(q, s, p)
    BY More
  <2> HIDE DEF p
  <2> QED BY <2>1 DEF Joined
<1> HIDE DEF p
<1>2. \A i \in DOMAIN p : IsFiring(p[i], e) => i \in DOMAIN q /\ p[i] = q[i]
  BY <1>1
<1> QED BY <1>2 DEF InOrder, p

\* The next firing is sent.
LEMMA OrderMore ==
  ASSUME NEW q \in Seq(ClientMessages), NEW s \in Seq(ClientMessages), NEW e,
         NEW r \in Seq(Nat), NEW n \in Nat, DOMAIN s = {1}, s[1].data = n + 1,
         InOrder(q, r, n, e)
  PROVE  InOrder(q \o s, r, n + 1, e)
<1> DEFINE p == q \o s
           l == Len(q) + 1
<1>1. /\ \A i \in DOMAIN q : i \in Nat /\ i <= Len(q) /\ i \in DOMAIN p /\ p[i] = q[i]
      /\ \A i \in DOMAIN s : p[Len(q) + i] = s[i]
      /\ \A i \in DOMAIN p : i \in DOMAIN q \/ \E j \in DOMAIN s : i = Len(q) + j
      /\ Len(q) \in Nat
  <2>1. Joined(q, s, p)
    BY More
  <2> HIDE DEF p
  <2> QED BY <2>1 DEF Joined
<1> HIDE DEF p
<1>2. /\ \A i \in DOMAIN p : (i \in DOMAIN q /\ p[i] = q[i] /\ i < l) \/ i = l
      /\ p[l].data = n + 1 /\ l \in Nat
  BY <1>1
<1>3. \A i \in DOMAIN r : r[i] \in Nat
  OBVIOUS
<1>4. \A i \in DOMAIN q : IsFiring(q[i], e) => q[i].data \in Nat
  <2>1. \A m \in ClientMessages : m.type = "EventFire" => m.data \in 1..MaxFires
    BY Responses
  <2>2. \A i \in DOMAIN q : q[i] \in ClientMessages
    OBVIOUS
  <2>3. 1..MaxFires \subseteq Nat
    BY IdsAssumption
  <2> QED BY <2>1, <2>2, <2>3 DEF IsFiring
<1>5. /\ \A i, j \in DOMAIN r : i < j => r[i] < r[j]
      /\ \A i \in DOMAIN r : r[i] <= n
      /\ \A i \in DOMAIN q : IsFiring(q[i], e) =>
            /\ q[i].data <= n
            /\ \A j \in DOMAIN r : r[j] < q[i].data
            /\ \A j \in DOMAIN q : IsFiring(q[j], e) /\ i < j => q[i].data < q[j].data
  BY DEF InOrder
<1> HIDE DEF l
<1>6. \A i \in DOMAIN r : r[i] <= n + 1 /\ r[i] < n + 1
  BY <1>3, <1>5
<1>7. ASSUME NEW i \in DOMAIN p, IsFiring(p[i], e)
      PROVE  /\ p[i].data <= n + 1
             /\ \A j \in DOMAIN r : r[j] < p[i].data
             /\ \A j \in DOMAIN p : IsFiring(p[j], e) /\ i < j => p[i].data < p[j].data
  <2>1. CASE i = l
    <3>1. \A j \in DOMAIN p : ~(i < j)
      BY <1>1, <1>2, <2>1
    <3> QED BY <1>2, <1>6, <2>1, <3>1
  <2>2. CASE i \in DOMAIN q /\ p[i] = q[i]
    <3>1. /\ q[i].data \in Nat /\ q[i].data <= n
          /\ \A j \in DOMAIN r : r[j] < q[i].data
          /\ \A j \in DOMAIN q : IsFiring(q[j], e) /\ i < j => q[i].data < q[j].data
      BY <1>4, <1>5, <1>7, <2>2
    <3>2. q[i].data < n + 1 /\ q[i].data <= n + 1
      BY <3>1
    <3>3. ASSUME NEW j \in DOMAIN p, IsFiring(p[j], e), i < j
          PROVE  q[i].data < p[j].data
      BY <1>2, <3>1, <3>2, <3>3
    <3> QED BY <2>2, <3>1, <3>2, <3>3
  <2> QED BY <1>2, <2>1, <2>2
<1> QED BY <1>5, <1>6, <1>7 DEF InOrder, p

\* The first message is dropped.
LEMMA OrderTail ==
  ASSUME NEW S, NEW q \in Seq(S), q # <<>>, NEW e, NEW r, NEW n, InOrder(q, r, n, e)
  PROVE  InOrder(Tail(q), r, n, e)
<1> DEFINE p == Tail(q)
<1>1. \A i \in DOMAIN p : i \in Nat /\ i + 1 \in DOMAIN q /\ p[i] = q[i + 1]
  BY HeadAndTail
<1> HIDE DEF p
<1>2. \A i, j \in DOMAIN p : i < j => i + 1 < j + 1
  BY <1>1
<1>3. /\ \A i, j \in DOMAIN r : i < j => r[i] < r[j]
      /\ \A i \in DOMAIN r : r[i] <= n
      /\ \A i \in DOMAIN q : IsFiring(q[i], e) =>
            /\ q[i].data <= n
            /\ \A j \in DOMAIN r : r[j] < q[i].data
            /\ \A j \in DOMAIN q : IsFiring(q[j], e) /\ i < j => q[i].data < q[j].data
  BY DEF InOrder
<1>4. ASSUME NEW i \in DOMAIN p, IsFiring(p[i], e)
      PROVE  /\ p[i].data <= n
             /\ \A j \in DOMAIN r : r[j] < p[i].data
             /\ \A j \in DOMAIN p : IsFiring(p[j], e) /\ i < j => p[i].data < p[j].data
  BY <1>1, <1>2, <1>3, <1>4
<1> QED BY <1>3, <1>4 DEF InOrder, p

\* The first message is a firing and the listener is given it.
LEMMA OrderTaken ==
  ASSUME NEW q \in Seq(ClientMessages), q # <<>>, NEW e, NEW r \in Seq(Nat), NEW n \in Nat,
         IsFiring(Head(q), e), InOrder(q, r, n, e)
  PROVE  InOrder(Tail(q), Append(r, Head(q).data), n, e)
<1> DEFINE p == Tail(q)
           d == Head(q).data
           a == Append(r, d)
<1>1. /\ 1 \in DOMAIN q /\ Head(q) = q[1]
      /\ \A i \in DOMAIN p : i \in Nat /\ i + 1 # 1 /\ i + 1 \in DOMAIN q /\ p[i] = q[i + 1]
  BY HeadAndTail
<1>2. d \in Nat
  <2>1. d \in 1..MaxFires
    BY Responses DEF IsFiring
  <2> QED BY <2>1, IdsAssumption
<1>3. d <= n /\ \A j \in DOMAIN r : r[j] < d
  BY <1>1 DEF InOrder
<1>4. \A i \in DOMAIN p : IsFiring(p[i], e) => d < p[i].data
  <2> HIDE DEF p
  <2> SUFFICES ASSUME NEW i \in DOMAIN p, IsFiring(p[i], e) PROVE d < p[i].data
    OBVIOUS
  <2>1. i + 1 \in DOMAIN q /\ 1 < i + 1 /\ p[i] = q[i + 1]
    <3>1. i \in Nat /\ i + 1 # 1 /\ i + 1 \in DOMAIN q /\ p[i] = q[i + 1]
      BY <1>1
    <3> QED BY <3>1
  <2> QED BY <1>1, <2>1 DEF InOrder
<1>5. InOrder(p, r, n, e)
  BY OrderTail
<1> HIDE DEF p, d
<1>6. /\ \A i \in DOMAIN a : i \in Nat /\ ((i \in DOMAIN r /\ a[i] = r[i] /\ i <= Len(r))
                                          \/ (i = Len(r) + 1 /\ a[i] = d))
      /\ Len(r) \in Nat
  BY <1>2
<1> HIDE DEF a
<1>7. \A i \in DOMAIN a : a[i] <= n
  BY <1>3, <1>5, <1>6 DEF InOrder
<1>8. \A i, j \in DOMAIN a : i < j => a[i] < a[j]
  <2> SUFFICES ASSUME NEW i \in DOMAIN a, NEW j \in DOMAIN a, i < j PROVE a[i] < a[j]
    OBVIOUS
  <2>1. i \in DOMAIN r /\ a[i] = r[i]
    BY <1>6
  <2>2. CASE j \in DOMAIN r /\ a[j] = r[j]
    BY <1>5, <2>1, <2>2 DEF InOrder
  <2>3. CASE a[j] = d
    BY <1>3, <2>1, <2>3
  <2> QED BY <1>6, <2>2, <2>3
<1>9. ASSUME NEW i \in DOMAIN p, IsFiring(p[i], e)
      PROVE  \A j \in DOMAIN a : a[j] < p[i].data
  BY <1>4, <1>5, <1>6, <1>9 DEF InOrder
<1> QED BY <1>5, <1>7, <1>8, <1>9 DEF InOrder, a, p, d

\* Firings are numbered by naturals.
LEMMA ReceivedNumbers ==
  ASSUME TypeOK, NEW e \in Events
  PROVE  received[e] \in Seq(Nat)
<1>1. received[e] \in Seq(1..MaxFires)
  BY DEF TypeOK
<1>2. 1..MaxFires \subseteq Nat
  BY IdsAssumption
<1>3. ASSUME NEW S, S \subseteq Nat, NEW q \in Seq(S)
      PROVE  q \in Seq(Nat)
  <2>1. Len(q) \in Nat /\ q \in [1..Len(q) -> S]
    OBVIOUS
  <2>2. q \in [1..Len(q) -> Nat]
    BY <1>3, <2>1
  <2> QED BY <2>1, <2>2
<1> QED BY <1>1, <1>2, <1>3

\* onResponse.
LEMMA ResponseOrder ==
  ASSUME TypeOK, NEW e \in Events, InOrder(toClient, received[e], fires[e], e), ReceiveResponse
  PROVE  InOrder(toClient', received'[e], fires'[e], e)
<1> DEFINE m == Head(toClient)
<1>1. /\ toClient \in Seq(ClientMessages) /\ toClient # <<>> /\ toClient' = Tail(toClient)
      /\ UNCHANGED fires /\ fires[e] \in Nat
  BY DEF ReceiveResponse, TypeOK, serverVars
<1>2. received[e] \in Seq(Nat)
  BY ReceivedNumbers
<1>3. CASE m.type = "EventFire" /\ received' = [received EXCEPT ![m.id] = Append(@, m.data)]
  <2>1. CASE m.id = e
    <3>1. received'[e] = Append(received[e], m.data)
      BY <1>3, <2>1 DEF TypeOK
    <3> QED BY <1>1, <1>2, <1>3, <2>1, <3>1, OrderTaken DEF IsFiring
  <2>2. CASE m.id # e
    <3>1. received'[e] = received[e]
      BY <1>3, <2>2 DEF TypeOK
    <3> QED BY <1>1, <3>1, OrderTail
  <2> QED BY <2>1, <2>2
<1>4. CASE UNCHANGED received
  BY <1>1, <1>4, OrderTail
<1> QED BY <1>3, <1>4 DEF ReceiveResponse

\* A firing that is not sent.
LEMMA OrderLater ==
  ASSUME NEW q \in Seq(ClientMessages), NEW e, NEW r \in Seq(Nat), NEW n \in Nat, NEW m \in Nat,
         n <= m, InOrder(q, r, n, e)
  PROVE  InOrder(q, r, m, e)
<1>1. \A i \in DOMAIN r : r[i] \in Nat
  OBVIOUS
<1>2. \A i \in DOMAIN q : IsFiring(q[i], e) => q[i].data \in Nat
  <2>1. \A i \in DOMAIN q : q[i] \in ClientMessages
    OBVIOUS
  <2>2. 1..MaxFires \subseteq Nat
    BY IdsAssumption
  <2> QED BY <2>1, <2>2, Responses DEF IsFiring
<1>3. \A k \in Nat : k <= n => k <= m
  OBVIOUS
<1>4. \A i \in DOMAIN r : r[i] <= m
  BY <1>1, <1>3 DEF InOrder
<1>5. \A i \in DOMAIN q : IsFiring(q[i], e) => q[i].data <= m
  BY <1>2, <1>3 DEF InOrder
<1> QED BY <1>4, <1>5 DEF InOrder

\* An event fires: its one subscription sends it, or cannot.
LEMMA FireOrder ==
  ASSUME TypeOK, NEW e \in Events, ServerSide(e), InOrder(toClient, received[e], fires[e], e),
         NEW d \in Events, Fire(d)
  PROVE  InOrder(toClient', received'[e], fires'[e], e)
<1> DEFINE s == [i \in 1..subs[d] |-> Response("EventFire", d, fires[d] + 1)]
<1>1. /\ s \in Seq(ClientMessages) /\ DOMAIN s = 1..subs[d]
      /\ toClient' = toClient \o s \/ UNCHANGED toClient
      /\ fires' = [fires EXCEPT ![d] = fires[d] + 1] /\ toClient \in Seq(ClientMessages)
  BY FireMessages DEF TypeOK
<1>2. \A i \in DOMAIN s : s[i].id = d /\ s[i].data = fires[d] + 1
  BY DEF Response
<1>3. UNCHANGED received /\ subs[d] > 0 /\ fires[e] \in Nat
  BY DEF Fire, clientVars, TypeOK
<1>4. received[e] \in Seq(Nat)
  BY ReceivedNumbers
<1> HIDE DEF s
<1>7. CASE UNCHANGED toClient
  <2>1. fires'[e] \in Nat /\ fires[e] <= fires'[e]
    BY <1>1, <1>3 DEF TypeOK
  <2> QED BY <1>3, <1>4, <1>7, <2>1, OrderLater DEF TypeOK
<1>5. CASE d = e /\ toClient' = toClient \o s
  <2>1. subs[d] = 1
    BY <1>3, <1>5 DEF ServerSide
  <2>2. DOMAIN s = {1} /\ s[1].data = fires[e] + 1
    BY <1>1, <1>2, <1>5, <2>1
  <2>3. fires'[e] = fires[e] + 1
    BY <1>1, <1>5 DEF TypeOK
  <2>4. InOrder(toClient \o s, received[e], fires[e] + 1, e)
    BY <1>1, <1>3, <1>4, <2>2, OrderMore
  <2> QED BY <1>3, <1>5, <2>3, <2>4
<1>6. CASE d # e /\ toClient' = toClient \o s
  <2>1. \A i \in DOMAIN s : ~IsFiring(s[i], e)
    BY <1>2, <1>6 DEF IsFiring
  <2>2. fires'[e] = fires[e]
    BY <1>1, <1>6 DEF TypeOK
  <2> QED BY <1>1, <1>3, <2>1, <2>2, OrderOther
<1> QED BY <1>1, <1>5, <1>6, <1>7

\* An answer is sent.
LEMMA AnswerOrder ==
  ASSUME TypeOK, NEW e \in Events, InOrder(toClient, received[e], fires[e], e),
         NEW s \in Seq(ClientMessages), \A i \in DOMAIN s : s[i].type = "Answer",
         toClient' = toClient \o s, UNCHANGED <<received, fires>>
  PROVE  InOrder(toClient', received'[e], fires'[e], e)
<1>1. \A i \in DOMAIN s : ~IsFiring(s[i], e)
  BY DEF IsFiring
<1> QED BY <1>1, OrderOther DEF TypeOK

\* Every step.
LEMMA FiringStep ==
  ASSUME TypeOK, NEW e \in Events, ServerSide(e), InOrder(toClient, received[e], fires[e], e),
         [Next]_vars
  PROVE  InOrder(toClient', received'[e], fires'[e], e)
<1>1. CASE UNCHANGED <<toClient, received, fires>>
  BY <1>1
<1>2. ASSUME NEW h \in Channels, NEW i \in DOMAIN pending[h], UnknownChannel(h, i)
      PROVE  InOrder(toClient', received'[e], fires'[e], e)
  <2> DEFINE s == UnknownAnswer(pending[h][i].id)
  <2>1. toClient' = toClient \o s /\ UNCHANGED <<received, fires>>
    BY <1>2 DEF UnknownChannel, clientVars
  <2>2. s \in Seq(ClientMessages) /\ \A j \in DOMAIN s : s[j].type = "Answer"
    BY UnknownMessages
  <2> HIDE DEF s
  <2> QED BY <2>1, <2>2, AnswerOrder
<1>10. ASSUME NEW c \in Calls, StrandedTimeout(c)
       PROVE  InOrder(toClient', received'[e], fires'[e], e)
  <2> DEFINE s == UnknownAnswer(c)
  <2>1. toClient' = toClient \o s /\ UNCHANGED <<received, fires>>
    BY <1>10 DEF StrandedTimeout, clientVars
  <2>2. s \in Seq(ClientMessages) /\ \A j \in DOMAIN s : s[j].type = "Answer"
    BY UnknownMessages
  <2> HIDE DEF s
  <2> QED BY <2>1, <2>2, AnswerOrder
<1>3. ASSUME NEW c \in Calls, NEW a \in Results, Finish(c, a)
      PROVE  InOrder(toClient', received'[e], fires'[e], e)
  <2> DEFINE s == AnswerOf(c, a)
  <2>1. toClient' = toClient \o s /\ UNCHANGED <<received, fires>>
    BY <1>3 DEF Finish, clientVars
  <2>2. s \in Seq(ClientMessages) /\ \A i \in DOMAIN s : s[i].type = "Answer"
    BY AnswerMessages
  <2> HIDE DEF s
  <2> QED BY <2>1, <2>2, AnswerOrder
<1>4. ASSUME NEW d \in Events, Fire(d)
      PROVE  InOrder(toClient', received'[e], fires'[e], e)
  BY <1>4, FireOrder
<1>5. CASE ReceiveResponse
  BY <1>5, ResponseOrder
<1>6. ClientStep => UNCHANGED <<toClient, received, fires>>
  BY DEF ClientStep, Call, CancelToken, Finally, AddListener, RemoveListener, Woken,
         InitializedCallback, DisposeClient, serverVars
<1>7. ReceiveRequest \/ DisposeServer => UNCHANGED <<toClient, received, fires>>
  BY DEF ReceiveRequest, DisposeServer, clientVars
<1>8. ASSUME NEW h \in Channels, RegisterChannel(h) \/ FlushPendingRequests(h)
      PROVE  UNCHANGED <<toClient, received, fires>>
  BY <1>8 DEF RegisterChannel, FlushPendingRequests, clientVars
<1>9. UNCHANGED vars => UNCHANGED <<toClient, received, fires>>
  BY DEF vars, clientVars, serverVars
<1> QED BY <1>1, <1>2, <1>3, <1>4, <1>5, <1>6, <1>7, <1>8, <1>9, <1>10 DEF Next, ClientStep

\* With the exception of the removals that are missed, a listener is given every
\* firing at most once and in the order of the firings, also when it comes back
\* under the same id while earlier firings are still on their way.
THEOREM FiringsInOrder == Spec => []EventsInOrder
<1>1. Init => FiringInv
  BY DEF Init, FiringInv, InOrder, IsFiring, Initialize, Response
<1>2. TypeOK /\ SubscriptionInv /\ FiringInv /\ [Next]_vars => FiringInv'
  <2> SUFFICES ASSUME TypeOK, SubscriptionInv, FiringInv, [Next]_vars,
                      NEW e \in Events, e \notin missed'
               PROVE  InOrder(toClient', received'[e], fires'[e], e)
    BY DEF FiringInv
  <2>1. e \notin missed
    BY NeverForgotten
  <2>2. ServerSide(e) /\ InOrder(toClient, received[e], fires[e], e)
    BY <2>1 DEF SubscriptionInv, FiringInv
  <2> QED BY <2>2, FiringStep
<1>3. FiringInv => EventsInOrder
  BY DEF FiringInv, InOrder, EventsInOrder
<1> QED BY <1>1, <1>2, <1>3, TypeCorrect, SubscriptionsInvariant, PTL DEF Spec
=============================================================================
