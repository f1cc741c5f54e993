----------------------------- MODULE IpcChannels -----------------------------
(***************************************************************************)
(* ChannelClient and ChannelServer of ipc.ts: promise calls and event      *)
(* subscriptions multiplexed by request id over one message protocol.  The *)
(* protocol is what ReliableChannel promises: two FIFO streams.  A request *)
(* is named by the id requestPromise or requestEvent allocates for it (an  *)
(* event keeps its id when its last listener leaves and another one comes);*)
(* arguments and results are abstracted to the result's kind, and events   *)
(* are numbered in the order in which they fire.                           *)
(***************************************************************************)
EXTENDS Naturals, Sequences, FiniteSets, SequencesExt

CONSTANTS Calls,       \* the ids of promise requests
          Events,      \* the ids of event requests
          Channels,    \* channel names
          ChannelOf,   \* the channel each request is addressed to
          MaxListens,  \* bound: how often an event gets a first listener
          MaxFires     \* bound: how often an event fires on the server

Requests == Calls \cup Events

ASSUME IdsAssumption ==
    /\ Calls \cap Events = {}
    /\ ChannelOf \in [Requests -> Channels]
    /\ MaxListens \in Nat /\ MaxFires \in Nat

VARIABLES
  \* ChannelClient
    state,       \* "Uninitialized" or "Idle"
    disposed,    \* isDisposed
    promise,     \* the promise a call returned: "none" before the call, "open",
                 \* an answer, or the reason why it was rejected without one
    waiting,     \* requests whose uninitializedPromise waits for Initialize
    ready,       \* those whose uninitializedPromise is fulfilled, callback queued
    stray,       \* queued callbacks of requests that were cancelled while ready
    handlers,    \* the ids in the map of response handlers
    tracked,     \* activeRequests
    token,       \* calls whose cancellation token has been cancelled
    listening,   \* events whose emitter has a listener
    listens,     \* how often each event got a first listener
    received,    \* the numbers of the event firings its listener was given
  \* the protocol
    toServer, toClient,
  \* ChannelServer
    channels,    \* the registered channels
    flushes,     \* channels whose flushPendingRequests is scheduled
    active,      \* the keys of activeRequests
    pending,     \* pendingRequests: per channel, requests with their timer
    stranded,    \* calls that a flush left behind with their timer armed
    execution,   \* what happened to a call: "none", "running" or its answer
    subs,        \* live subscriptions per event (the map knows one at most)
    fires,       \* how often each event has fired
    closed,      \* dispose() was called
  \* history
    missed,      \* events one of whose removals never reached a subscription
    refused      \* events whose subscription channel.listen() has refused

clientVars == <<state, disposed, promise, waiting, ready, stray, handlers,
                tracked, token, listening, listens, received>>
serverVars == <<channels, flushes, active, pending, stranded, execution, subs,
                fires, closed>>
history == <<missed, refused>>
vars == <<clientVars, toServer, toClient, serverVars, history>>

Answers == {"ok", "error"}
Request(type, r) == [type |-> type, id |-> r]
Response(type, r, d) == [type |-> type, id |-> r, data |-> d]
Initialize == Response("Initialize", "none", "none")

Init ==
    /\ state = "Uninitialized" /\ disposed = FALSE
    /\ promise = [c \in Calls |-> "none"]
    /\ waiting = {} /\ ready = {} /\ stray = {}
    /\ handlers = {} /\ tracked = {} /\ token = {}
    /\ listening = {} /\ listens = [e \in Events |-> 0]
    /\ received = [e \in Events |-> <<>>]
    /\ toServer = <<>> /\ toClient = <<Initialize>>
    /\ channels = {} /\ flushes = {} /\ active = {}
    /\ pending = [h \in Channels |-> <<>>] /\ stranded = {}
    /\ execution = [c \in Calls |-> "none"]
    /\ subs = [e \in Events |-> 0] /\ fires = [e \in Events |-> 0]
    /\ closed = FALSE
    /\ missed = {} /\ refused = {}
-----------------------------------------------------------------------------
(* ChannelClient.                                                            *)

SettleAgain(c, outcome) == [promise EXCEPT ![c] = outcome]

\* c, e: only the first settlement of a promise counts.
Settle(c, outcome) ==
    [promise EXCEPT ![c] = IF @ = "open" THEN outcome ELSE @]

\* doRequest of a call, now or once Initialize has been seen.  Serializing the
\* argument may throw: nothing is sent then and the handler is taken back.
DoCall(c, promises) ==
    \/ /\ handlers' = handlers \cup {c}
       /\ toServer' = Append(toServer, Request("Promise", c))
       /\ promise' = promises
    \/ /\ promise' = [promises EXCEPT ![c] = IF @ = "open" THEN "unsent" ELSE @]
       /\ UNCHANGED <<handlers, toServer>>

\* doRequest of an event.
DoListen(e) ==
    /\ tracked' = tracked \cup {e}
    /\ toServer' = Append(toServer, Request("EventListen", e))

\* IChannel.call and requestPromise.
Call(c) ==
    /\ promise[c] = "none"
    /\ \/ /\ disposed \/ c \in token
          /\ promise' = [promise EXCEPT ![c] = "cancelled"]
          /\ UNCHANGED <<waiting, handlers, tracked, toServer>>
       \/ /\ ~disposed /\ c \notin token
          /\ tracked' = tracked \cup {c}
          /\ LET opened == [promise EXCEPT ![c] = "open"]
             IN \/ /\ state = "Idle"
                   /\ DoCall(c, opened)
                   /\ UNCHANGED waiting
                \/ /\ state = "Uninitialized"
                   /\ waiting' = waiting \cup {c}
                   /\ promise' = opened
                   /\ UNCHANGED <<handlers, toServer>>
    /\ UNCHANGED <<state, disposed, ready, stray, token, listening, listens,
                   received, toClient, serverVars, history>>

\* requestEvent's emitter gets its first listener (onWillAddFirstListener).
\* Once disposed, listen() returns Event.None.
AddListener(e) ==
    /\ ~disposed
    /\ e \notin listening /\ listens[e] < MaxListens
    /\ listening' = listening \cup {e}
    /\ listens' = [listens EXCEPT ![e] = @ + 1]
    /\ handlers' = handlers \cup {e}
    /\ \/ /\ state = "Idle"
          /\ DoListen(e)
          /\ UNCHANGED waiting
       \/ /\ state = "Uninitialized"
          /\ waiting' = waiting \cup {e}
          /\ UNCHANGED <<tracked, toServer>>
    /\ UNCHANGED <<state, disposed, promise, ready, stray, token, received,
                   toClient, serverVars, history>>

\* createCancelablePromise(whenInitialized) is fulfilled: from here on its
\* cancel() comes too late, the callback passed to then() is queued.
Woken(r) ==
    /\ r \in waiting /\ state = "Idle"
    /\ waiting' = waiting \ {r}
    /\ ready' = ready \cup {r}
    /\ UNCHANGED <<state, disposed, promise, stray, handlers, tracked, token,
                   listening, listens, received, toServer, toClient,
                   serverVars, history>>

\* The callback: doRequest(), whether or not the request was cancelled since.
InitializedCallback(r) ==
    /\ \/ r \in ready /\ ready' = ready \ {r} /\ UNCHANGED stray
       \/ r \in stray /\ stray' = stray \ {r} /\ UNCHANGED ready
    /\ \/ r \in Calls /\ DoCall(r, promise) /\ UNCHANGED tracked
       \/ r \in Events /\ DoListen(r) /\ UNCHANGED <<promise, handlers>>
    /\ UNCHANGED <<state, disposed, waiting, token, listening, listens,
                   received, toClient, serverVars, history>>

\* Taking back the requests R: those that still wait are dropped, those whose
\* callback is queued are not stopped by that, and the server is told to drop
\* the others.
TakeBack(R) ==
    LET told == R \ (waiting \cup ready)
        messages == {Request(IF r \in Calls THEN "PromiseCancel" ELSE "EventDispose", r) :
                        r \in told}
    IN /\ waiting' = waiting \ R
       /\ ready' = ready \ R
       /\ stray' = stray \cup (ready \cap R)
       /\ toServer' = toServer \o SetToSeq(messages)
       /\ missed' = missed \cup (ready \cap R \cap Events)

\* cancel() of every call in C.
Cancelled(C) ==
    promise' = [c \in Calls |->
                  IF c \in C /\ promise[c] = "open" THEN "cancelled" ELSE promise[c]]

\* The caller's cancellation token; requestPromise listens to it until the
\* finally() of the promise has run.
CancelToken(c) ==
    /\ c \notin token
    /\ token' = token \cup {c}
    /\ IF c \in tracked
       THEN TakeBack({c}) /\ Cancelled({c})
       ELSE UNCHANGED <<waiting, ready, stray, toServer, missed, promise>>
    /\ UNCHANGED <<state, disposed, handlers, tracked, listening, listens,
                   received, toClient, serverVars, refused>>

\* finally(): a microtask after the promise was settled.
Finally(c) ==
    /\ c \in tracked /\ promise[c] # "open"
    /\ tracked' = tracked \ {c}
    /\ UNCHANGED <<state, disposed, promise, waiting, ready, stray, handlers,
                   token, listening, listens, received, toServer, toClient,
                   serverVars, history>>

\* onDidRemoveLastListener.
RemoveListener(e) ==
    /\ e \in listening
    /\ listening' = listening \ {e}
    /\ handlers' = handlers \ {e}
    /\ tracked' = IF e \in waiting \cup ready THEN tracked ELSE tracked \ {e}
    /\ TakeBack({e})
    /\ UNCHANGED <<state, disposed, promise, token, listens, received,
                   toClient, serverVars, refused>>

\* dispose(): every tracked request is disposed (an emitter by running its
\* onDidRemoveLastListener) and no further message is read.
DisposeClient ==
    /\ ~disposed
    /\ disposed' = TRUE
    /\ TakeBack(tracked)
    /\ Cancelled(tracked)
    /\ listening' = listening \ tracked
    /\ handlers' = handlers \ (tracked \cap Events)
    /\ tracked' = {}
    /\ UNCHANGED <<state, token, listens, received, toClient, serverVars, refused>>

KeepHandler(c) == handlers

\* The answer to a call removes its handler.
RemoveHandler(c) == handlers \ {c}

\* onBuffer and onResponse.
ReceiveResponse ==
    /\ toClient # <<>> /\ ~disposed
    /\ toClient' = Tail(toClient)
    /\ LET m == Head(toClient)
       IN \/ /\ m.type = "Initialize"
             /\ state' = "Idle"
             /\ UNCHANGED <<promise, handlers, received>>
          \/ /\ m.type = "Answer" /\ m.id \in handlers
             /\ handlers' = RemoveHandler(m.id)
             /\ promise' = Settle(m.id, m.data)
             /\ UNCHANGED <<state, received>>
          \/ /\ m.type = "EventFire" /\ m.id \in handlers
             /\ received' = [received EXCEPT ![m.id] = Append(@, m.data)]
             /\ UNCHANGED <<state, promise, handlers>>
          \/ /\ m.type # "Initialize" /\ m.id \notin handlers
             /\ UNCHANGED <<state, promise, handlers, received>>
    /\ UNCHANGED <<disposed, waiting, ready, stray, tracked, token, listening,
                   listens, toServer, serverVars, history>>
-----------------------------------------------------------------------------
(* ChannelServer.                                                            *)

\* registerChannel: requests are served from now on, older ones by the
\* flush that setTimeout(0) schedules.
RegisterChannel(h) ==
    /\ h \notin channels
    /\ channels' = channels \cup {h}
    /\ flushes' = flushes \cup {h}
    /\ UNCHANGED <<clientVars, toServer, toClient, active, pending, stranded,
                   execution, subs, fires, closed, history>>

ActiveCallsOnly(rs) == active \cup (ToSet(rs) \cap Calls)

\* A request that is served can be taken back.
ActiveAfter(rs) == active \cup ToSet(rs)

\* onPromise and onEventListen of the requests in rs, for known channels.
Serve(rs) ==
    /\ execution' = [c \in Calls |->
                        IF \E i \in DOMAIN rs : rs[i] = c THEN "running" ELSE execution[c]]
    /\ subs' = [e \in Events |-> subs[e] + Cardinality({i \in DOMAIN rs : rs[i] = e})]
    /\ active' = ActiveAfter(rs)

Collected(h) == [i \in DOMAIN pending[h] |-> pending[h][i].id]

\* flushPendingRequests: the collected requests are served, also those whose
\* timer has already reported the channel as unknown; all n of them, or the first
\* n and then comes a subscription that is refused.  The exception ends the loop:
\* the calls behind it wait for their timers, the subscriptions for nothing.
FlushPendingRequests(h) ==
    /\ h \in flushes
    /\ flushes' = flushes \ {h}
    /\ pending' = [pending EXCEPT ![h] = <<>>]
    /\ \E n \in 0..Len(pending[h]) :
        LET behind == (n + 1)..Len(pending[h])
        IN /\ behind # {} => Collected(h)[n + 1] \in Events
           /\ Serve(SubSeq(Collected(h), 1, n))
           /\ refused' = refused \cup {e \in Events : \E i \in behind : Collected(h)[i] = e}
           /\ stranded' = stranded \cup
                {c \in Calls : \E i \in behind : pending[h][i] = [id |-> c, timer |-> "armed"]}
    /\ UNCHANGED <<clientVars, toServer, toClient, channels, fires, closed, missed>>

\* collectPendingRequest.
Collect(r) ==
    pending' = [pending EXCEPT ![ChannelOf[r]] = Append(@, [id |-> r, timer |-> "armed"])]

StillSubscribed(R) == subs

\* Disposing the subscriptions of the events in R that activeRequests holds.
Unsubscribed(R) == [e \in Events |-> IF e \in R THEN subs[e] - 1 ELSE subs[e]]

IsCollected(r) == \E i \in DOMAIN pending[ChannelOf[r]] : pending[ChannelOf[r]][i].id = r

AnyRequest(r) == {r}
Disposable(r) == active \cap {r}

\* disposeActiveRequest: only what is in activeRequests can be taken back.  The
\* token of a call is cancelled, which its implementation is free to ignore.
DisposeActiveRequest(r) ==
    /\ subs' = Unsubscribed(Disposable(r))
    /\ active' = active \ {r}
    /\ missed' = IF r \in Events /\ IsCollected(r) THEN missed \cup {r} ELSE missed
    /\ refused' = refused \ {r}

\* onRawMessage.  channel.listen() may throw: there is no subscription then, and
\* nobody is told.
ReceiveRequest ==
    /\ toServer # <<>> /\ ~closed
    /\ toServer' = Tail(toServer)
    /\ LET m == Head(toServer)
       IN \/ /\ m.type \in {"Promise", "EventListen"}
             /\ ChannelOf[m.id] \in channels
             /\ Serve(<<m.id>>)
             /\ refused' = refused \ {m.id}
             /\ UNCHANGED <<pending, missed>>
          \/ /\ m.type = "EventListen"
             /\ ChannelOf[m.id] \in channels
             /\ refused' = refused \cup {m.id}
             /\ UNCHANGED <<active, execution, subs, pending, missed>>
          \/ /\ m.type \in {"Promise", "EventListen"}
             /\ ChannelOf[m.id] \notin channels
             /\ Collect(m.id)
             /\ UNCHANGED <<active, execution, subs, history>>
          \/ /\ m.type \in {"PromiseCancel", "EventDispose"}
             /\ DisposeActiveRequest(m.id)
             /\ UNCHANGED <<pending, execution>>
    /\ UNCHANGED <<clientVars, toClient, channels, flushes, stranded, fires, closed>>

NoAnswer(r) == <<>>

\* A call is answered by an error; there is no answer to a subscription.
UnknownAnswer(r) == IF r \in Calls THEN <<Response("Answer", r, "unknown")>> ELSE <<>>

RemovedFromPending(h, i) == RemoveAt(pending[h], i)

\* The request itself stays where it is.
PendingAfterTimeout(h, i) == [pending[h] EXCEPT ![i].timer = "fired"]

\* The timer of a collected request fires.
UnknownChannel(h, i) ==
    /\ i \in DOMAIN pending[h] /\ pending[h][i].timer = "armed"
    /\ pending' = [pending EXCEPT ![h] = PendingAfterTimeout(h, i)]
    /\ toClient' = toClient \o UnknownAnswer(pending[h][i].id)
    /\ UNCHANGED <<clientVars, toServer, channels, flushes, active, stranded,
                   execution, subs, fires, closed, history>>

\* So does the timer of a call that was left behind.
StrandedTimeout(c) ==
    /\ c \in stranded
    /\ stranded' = stranded \ {c}
    /\ toClient' = toClient \o UnknownAnswer(c)
    /\ UNCHANGED <<clientVars, toServer, channels, flushes, active, pending,
                   execution, subs, fires, closed, history>>

\* What an execution results in: an answer, or a value that serialize() throws on,
\* for which no answer is sent.
Results == Answers \cup {"unserializable"}
AnswerOf(c, a) == IF a \in Answers THEN <<Response("Answer", c, a)>> ELSE <<>>

\* The promise of channel.call settles: the answer is sent, unless sendResponse
\* throws, and finally() forgets the request in any case.
Finish(c, a) ==
    /\ execution[c] = "running"
    /\ execution' = [execution EXCEPT ![c] = a]
    /\ toClient' = toClient \o AnswerOf(c, a)
    /\ active' = active \ {c}
    /\ UNCHANGED <<clientVars, toServer, channels, flushes, pending, stranded,
                   subs, fires, closed, history>>

\* The event fires: every live subscription sends an EventFire, or none does
\* because the value cannot be serialized.
Fire(e) ==
    /\ subs[e] > 0 /\ fires[e] < MaxFires
    /\ fires' = [fires EXCEPT ![e] = @ + 1]
    /\ \/ toClient' = toClient \o [i \in 1..subs[e] |-> Response("EventFire", e, fires'[e])]
       \/ UNCHANGED toClient
    /\ UNCHANGED <<clientVars, toServer, channels, flushes, active, pending,
                   stranded, execution, subs, closed, history>>

\* dispose(): collected requests, their timers and a scheduled flush survive.
DisposeServer ==
    /\ ~closed
    /\ closed' = TRUE
    /\ subs' = Unsubscribed(active)
    /\ active' = {}
    /\ UNCHANGED <<clientVars, toServer, toClient, channels, flushes, pending,
                   stranded, execution, fires, history>>
-----------------------------------------------------------------------------
Next ==
    \/ \E c \in Calls : Call(c) \/ CancelToken(c) \/ Finally(c) \/ StrandedTimeout(c)
    \/ \E e \in Events : AddListener(e) \/ RemoveListener(e) \/ Fire(e)
    \/ \E r \in Requests : Woken(r) \/ InitializedCallback(r)
    \/ DisposeClient \/ ReceiveResponse
    \/ \E h \in Channels : RegisterChannel(h) \/ FlushPendingRequests(h)
    \/ \E h \in Channels : \E i \in DOMAIN pending[h] : UnknownChannel(h, i)
    \/ \E c \in Calls, a \in Results : Finish(c, a)
    \/ ReceiveRequest \/ DisposeServer

Spec == Init /\ [][Next]_vars

\* The event loops run (messages, microtasks and timers are served) and the
\* implementation of a channel settles every call it was given.
Fairness ==
    /\ WF_vars(ReceiveResponse) /\ WF_vars(ReceiveRequest)
    /\ \A r \in Requests : WF_vars(Woken(r)) /\ WF_vars(InitializedCallback(r))
    /\ \A h \in Channels :
          /\ WF_vars(FlushPendingRequests(h))
          /\ WF_vars(\E i \in DOMAIN pending[h] : UnknownChannel(h, i))
    /\ \A c \in Calls : WF_vars(StrandedTimeout(c)) /\ WF_vars(\E a \in Results : Finish(c, a))

FairSpec == Spec /\ Fairness
-----------------------------------------------------------------------------
(* Properties.                                                               *)

ServerMessages ==
    [type : {"Promise", "PromiseCancel"}, id : Calls]
        \cup [type : {"EventListen", "EventDispose"}, id : Events]

ClientMessages ==
    {Initialize} \cup [type : {"Answer"}, id : Calls, data : Answers \cup {"unknown"}]
        \cup [type : {"EventFire"}, id : Events, data : 1..MaxFires]

PendingRequests == [id : Requests, timer : {"armed", "fired"}]

\* Type correctness of both ends and of the two streams: requests of calls and of
\* events do not mix, each is collected for its own channel, finitely many are
\* tracked, and what can be taken back was served.
TypeOK ==
    /\ state \in {"Uninitialized", "Idle"} /\ disposed \in BOOLEAN
    /\ promise \in [Calls -> {"none", "open", "cancelled", "unsent", "unknown"} \cup Answers]
    /\ waiting \subseteq Requests /\ ready \subseteq Requests /\ stray \subseteq Requests
    /\ handlers \subseteq Requests /\ tracked \subseteq Requests /\ IsFiniteSet(tracked)
    /\ token \subseteq Calls /\ listening \subseteq Events
    /\ listens \in [Events -> 0..MaxListens]
    /\ received \in [Events -> Seq(1..MaxFires)]
    /\ toServer \in Seq(ServerMessages) /\ toClient \in Seq(ClientMessages)
    /\ channels \subseteq Channels /\ flushes \subseteq channels
    /\ active \subseteq Requests
    /\ pending \in [Channels -> Seq(PendingRequests)]
    /\ \A h \in Channels : \A i \in DOMAIN pending[h] : ChannelOf[pending[h][i].id] = h
    /\ execution \in [Calls -> {"none", "running"} \cup Results]
    /\ subs \in [Events -> Nat] /\ \A e \in active \cap Events : subs[e] > 0
    /\ fires \in [Events -> 0..MaxFires]
    /\ closed \in BOOLEAN /\ stranded \subseteq Calls
    /\ missed \subseteq Events /\ refused \subseteq Events

\* A call is executed at most once and answered by that execution only, also
\* when its channel is registered late and it is answered a second time after
\* the time-out, and whatever is cancelled or disposed meanwhile.
RC == INSTANCE RemoteCalls WITH outcome <- promise, ran <- execution
ImplementsCalls == RC!RcSafety

InFlight(stream, type, r) ==
    \E i \in DOMAIN stream : stream[i].type = type /\ stream[i].id = r

\* An answer to c is on its way or is still going to be sent.
WillBeAnswered(c) ==
    \/ InFlight(toServer, "Promise", c) \/ InFlight(toClient, "Answer", c)
    \/ execution[c] = "running" \/ c \in stranded
    \/ \E i \in DOMAIN pending[ChannelOf[c]] :
          pending[ChannelOf[c]][i] = [id |-> c, timer |-> "armed"]

\* The call was executed, but sendResponse threw on what it returned (ipc.ts:435-449).
Unanswered(c) == execution[c] = "unserializable"

\* A response handler never outlives the last message that could remove it:
\* cancelling leaves the handler in place, so an answer must still come.  The
\* exception is a call whose result cannot be serialized: it is not answered.
NoHandlerLeak ==
    ~closed => \A c \in handlers \cap Calls : WillBeAnswered(c) \/ Unanswered(c)

\* Nothing about e is in flight, queued or collected.
Quiet(e) ==
    /\ e \notin waiting \cup ready \cup stray
    /\ ~IsCollected(e)
    /\ \A i \in DOMAIN toServer : toServer[i].id # e

\* Once the two ends have caught up the server holds exactly one subscription
\* for an event with listeners and none for the others.  The exception is an
\* event in `missed': the removal of a listener does not reach a request that
\* is collected for an unknown channel, nor one whose callback is queued.  An
\* event that listen() refused has no subscription until a listener comes again.
SubscriptionsMatch ==
    ~closed => \A e \in Events \ missed :
        Quiet(e) => subs[e] = IF e \in listening \ refused THEN 1 ELSE 0

\* With the exception of `missed' a listener is given every firing at most once and
\* in order, although the id is used again when it comes back.
EventsInOrder ==
    \A e \in Events \ missed :
        \A i, j \in DOMAIN received[e] : i < j => received[e][i] < received[e][j]

\* Every promise is settled: by the answer, by the time-out for an unknown
\* channel, or by dispose(), unless the server goes away or the result of the
\* call cannot be serialized.
CallsSettle ==
    \A c \in Calls : promise[c] = "open" ~> promise[c] # "open" \/ closed \/ Unanswered(c)

\* A listener that stays and is not refused is subscribed once its channel is
\* registered, however long after the time-out that is.
ListenersServed ==
    \A e \in Events :
        <>[](e \in listening /\ ChannelOf[e] \in channels /\ ~disposed /\ ~closed
                /\ e \notin refused)
            => <>(subs[e] > 0)
=============================================================================
