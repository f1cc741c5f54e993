------------------------- MODULE SharedStorageProofs -------------------------
(***************************************************************************)
(* SharedStorage for any windows, keys and values, however their messages  *)
(* interleave: updates stay partial and contents total, so that no flush   *)
(* takes a key that is not pending for one that is deleted; no write is    *)
(* lost on its way to SQLite; close() leaves nothing behind; and windows   *)
(* agree with the main process when nothing is under way.                  *)
(***************************************************************************)
EXTENDS SharedStorage, TLAPS

\* Applying an update to the contents of a store gives contents of a store.
LEMMA OverlayContents ==
  ASSUME NEW c \in Contents, NEW u \in Updates
  PROVE  Overlay(c, u) \in Contents
BY StorageAssumption DEF Overlay, Contents, Updates

\* A later update on top of an earlier one is an update.
LEMMA OverlayUpdates ==
  ASSUME NEW c \in Updates, NEW u \in Updates
  PROVE  Overlay(c, u) \in Updates
BY StorageAssumption DEF Overlay, Updates

\* What set() and delete() accept of an update is an update.
LEMMA AcceptedUpdates ==
  ASSUME NEW s, NEW u \in Updates
  PROVE  Accepted(s, u) \in Updates
BY DEF Accepted, Changed, Updates

\* An update may be empty.
LEMMA NoUpdateIsUpdate == NoUpdate \in Updates
BY DEF NoUpdate, Updates

\* Set and updateItems: the cache and the pending updates.
LEMMA StoreTypes ==
  ASSUME TypeOK, NEW s \in Storages, NEW u \in Updates, Store(s, u)
  PROVE  /\ cache' \in [Storages -> Contents]
         /\ pending' \in [Storages -> Updates]
         /\ timer' \in [Storages -> BOOLEAN]
         /\ due' \subseteq Keys
<1>1. /\ Overlay(cache[s], Accepted(s, u)) \in Contents
      /\ Overlay(pending[s], Accepted(s, u)) \in Updates
  BY AcceptedUpdates, OverlayContents, OverlayUpdates DEF TypeOK
<1>2. Changed(s, u) \subseteq Keys
  BY DEF Changed
<1>3. cache' \in [Storages -> Contents] /\ pending' \in [Storages -> Updates]
  BY <1>1 DEF Store, TypeOK
<1>4. timer' \in [Storages -> BOOLEAN]
  <2>1. (timer[s] \/ Changed(s, u) # {}) \in BOOLEAN
    OBVIOUS
  <2> QED BY <2>1 DEF Store, TypeOK
<1>5. due' \subseteq Keys
  BY <1>2 DEF Store, TypeOK
<1> QED BY <1>3, <1>4, <1>5

\* A message to the main process.
LEMMA PostTypes ==
  ASSUME TypeOK, NEW w \in Windows, NEW m \in ToMainMessages, Post(w, m)
  PROVE  toMain' \in [Windows -> Seq(ToMainMessages)]
<1>1. Append(toMain[w], m) \in Seq(ToMainMessages)
  BY DEF TypeOK
<1> QED BY <1>1 DEF Post, TypeOK

\* An answer to a window.
LEMMA AnswerTypes ==
  ASSUME TypeOK, NEW w \in Windows, NEW m \in ToWindowMessages, Answer(w, m)
  PROVE  toWindow' \in [Windows -> Seq(ToWindowMessages)]
<1>1. Append(toWindow[w], m) \in Seq(ToWindowMessages)
  BY DEF TypeOK
<1> QED BY <1>1 DEF Answer, TypeOK

\* flushPending.
LEMMA StartFlushTypes ==
  ASSUME TypeOK, NEW s \in Storages, StartFlush(s)
  PROVE  /\ running' \in [Storages -> Updates] /\ pending' \in [Storages -> Updates]
         /\ toMain' \in [Windows -> Seq(ToMainMessages)]
<1>1. pending[s] \in Updates /\ ResetPending(s) \in Updates
  BY NoUpdateIsUpdate DEF TypeOK, ResetPending
<1>2. running' \in [Storages -> Updates] /\ pending' \in [Storages -> Updates]
  BY <1>1 DEF StartFlush, TypeOK
<1>3. CASE s = Main \/ pending[s] = NoUpdate
  BY <1>2, <1>3 DEF StartFlush, TypeOK
<1>4. CASE ~(s = Main \/ pending[s] = NoUpdate)
  <2>1. s \in Windows
    BY <1>4 DEF Storages
  <2>2. [type |-> "updateItems", items |-> pending[s]] \in ToMainMessages
    BY <1>1 DEF ToMainMessages
  <2>3. Post(s, [type |-> "updateItems", items |-> pending[s]])
    BY <1>4 DEF StartFlush
  <2> QED BY <1>2, <2>1, <2>2, <2>3, PostTypes
<1> QED BY <1>3, <1>4

ClosingStates == {"no", "timer", "active", "queued", "requeued", "flushed", "hung", "done"}

\* The end of an update, with the flush that may follow.
LEMMA UpdateDoneTypes ==
  ASSUME TypeOK, NEW s \in Storages, NEW succeeded \in BOOLEAN, UpdateDone(s, succeeded)
  PROVE  /\ running' \in [Storages -> Updates] /\ pending' \in [Storages -> Updates]
         /\ toMain' \in [Windows -> Seq(ToMainMessages)]
         /\ queued' \in [Storages -> BOOLEAN]
         /\ closing' \in [Storages -> ClosingStates]
<1>1. ClosingAfter(s, succeeded) \in ClosingStates
  BY DEF ClosingAfter, ClosingStates, TypeOK
<1>2. closing' \in [Storages -> ClosingStates] /\ queued' \in [Storages -> BOOLEAN]
  BY <1>1 DEF UpdateDone, TypeOK, ClosingStates
<1>3. CASE queued[s]
  BY <1>2, <1>3, StartFlushTypes DEF UpdateDone
<1>4. CASE ~queued[s]
  BY <1>2, <1>4, NoUpdateIsUpdate DEF UpdateDone, TypeOK
<1> QED BY <1>3, <1>4
-----------------------------------------------------------------------------
\* A main process with an empty store, and no window.
LEMMA Initially == Init => TypeOK
<1> SUFFICES ASSUME Init PROVE TypeOK
  OBVIOUS
<1>1. [k \in Keys |-> Absent] \in Contents /\ NoUpdate \in Updates
  BY NoUpdateIsUpdate DEF Contents
<1>2. /\ toMain \in [Windows -> Seq(ToMainMessages)]
      /\ toWindow \in [Windows -> Seq(ToWindowMessages)]
  BY DEF Init
<1>3. cache \in [Storages -> Contents] /\ db \in Contents
  BY <1>1 DEF Init
<1>4. pending \in [Storages -> Updates] /\ running \in [Storages -> Updates]
  BY <1>1 DEF Init
<1>5. /\ state \in [Storages -> {"none", "loading", "open", "closed"}]
      /\ timer \in [Storages -> BOOLEAN] /\ queued \in [Storages -> BOOLEAN]
      /\ closing \in [Storages -> ClosingStates]
  BY DEF Init, ClosingStates
<1>6. subscribed \subseteq Windows /\ due \subseteq Keys /\ erroneous \in BOOLEAN
  BY DEF Init
<1>7. writes \in 0..MaxWrites /\ failures \in 0..MaxFailures
  <2>1. MaxWrites \in Nat /\ MaxFailures \in Nat /\ writes = 0 /\ failures = 0
    BY StorageAssumption DEF Init
  <2> QED BY <2>1
<1> QED BY <1>2, <1>3, <1>4, <1>5, <1>6, <1>7 DEF TypeOK, ClosingStates

\* set() and delete() in a window or in the main process.
LEMMA SetStep ==
  ASSUME TypeOK, NEW s \in Storages, NEW k \in Keys, NEW v \in Values \cup {Absent}, Set(s, k, v)
  PROVE  TypeOK'
<1>1. [NoUpdate EXCEPT ![k] = v] \in Updates
  BY NoUpdateIsUpdate DEF Updates, NoUpdate
<1>2. /\ cache' \in [Storages -> Contents] /\ pending' \in [Storages -> Updates]
      /\ timer' \in [Storages -> BOOLEAN] /\ due' \subseteq Keys
  BY <1>1, StoreTypes DEF Set
<1>3. writes' \in 0..MaxWrites
  BY StorageAssumption DEF Set, TypeOK
<1> QED BY <1>2, <1>3 DEF Set, TypeOK

\* The flush timer, with and without a flush under way.
LEMMA TimerStep ==
  ASSUME TypeOK, NEW s \in Storages, TimerFires(s)
  PROVE  TypeOK'
<1>1. timer' \in [Storages -> BOOLEAN]
  BY DEF TimerFires, TypeOK
<1>2. CASE running[s] # NoUpdate
  <2>1. queued' \in [Storages -> BOOLEAN] /\ closing' \in [Storages -> ClosingStates]
    BY <1>2 DEF TimerFires, QueueFlush, TypeOK, ClosingStates
  <2> QED BY <1>1, <1>2, <2>1 DEF TimerFires, TypeOK, ClosingStates
<1>3. CASE running[s] = NoUpdate
  <2>1. /\ running' \in [Storages -> Updates] /\ pending' \in [Storages -> Updates]
        /\ toMain' \in [Windows -> Seq(ToMainMessages)]
    BY <1>3, StartFlushTypes DEF TimerFires
  <2>2. closing' \in [Storages -> ClosingStates]
    BY <1>3 DEF TimerFires, TypeOK, ClosingStates
  <2> QED BY <1>1, <1>3, <2>1, <2>2 DEF TimerFires, TypeOK, ClosingStates
<1> QED BY <1>2, <1>3

\* doClose up to its flush.
LEMMA CloseStep ==
  ASSUME TypeOK, NEW s \in Storages, Close(s)
  PROVE  TypeOK'
BY DEF Close, TypeOK

\* database.close(), with SQLite's recovery from the cache.
LEMMA CloseDatabaseStep ==
  ASSUME TypeOK, NEW s \in Storages, CloseDatabase(s)
  PROVE  TypeOK'
<1>1. Recovered \in Contents
  BY DEF Recovered, TypeOK, Storages
<1> QED BY <1>1 DEF CloseDatabase, TypeOK

\* A window opens.
LEMMA OpenStep ==
  ASSUME TypeOK, NEW w \in Windows, Open(w)
  PROVE  TypeOK'
<1>1. OpeningRequests \in Seq(ToMainMessages)
  BY DEF OpeningRequests, ToMainMessages
<1> QED BY <1>1 DEF Open, TypeOK, Storages

\* The three kinds of messages a window is sent.
LEMMA WindowReceivesStep ==
  ASSUME TypeOK, NEW w \in Windows, WindowReceives(w)
  PROVE  TypeOK'
<1> DEFINE m == Head(toWindow[w])
<1>1. m \in ToWindowMessages /\ Tail(toWindow[w]) \in Seq(ToWindowMessages)
  BY DEF WindowReceives, TypeOK
<1>2. toWindow' \in [Windows -> Seq(ToWindowMessages)]
  BY <1>1 DEF WindowReceives, TypeOK
<1>3. w \in Storages
  BY DEF Storages
<1>4. CASE m.type = "items"
  <2>1. m.items \in Contents
    BY <1>1, <1>4 DEF ToWindowMessages
  <2> QED BY <1>2, <1>3, <1>4, <2>1 DEF WindowReceives, TypeOK
<1>5. CASE m.type = "changed"
  <2>1. m.items \in Updates
    BY <1>1, <1>5 DEF ToWindowMessages
  <2>2. AcceptExternal(w, m.items) \in Contents
    BY <1>3, <2>1, OverlayContents DEF AcceptExternal, TypeOK
  <2> QED BY <1>2, <1>3, <1>5, <2>2 DEF WindowReceives, TypeOK
<1>6. CASE m.type = "updated"
  <2>1. /\ running' \in [Storages -> Updates] /\ pending' \in [Storages -> Updates]
        /\ toMain' \in [Windows -> Seq(ToMainMessages)]
        /\ queued' \in [Storages -> BOOLEAN]
        /\ closing' \in [Storages -> ClosingStates]
    BY <1>3, <1>6, UpdateDoneTypes DEF WindowReceives
  <2> QED BY <1>2, <1>6, <2>1 DEF WindowReceives, TypeOK, ClosingStates
<1> QED BY <1>4, <1>5, <1>6 DEF WindowReceives

\* The three kinds of requests of a window.
LEMMA MainReceivesStep ==
  ASSUME TypeOK, NEW w \in Windows, MainReceives(w)
  PROVE  TypeOK'
<1> DEFINE m == Head(toMain[w])
<1>1. m \in ToMainMessages /\ Tail(toMain[w]) \in Seq(ToMainMessages)
  BY DEF MainReceives, TypeOK
<1>2. toMain' \in [Windows -> Seq(ToMainMessages)]
  BY <1>1 DEF MainReceives, TypeOK
<1>3. Main \in Storages
  BY DEF Storages
<1>4. CASE m.type = "listen"
  BY <1>2, <1>4 DEF MainReceives, TypeOK
<1>5. CASE m.type = "getItems"
  <2>1. [type |-> "items", items |-> cache[Main]] \in ToWindowMessages
    BY <1>3 DEF ToWindowMessages, TypeOK
  <2>2. toWindow' \in [Windows -> Seq(ToWindowMessages)]
    BY <1>5, <2>1, AnswerTypes DEF MainReceives
  <2> QED BY <1>2, <1>5, <2>2 DEF MainReceives, TypeOK
<1>6. CASE m.type = "updateItems"
  <2>1. m.items \in Updates
    BY <1>1, <1>6 DEF ToMainMessages
  <2>2. [type |-> "updated"] \in ToWindowMessages
    BY DEF ToWindowMessages
  <2>3. Store(Main, m.items) /\ Answer(w, [type |-> "updated"]) /\ subscribed' = subscribed
    BY <1>6 DEF MainReceives
  <2>4. toWindow' \in [Windows -> Seq(ToWindowMessages)]
    BY <2>2, <2>3, AnswerTypes
  <2>5. /\ cache' \in [Storages -> Contents] /\ pending' \in [Storages -> Updates]
        /\ timer' \in [Storages -> BOOLEAN] /\ due' \subseteq Keys
    BY <1>3, <2>1, <2>3, StoreTypes
  <2> QED BY <1>2, <2>3, <2>4, <2>5 DEF MainReceives, TypeOK
<1> QED BY <1>4, <1>5, <1>6 DEF MainReceives

\* The debounced change event.
LEMMA BroadcastStep ==
  ASSUME TypeOK, Broadcast
  PROVE  TypeOK'
<1>1. ChangeEvent \in Updates
  BY DEF ChangeEvent, Updates, TypeOK, Contents, Storages
<1>2. [type |-> "changed", items |-> ChangeEvent] \in ToWindowMessages
  BY <1>1 DEF ToWindowMessages
<1>3. \A w \in Windows : Append(toWindow[w], [type |-> "changed", items |-> ChangeEvent])
                            \in Seq(ToWindowMessages)
  BY <1>2 DEF TypeOK
<1>4. toWindow' \in [Windows -> Seq(ToWindowMessages)]
  BY <1>3 DEF Broadcast, TypeOK
<1> QED BY <1>4 DEF Broadcast, TypeOK, storageVars

\* A transaction ends, well or not.
LEMMA SqliteStep ==
  ASSUME TypeOK, SqliteUpdate
  PROVE  TypeOK'
<1>1. Main \in Storages
  BY DEF Storages
<1>2. PICK succeeded \in BOOLEAN : UpdateDone(Main, succeeded)
  BY DEF SqliteUpdate
<1>3. /\ running' \in [Storages -> Updates] /\ pending' \in [Storages -> Updates]
      /\ toMain' \in [Windows -> Seq(ToMainMessages)]
      /\ queued' \in [Storages -> BOOLEAN]
      /\ closing' \in [Storages -> ClosingStates]
  BY <1>1, <1>2, UpdateDoneTypes
<1>4. Overlay(db, running[Main]) \in Contents
  BY <1>1, OverlayContents DEF TypeOK
<1>5. db' \in Contents
  BY <1>4 DEF SqliteUpdate, TypeOK
<1>6. erroneous' \in BOOLEAN
  BY DEF SqliteUpdate, TypeOK
<1>7. failures' \in 0..MaxFailures
  <2>1. MaxFailures \in Nat /\ failures \in 0..MaxFailures
    BY StorageAssumption DEF TypeOK
  <2>2. failures' = failures \/ (failures < MaxFailures /\ failures' = failures + 1)
    BY DEF SqliteUpdate
  <2> QED BY <2>1, <2>2
<1> QED BY <1>3, <1>5, <1>6, <1>7 DEF SqliteUpdate, TypeOK, ClosingStates
-----------------------------------------------------------------------------
\* Every step keeps the types.
LEMMA TypesStep == TypeOK /\ [Next]_vars => TypeOK'
<1> SUFFICES ASSUME TypeOK, [Next]_vars PROVE TypeOK'
  OBVIOUS
<1>1. ASSUME NEW s \in Storages, TimerFires(s) \/ Close(s) \/ CloseDatabase(s)
      PROVE  TypeOK'
  BY <1>1, TimerStep, CloseStep, CloseDatabaseStep
<1>2. ASSUME NEW s \in Storages, NEW k \in Keys, NEW v \in Values \cup {Absent}, Set(s, k, v)
      PROVE  TypeOK'
  BY <1>2, SetStep
<1>3. ASSUME NEW w \in Windows, Open(w) \/ WindowReceives(w) \/ MainReceives(w)
      PROVE  TypeOK'
  BY <1>3, OpenStep, WindowReceivesStep, MainReceivesStep
<1>4. CASE Broadcast \/ SqliteUpdate
  BY <1>4, BroadcastStep, SqliteStep
<1>5. CASE UNCHANGED vars
  BY <1>5 DEF TypeOK, vars, storageVars
<1> QED BY <1>1, <1>2, <1>3, <1>4, <1>5 DEF Next

\* Every copy of the store stays a total function from keys to values, every
\* pending, running or transmitted update a partial one, for any number of
\* windows, keys and values.
THEOREM TypeCorrect == Spec => []TypeOK
<1> QED BY TypesStep, Initially, PTL DEF Spec
-----------------------------------------------------------------------------
(* The invariant: no write is lost on its way to SQLite, and every window is *)
(* ahead of the main process, behind it, or agrees with it.                  *)

\* The messages of q that carry a value of k, and the value the last one carries.
Carries(m, k) == m.type \in {"items", "changed", "updateItems"} /\ m.items[k] # Same

Carriers(q, k) == {i \in DOMAIN q : Carries(q[i], k)}

Ends(q, k, v) ==
    \E i \in Carriers(q, k) : q[i].items[k] = v /\ \A j \in Carriers(q, k) : j <= i

\* What waits in a Storage has a flush to come.  close() has got somewhere only
\* when no more writes are accepted; its last flush took them all, unless that
\* flush is queued.
FlushOf(s) ==
    /\ pending[s] # NoUpdate => timer[s] \/ queued[s]
    /\ closing[s] # "no" => state[s] = "closed"
    /\ closing[s] = "queued" => queued[s]
    /\ closing[s] \in {"active", "requeued"} => pending[s] = NoUpdate
    /\ closing[s] \in {"flushed", "done"} => pending[s] = NoUpdate /\ running[s] = NoUpdate

FlushInv == \A s \in Storages : FlushOf(s)

\* Main's cache is what SQLite has, will have and is to be told, until an update
\* fails; then the connection knows.
SqliteInv ==
    /\ failures = 0 <=> ~erroneous
    /\ failures = 0 => cache[Main] = Overlay(Overlay(db, running[Main]), pending[Main])
    /\ closing[Main] = "done" => db = cache[Main]

\* The requests of a window: to listen comes first, the answer to getItems opens
\* the window, and only then it writes.
OpenOf(w) ==
    /\ state[w] \in {"loading", "open"} => state[Main] = "open"
    /\ state[w] \in {"none", "loading"} => pending[w] = NoUpdate
    /\ state[w] = "none" => toMain[w] = <<>> /\ toWindow[w] = <<>> /\ w \notin subscribed
    /\ state[w] = "loading" =>
          \/ toMain[w] = OpeningRequests /\ toWindow[w] = <<>> /\ w \notin subscribed
          \/ toMain[w] \in {Tail(OpeningRequests), <<>>} /\ w \in subscribed
    /\ state[w] \in {"open", "closed"} =>
          \A i \in DOMAIN toMain[w] : toMain[w][i].type = "updateItems"
    /\ state[w] = "open" => w \in subscribed
    /\ \A i \in DOMAIN toWindow[w] : toWindow[w][i].type = "items" =>
          /\ state[w] = "loading" /\ toMain[w] = <<>>
          /\ \A j \in DOMAIN toWindow[w] : toWindow[w][j].type = "items" => j = i

OpenInv == state[Main] \in {"open", "closed"} /\ \A w \in Windows : OpenOf(w)

\* What the last message says is what the main process has, or more is due.
Told(w, k) ==
    \A v \in Values \cup {Absent} :
        Ends(toWindow[w], k, v) => k \in due \/ v = cache[Main][k]

\* The last write of k that the main process did not see yet is c.
Ahead(w, k, c) == pending[w][k] = c \/ (pending[w][k] = Same /\ Ends(toMain[w], k, c))

\* When nothing is on its way to it, an open window has what the main process
\* has, unless more is due or it has its own write of it on the way.
Agrees(w, k) ==
    Carriers(toWindow[w], k) = {} =>
        k \in due \/ cache[w][k] = cache[Main][k] \/ Ahead(w, k, cache[w][k])

SyncOf(w, k) ==
    /\ state[w] \in {"loading", "open"} => Told(w, k)
    /\ state[w] = "open" => Agrees(w, k)

SyncInv == \A w \in Windows, k \in Keys : SyncOf(w, k)

Inv == TypeOK /\ FlushInv /\ SqliteInv /\ OpenInv /\ SyncInv
-----------------------------------------------------------------------------
(* Flushes, and the writes SQLite gets.                                      *)

\* An empty update changes nothing.
LEMMA OverlayNothing ==
  ASSUME NEW c \in Contents \cup Updates
  PROVE  Overlay(c, NoUpdate) = c
BY DEF Overlay, NoUpdate, Contents, Updates

\* A write after pending ones may be added to what is pending.
LEMMA OverlayLater ==
  ASSUME NEW c, NEW p \in Updates, NEW u \in Updates
  PROVE  Overlay(Overlay(c, p), u) = Overlay(c, Overlay(p, u))
BY DEF Overlay, Updates

\* An update that was pending alone is flushed.
LEMMA OverlayFirst ==
  ASSUME NEW c \in Contents, NEW p \in Updates
  PROVE  Overlay(Overlay(c, NoUpdate), p) = Overlay(Overlay(c, p), NoUpdate)
<1>1. Overlay(c, p) \in Contents
  BY OverlayContents
<1> QED BY <1>1, OverlayNothing

\* A closed Storage accepts nothing.
LEMMA StoreClosed ==
  ASSUME TypeOK, NEW s \in Storages, NEW u \in Updates, Store(s, u)
  PROVE  /\ state[s] = "closed" \/ Changed(s, u) = {} =>
               Accepted(s, u) = NoUpdate /\ cache' = cache /\ pending' = pending
         /\ \A t \in Storages \ {s} :
               cache'[t] = cache[t] /\ pending'[t] = pending[t] /\ timer'[t] = timer[t]
<1>1. ASSUME state[s] = "closed" \/ Changed(s, u) = {}
      PROVE  Accepted(s, u) = NoUpdate /\ cache' = cache /\ pending' = pending
  <2>1. Changed(s, u) = {}
    BY <1>1 DEF Changed
  <2>2. Accepted(s, u) = NoUpdate
    BY <2>1 DEF Accepted, NoUpdate
  <2>3. Overlay(cache[s], NoUpdate) = cache[s] /\ Overlay(pending[s], NoUpdate) = pending[s]
    BY OverlayNothing DEF TypeOK
  <2> QED BY <2>2, <2>3 DEF Store, TypeOK
<1>2. \A t \in Storages \ {s} :
         cache'[t] = cache[t] /\ pending'[t] = pending[t] /\ timer'[t] = timer[t]
  BY DEF Store, TypeOK
<1> QED BY <1>1, <1>2

\* set() and delete() leave a flush to come, and the main process tells SQLite.
LEMMA StoreFlush ==
  ASSUME TypeOK, FlushInv, SqliteInv, NEW s \in Storages, NEW u \in Updates, Store(s, u),
         UNCHANGED <<state, running, queued, closing, db, erroneous, failures>>
  PROVE  FlushInv' /\ SqliteInv'
<1>1. ASSUME NEW t \in Storages PROVE FlushOf(t)'
  <2>1. CASE t # s
    BY <2>1, StoreClosed DEF FlushInv, FlushOf
  <2>2. CASE t = s /\ (state[s] = "closed" \/ Changed(s, u) = {})
    <3>1. timer[s] => timer'[s]
      BY DEF Store, TypeOK
    <3> QED BY <2>2, <3>1, StoreClosed DEF FlushInv, FlushOf
  <2>3. CASE t = s /\ state[s] # "closed" /\ Changed(s, u) # {}
    <3>1. timer'[s]
      BY <2>3 DEF Store, TypeOK
    <3> QED BY <2>3, <3>1 DEF FlushInv, FlushOf
  <2> QED BY <2>1, <2>2, <2>3
<1>2. Main \in Storages
  BY DEF Storages
<1>3. ASSUME failures = 0
      PROVE  cache'[Main] = Overlay(Overlay(db, running[Main]), pending'[Main])
  <2>1. CASE s # Main
    BY <1>2, <1>3, <2>1, StoreClosed DEF SqliteInv
  <2>2. CASE s = Main
    <3>1. /\ cache'[Main] = Overlay(cache[Main], Accepted(s, u))
          /\ pending'[Main] = Overlay(pending[Main], Accepted(s, u))
      BY <2>2 DEF Store, TypeOK
    <3>2. pending[Main] \in Updates /\ Accepted(s, u) \in Updates
      BY <1>2, AcceptedUpdates DEF TypeOK
    <3> QED BY <1>3, <3>1, <3>2, OverlayLater DEF SqliteInv
  <2> QED BY <2>1, <2>2
<1>4. ASSUME closing[Main] = "done" PROVE db = cache'[Main]
  <2>1. state[Main] = "closed"
    BY <1>2, <1>4 DEF FlushInv, FlushOf
  <2> QED BY <1>2, <1>4, <2>1, StoreClosed DEF SqliteInv
<1> QED BY <1>1, <1>3, <1>4 DEF FlushInv, SqliteInv

\* flushPending: what was pending is running, and nothing is pending.
LEMMA StartFlushEffect ==
  ASSUME TypeOK, NEW s \in Storages, StartFlush(s)
  PROVE  /\ running'[s] = pending[s] /\ pending'[s] = NoUpdate
         /\ \A t \in Storages \ {s} : running'[t] = running[t] /\ pending'[t] = pending[t]
BY DEF StartFlush, ResetPending, TypeOK

\* The end of an update: nothing is running, or what was pending is.
LEMMA UpdateDoneEffect ==
  ASSUME TypeOK, NEW s \in Storages, NEW succeeded, UpdateDone(s, succeeded)
  PROVE  /\ \/ queued[s] /\ running'[s] = pending[s] /\ pending'[s] = NoUpdate
            \/ ~queued[s] /\ running'[s] = NoUpdate /\ pending'[s] = pending[s]
         /\ closing'[s] = ClosingAfter(s, succeeded)
         /\ \A t \in Storages \ {s} :
               /\ running'[t] = running[t] /\ pending'[t] = pending[t]
               /\ closing'[t] = closing[t] /\ queued'[t] = queued[t]
<1>1. /\ closing'[s] = ClosingAfter(s, succeeded)
      /\ \A t \in Storages \ {s} : closing'[t] = closing[t] /\ queued'[t] = queued[t]
  BY DEF UpdateDone, TypeOK
<1>2. CASE queued[s]
  BY <1>1, <1>2, StartFlushEffect DEF UpdateDone
<1>3. CASE ~queued[s]
  BY <1>1, <1>3 DEF UpdateDone, TypeOK
<1> QED BY <1>2, <1>3

\* However an update ends, close() goes on only behind the last write.
LEMMA UpdateDoneFlush ==
  ASSUME TypeOK, FlushInv, NEW s \in Storages, NEW succeeded \in BOOLEAN,
         UpdateDone(s, succeeded), UNCHANGED <<timer, state>>
  PROVE  FlushInv'
<1>1. ASSUME NEW t \in Storages, t # s PROVE FlushOf(t)'
  BY <1>1, UpdateDoneEffect DEF FlushInv, FlushOf
<1>2. FlushOf(s)'
  <2>1. FlushOf(s)
    BY DEF FlushInv
  <2>2. closing'[s] = ClosingAfter(s, succeeded)
    BY UpdateDoneEffect
  <2>3. /\ closing[s] = "no" => closing'[s] = "no"
        /\ closing'[s] # "queued"
        /\ closing'[s] = "active" => FALSE
        /\ closing'[s] = "requeued" => closing[s] = "queued"
        /\ closing'[s] = "flushed" =>
              closing[s] \in {"active", "requeued", "flushed"} \/ pending[s] = NoUpdate
        /\ closing'[s] = "done" => closing[s] = "done"
    BY <2>2 DEF ClosingAfter
  <2>4. \/ queued[s] /\ running'[s] = pending[s] /\ pending'[s] = NoUpdate
        \/ ~queued[s] /\ running'[s] = NoUpdate /\ pending'[s] = pending[s]
    BY UpdateDoneEffect
  <2> QED BY <2>1, <2>3, <2>4 DEF FlushOf
<1> QED BY <1>1, <1>2 DEF FlushInv

\* A flush of another Storage does not touch what SQLite is told.
LEMMA MainUntouched ==
  ASSUME TypeOK, SqliteInv, cache'[Main] = cache[Main], running'[Main] = running[Main],
         pending'[Main] = pending[Main], closing'[Main] = closing[Main],
         UNCHANGED <<db, erroneous, failures>>
  PROVE  SqliteInv'
BY DEF SqliteInv

\* The main process is a Storage, and no window.
LEMMA MainIsNoWindow == Main \notin Windows /\ Main \in Storages /\ Windows \subseteq Storages
BY StorageAssumption DEF Storages

\* set() and delete().
LEMMA SetFlush ==
  ASSUME Inv, NEW s \in Storages, NEW k \in Keys, NEW v \in Values \cup {Absent}, Set(s, k, v)
  PROVE  FlushInv' /\ SqliteInv'
<1>1. [NoUpdate EXCEPT ![k] = v] \in Updates
  BY NoUpdateIsUpdate DEF Updates, NoUpdate
<1> QED BY <1>1, StoreFlush DEF Set, Inv

\* The timer starts a flush or leaves one behind the running one, which close()
\* then waits for.
LEMMA TimerFlush ==
  ASSUME Inv, NEW s \in Storages, TimerFires(s)
  PROVE  FlushInv' /\ SqliteInv'
<1> USE DEF Inv
<1>1. /\ \A t \in Storages \ {s} : timer'[t] = timer[t] /\ closing'[t] = closing[t]
      /\ timer[s] /\ state' = state
  BY DEF TimerFires, TypeOK
<1>2. CASE running[s] # NoUpdate
  <2>1. /\ queued' = [queued EXCEPT ![s] = TRUE] /\ running' = running /\ pending' = pending
        /\ closing' = [closing EXCEPT ![s] = IF @ = "timer" THEN "queued" ELSE @]
    BY <1>2 DEF TimerFires, QueueFlush
  <2>2. FlushInv'
    BY <1>1, <1>2, <2>1 DEF FlushInv, FlushOf, TypeOK
  <2>3. closing'[Main] = "done" => closing[Main] = "done"
    BY <2>1, MainIsNoWindow DEF TypeOK
  <2>4. SqliteInv'
    BY <2>1, <2>3 DEF TimerFires, SqliteInv
  <2> QED BY <2>2, <2>4
<1>3. CASE running[s] = NoUpdate
  <2>1. /\ StartFlush(s) /\ queued' = queued
        /\ closing' = [closing EXCEPT ![s] =
                          IF @ # "timer" THEN @
                          ELSE IF pending[s] = NoUpdate THEN "flushed" ELSE "active"]
    BY <1>3 DEF TimerFires
  <2>2. /\ running'[s] = pending[s] /\ pending'[s] = NoUpdate
        /\ \A t \in Storages \ {s} : running'[t] = running[t] /\ pending'[t] = pending[t]
    BY <2>1, StartFlushEffect
  <2>3. FlushOf(s)'
    <3>1. closing'[s] = IF closing[s] # "timer" THEN closing[s]
                        ELSE IF pending[s] = NoUpdate THEN "flushed" ELSE "active"
      BY <2>1 DEF TypeOK
    <3> QED BY <1>1, <2>1, <2>2, <3>1 DEF FlushInv, FlushOf
  <2>4. \A t \in Storages \ {s} : FlushOf(t)'
    BY <1>1, <2>1, <2>2 DEF FlushInv, FlushOf
  <2>5. SqliteInv'
    <3>1. cache' = cache /\ UNCHANGED <<db, erroneous, failures>>
      BY DEF TimerFires
    <3>2. CASE s # Main
      BY <1>1, <2>2, <3>1, <3>2, MainIsNoWindow, MainUntouched
    <3>3. CASE s = Main
      <4>1. db \in Contents /\ pending[Main] \in Updates
        BY MainIsNoWindow DEF TypeOK
      <4>2. failures = 0 => cache'[Main] = Overlay(Overlay(db, running'[Main]), pending'[Main])
        BY <1>3, <2>2, <3>1, <3>3, <4>1, OverlayFirst DEF SqliteInv
      <4>3. closing'[Main] = "done" => closing[Main] = "done"
        BY <2>1, <3>3 DEF TypeOK
      <4> QED BY <3>1, <4>2, <4>3 DEF SqliteInv
    <3> QED BY <3>2, <3>3
  <2> QED BY <2>3, <2>4, <2>5 DEF FlushInv
<1> QED BY <1>2, <1>3

\* doClose up to its flush.
LEMMA CloseFlush ==
  ASSUME Inv, NEW s \in Storages, Close(s)
  PROVE  FlushInv' /\ SqliteInv'
<1> USE DEF Inv
<1>1. FlushInv'
  BY DEF Close, FlushInv, FlushOf, TypeOK
<1>2. closing'[Main] = "done" => closing[Main] = "done"
  BY MainIsNoWindow DEF Close, TypeOK
<1>3. SqliteInv'
  BY <1>2 DEF Close, SqliteInv
<1> QED BY <1>1, <1>3

\* database.close() keeps the cache: it is on disk, or replaces what is.
LEMMA CloseDatabaseFlush ==
  ASSUME Inv, NEW s \in Storages, CloseDatabase(s)
  PROVE  FlushInv' /\ SqliteInv'
<1> USE DEF Inv
<1>1. FlushInv'
  BY DEF CloseDatabase, FlushInv, FlushOf, TypeOK
<1>2. CASE s # Main
  <2>1. closing'[Main] = closing[Main]
    BY <1>2, MainIsNoWindow DEF CloseDatabase, TypeOK
  <2>2. UNCHANGED <<cache, running, pending, db, erroneous, failures>>
    BY <1>2 DEF CloseDatabase
  <2> QED BY <1>1, <2>1, <2>2, MainUntouched
<1>3. CASE s = Main
  <2>1. pending[Main] = NoUpdate /\ running[Main] = NoUpdate
    BY <1>3 DEF CloseDatabase, FlushInv, FlushOf
  <2>2. failures = 0 => cache[Main] = db
    <3>1. db \in Contents
      BY DEF TypeOK
    <3> QED BY <2>1, <3>1, OverlayNothing DEF SqliteInv
  <2>3. db' = cache[Main]
    BY <1>3, <2>2 DEF CloseDatabase, Recovered, SqliteInv
  <2>4. failures = 0 => db' = db
    BY <2>2, <2>3
  <2>5. UNCHANGED <<cache, running, pending, erroneous, failures>>
    BY DEF CloseDatabase
  <2> QED BY <1>1, <2>3, <2>4, <2>5 DEF SqliteInv
<1> QED BY <1>1, <1>2, <1>3

\* A window opens.
LEMMA OpenFlush ==
  ASSUME Inv, NEW w \in Windows, Open(w)
  PROVE  FlushInv' /\ SqliteInv'
<1>1. w \in Storages /\ state' = [state EXCEPT ![w] = "loading"] /\ state[w] = "none"
  BY MainIsNoWindow DEF Open
<1>2. FlushInv'
  BY <1>1 DEF Inv, Open, FlushInv, FlushOf, TypeOK
<1> QED BY <1>2 DEF Inv, Open, SqliteInv

\* A window's Storage never waits when the items arrive, which only open it.
LEMMA WindowReceivesFlush ==
  ASSUME Inv, NEW w \in Windows, WindowReceives(w)
  PROVE  FlushInv' /\ SqliteInv'
<1> USE DEF Inv
<1> DEFINE m == Head(toWindow[w])
<1>1. w \in Storages /\ w # Main /\ UNCHANGED <<timer, db, erroneous, failures>>
  BY MainIsNoWindow DEF WindowReceives
<1>2. CASE m.type = "items"
  <2>1. state[w] = "loading"
    <3>1. 1 \in DOMAIN toWindow[w] /\ m = toWindow[w][1]
      BY DEF WindowReceives, TypeOK
    <3> QED BY <1>2, <3>1 DEF OpenInv, OpenOf
  <2>2. /\ UNCHANGED <<pending, running, queued, closing>> /\ cache'[Main] = cache[Main]
        /\ \A s \in Storages : state[s] = "closed" => state'[s] = "closed"
    BY <1>1, <1>2, <2>1, MainIsNoWindow DEF WindowReceives, TypeOK
  <2> QED BY <1>1, <2>2, MainUntouched DEF FlushInv, FlushOf
<1>3. CASE m.type = "changed"
  <2>1. UNCHANGED <<pending, running, queued, closing, state>> /\ cache'[Main] = cache[Main]
    BY <1>1, <1>3, MainIsNoWindow DEF WindowReceives, TypeOK
  <2> QED BY <1>1, <2>1, MainUntouched DEF FlushInv, FlushOf
<1>4. CASE m.type = "updated"
  <2>1. UpdateDone(w, TRUE) /\ UNCHANGED <<state, cache>>
    BY <1>4 DEF WindowReceives
  <2> QED BY <1>1, <2>1, UpdateDoneFlush, UpdateDoneEffect, MainIsNoWindow, MainUntouched
<1> QED BY <1>2, <1>3, <1>4 DEF WindowReceives

\* updateItems stores in the main process.
LEMMA MainReceivesFlush ==
  ASSUME Inv, NEW w \in Windows, MainReceives(w)
  PROVE  FlushInv' /\ SqliteInv'
<1> USE DEF Inv
<1> DEFINE m == Head(toMain[w])
<1>1. UNCHANGED <<state, running, queued, closing, db, erroneous, failures>>
  BY DEF MainReceives
<1>2. m \in ToMainMessages
  BY DEF MainReceives, TypeOK
<1>3. CASE m.type \in {"listen", "getItems"}
  <2>1. UNCHANGED <<cache, pending, timer>>
    BY <1>3 DEF MainReceives
  <2> QED BY <1>1, <2>1, MainUntouched DEF FlushInv, FlushOf
<1>4. CASE m.type = "updateItems"
  <2>1. m.items \in Updates /\ Store(Main, m.items)
    BY <1>2, <1>4 DEF MainReceives, ToMainMessages
  <2> QED BY <1>1, <2>1, StoreFlush, MainIsNoWindow
<1> QED BY <1>2, <1>3, <1>4 DEF ToMainMessages

\* The debounced change event.
LEMMA BroadcastFlush ==
  ASSUME Inv, Broadcast
  PROVE  FlushInv' /\ SqliteInv'
BY DEF Inv, Broadcast, FlushInv, FlushOf, SqliteInv, storageVars

\* A transaction that succeeds takes what was running to SQLite; one that fails
\* is remembered.
LEMMA SqliteFlush ==
  ASSUME Inv, SqliteUpdate
  PROVE  FlushInv' /\ SqliteInv'
<1> USE DEF Inv
<1>1. PICK succeeded \in BOOLEAN : UpdateDone(Main, succeeded)
  BY DEF SqliteUpdate
<1>2. UNCHANGED <<cache, state, timer>>
  BY DEF SqliteUpdate
<1>3. FlushInv'
  BY <1>1, <1>2, UpdateDoneFlush, MainIsNoWindow
<1>4. closing[Main] # "done"
  BY MainIsNoWindow DEF SqliteUpdate, FlushInv, FlushOf
<1>5. closing'[Main] # "done"
  <2>1. closing'[Main] = ClosingAfter(Main, succeeded)
    BY <1>1, UpdateDoneEffect, MainIsNoWindow
  <2> QED BY <1>4, <2>1 DEF ClosingAfter
<1>6. \/ running'[Main] = pending[Main] /\ pending'[Main] = NoUpdate
      \/ running'[Main] = NoUpdate /\ pending'[Main] = pending[Main]
  BY <1>1, UpdateDoneEffect, MainIsNoWindow
<1>7. pending[Main] \in Updates /\ db \in Contents /\ Overlay(db, running[Main]) \in Contents
  BY MainIsNoWindow, OverlayContents DEF TypeOK
<1>8. CASE db' = Overlay(db, running[Main]) /\ UNCHANGED <<erroneous, failures>>
  <2>1. failures = 0 => cache[Main] = Overlay(db', pending[Main])
    BY <1>8 DEF SqliteInv
  <2>2. Overlay(Overlay(db', running'[Main]), pending'[Main]) = Overlay(db', pending[Main])
    BY <1>6, <1>7, <1>8, OverlayFirst, OverlayNothing
  <2> QED BY <1>2, <1>3, <1>5, <1>8, <2>1, <2>2 DEF SqliteInv
<1>9. CASE failures' = failures + 1 /\ erroneous'
  <2>1. failures' # 0
    BY <1>9 DEF TypeOK
  <2> QED BY <1>3, <1>5, <1>9, <2>1 DEF SqliteInv
<1> QED BY <1>8, <1>9 DEF SqliteUpdate
-----------------------------------------------------------------------------
(* How a window opens.                                                       *)

\* The first message and the rest.
LEMMA HeadAndTail ==
  ASSUME NEW S, NEW q \in Seq(S), q # <<>>
  PROVE  /\ 1 \in DOMAIN q /\ Head(q) = q[1] /\ Tail(q) \in Seq(S)
         /\ \A i \in DOMAIN Tail(q) : i \in Nat /\ i + 1 # 1 /\ i + 1 \in DOMAIN q /\ Tail(q)[i] = q[i + 1]
         /\ \A i \in DOMAIN q : i \in Nat /\ (i # 1 => i - 1 \in DOMAIN Tail(q))
OBVIOUS

\* One more message.
LEMMA OneMore ==
  ASSUME NEW S, NEW q \in Seq(S), NEW m \in S
  PROVE  /\ Append(q, m) \in Seq(S) /\ Len(q) \in Nat
         /\ DOMAIN Append(q, m) = DOMAIN q \cup {Len(q) + 1}
         /\ Len(q) + 1 \notin DOMAIN q
         /\ \A i \in DOMAIN q : i \in Nat /\ i < Len(q) + 1 /\ Append(q, m)[i] = q[i]
         /\ Append(q, m)[Len(q) + 1] = m
OBVIOUS

\* A window does not notice what happens elsewhere.
LEMMA OpenElsewhere ==
  ASSUME NEW w \in Windows, OpenOf(w), state'[w] = state[w],
         state[w] \in {"loading", "open"} => state'[Main] = state[Main],
         state[w] \in {"none", "loading"} => pending'[w] = pending[w],
         toMain'[w] = toMain[w], toWindow'[w] = toWindow[w],
         w \in subscribed' <=> w \in subscribed
  PROVE  OpenOf(w)'
BY DEF OpenOf

\* What a flush may say: something only once the window is open.
Says ==
    \A w \in Windows :
        /\ state[w] \in {"none", "loading"} => pending'[w] = NoUpdate /\ toMain'[w] = toMain[w]
        /\ state[w] \in {"open", "closed"} =>
              \A i \in DOMAIN toMain'[w] : toMain'[w][i].type = "updateItems"

\* flushPending says so, since a window that is not open has nothing pending.
LEMMA StartFlushSays ==
  ASSUME TypeOK, OpenInv, NEW s \in Storages, StartFlush(s)
  PROVE  Says
<1>1. \A w \in Windows : pending[w] = NoUpdate => pending'[w] = NoUpdate
  BY StartFlushEffect, MainIsNoWindow
<1>2. CASE s = Main \/ pending[s] = NoUpdate
  <2>1. toMain' = toMain
    BY <1>2 DEF StartFlush
  <2> QED BY <1>1, <2>1 DEF OpenInv, OpenOf, Says
<1>3. CASE s # Main /\ pending[s] # NoUpdate
  <2> DEFINE m == [type |-> "updateItems", items |-> pending[s]]
  <2>1. s \in Windows /\ state[s] \notin {"none", "loading"}
    BY <1>3 DEF OpenInv, OpenOf, Storages
  <2>2. m \in ToMainMessages /\ toMain[s] \in Seq(ToMainMessages)
    BY <2>1, MainIsNoWindow DEF ToMainMessages, TypeOK
  <2>3. toMain' = [toMain EXCEPT ![s] = Append(@, m)]
    BY <1>3 DEF StartFlush, Post
  <2>4. /\ toMain'[s] = Append(toMain[s], m)
        /\ \A w \in Windows \ {s} : toMain'[w] = toMain[w]
    BY <2>1, <2>3 DEF TypeOK
  <2>5. \A i \in DOMAIN toMain'[s] :
           toMain'[s][i].type = "updateItems"
             \/ (i \in DOMAIN toMain[s] /\ toMain'[s][i] = toMain[s][i])
    BY <2>2, <2>4, OneMore
  <2>6. state[s] \in {"open", "closed"} =>
           \A i \in DOMAIN toMain'[s] : toMain'[s][i].type = "updateItems"
    BY <2>1, <2>5 DEF OpenInv, OpenOf
  <2> QED BY <1>1, <2>1, <2>4, <2>6 DEF OpenInv, OpenOf, Says
<1> QED BY <1>2, <1>3

\* The same for the end of an update, with the flush that may follow.
LEMMA UpdateDoneSays ==
  ASSUME TypeOK, OpenInv, NEW s \in Storages, NEW succeeded, UpdateDone(s, succeeded)
  PROVE  Says
<1>1. CASE queued[s]
  BY <1>1, StartFlushSays DEF UpdateDone
<1>2. CASE ~queued[s]
  BY <1>2 DEF UpdateDone, OpenInv, OpenOf, Says
<1> QED BY <1>1, <1>2

\* What is said keeps to the order, when nothing else happens.
LEMMA SaysOpen ==
  ASSUME OpenInv, Says, UNCHANGED <<state, toWindow, subscribed>>
  PROVE  OpenInv'
BY DEF OpenInv, OpenOf, Says

\* Only an open window writes.
LEMMA SetOpen ==
  ASSUME Inv, NEW s \in Storages, NEW k \in Keys, NEW v \in Values \cup {Absent}, Set(s, k, v)
  PROVE  OpenInv'
<1>1. [NoUpdate EXCEPT ![k] = v] \in Updates
  BY NoUpdateIsUpdate DEF Updates, NoUpdate
<1>2. \A w \in Windows : state[w] \in {"none", "loading"} => pending'[w] = pending[w]
  BY <1>1, StoreClosed, MainIsNoWindow DEF Set, Inv
<1> QED BY <1>2 DEF Inv, Set, OpenInv, OpenOf

\* The flush timer.
LEMMA TimerOpen ==
  ASSUME Inv, NEW s \in Storages, TimerFires(s)
  PROVE  OpenInv'
<1>1. UNCHANGED <<state, toWindow, subscribed>>
  BY DEF TimerFires
<1>2. CASE StartFlush(s)
  BY <1>1, <1>2, StartFlushSays, SaysOpen DEF Inv
<1>3. CASE UNCHANGED <<pending, toMain>>
  BY <1>1, <1>3 DEF Inv, OpenInv, OpenOf
<1> QED BY <1>2, <1>3 DEF TimerFires

\* The main process outlives its windows.
LEMMA CloseOpen ==
  ASSUME Inv, NEW s \in Storages, Close(s)
  PROVE  OpenInv'
<1>1. /\ state' = [state EXCEPT ![s] = "closed"] /\ state[s] = "open"
      /\ UNCHANGED <<pending, toMain, toWindow, subscribed>>
  BY DEF Close
<1>2. state'[Main] \in {"open", "closed"}
  BY <1>1, MainIsNoWindow DEF Inv, TypeOK, OpenInv
<1>3. ASSUME NEW w \in Windows PROVE OpenOf(w)'
  <2>1. CASE s = w
    BY <1>1, <2>1, MainIsNoWindow DEF Inv, TypeOK, OpenInv, OpenOf
  <2>2. CASE s = Main
    <3>1. closing[w] = "done" \/ state[w] = "none"
      BY <2>2 DEF Close
    <3>2. state[w] \notin {"loading", "open"} /\ state'[w] = state[w]
      BY <1>1, <2>2, <3>1, MainIsNoWindow DEF Inv, TypeOK, FlushInv, FlushOf
    <3> QED BY <1>1, <3>2, OpenElsewhere DEF Inv, OpenInv
  <2>3. CASE s # w /\ s # Main
    <3>1. state'[w] = state[w] /\ state'[Main] = state[Main]
      BY <1>1, <2>3, MainIsNoWindow DEF Inv, TypeOK
    <3> QED BY <1>1, <3>1, OpenElsewhere DEF Inv, OpenInv
  <2> QED BY <2>1, <2>2, <2>3
<1> QED BY <1>2, <1>3 DEF OpenInv

\* A window stops to listen when it is closed.
LEMMA CloseDatabaseOpen ==
  ASSUME Inv, NEW s \in Storages, CloseDatabase(s)
  PROVE  OpenInv'
<1>1. state[s] = "closed"
  BY DEF Inv, FlushInv, FlushOf, CloseDatabase
<1>2. /\ UNCHANGED <<pending, state, toMain, toWindow>>
      /\ subscribed' = IF s = Main THEN subscribed ELSE subscribed \ {s}
  BY DEF CloseDatabase
<1> QED BY <1>1, <1>2 DEF Inv, OpenInv, OpenOf

\* A window opens with its two requests.
LEMMA OpenOpen ==
  ASSUME Inv, NEW v \in Windows, Open(v)
  PROVE  OpenInv'
<1>1. /\ state' = [state EXCEPT ![v] = "loading"] /\ state[v] = "none" /\ state[Main] = "open"
      /\ toMain' = [toMain EXCEPT ![v] = OpeningRequests]
      /\ UNCHANGED <<pending, toWindow, subscribed>>
  BY DEF Open
<1>2. state'[Main] = state[Main] /\ state'[v] = "loading" /\ toMain'[v] = OpeningRequests
  BY <1>1, MainIsNoWindow DEF Inv, TypeOK
<1>3. ASSUME NEW w \in Windows, w # v PROVE OpenOf(w)'
  BY <1>1, <1>2, <1>3, OpenElsewhere, MainIsNoWindow DEF Inv, TypeOK, OpenInv
<1>4. toWindow[v] = <<>> /\ v \notin subscribed /\ pending[v] = NoUpdate
  BY <1>1 DEF Inv, OpenInv, OpenOf
<1>5. OpenOf(v)'
  BY <1>1, <1>2, <1>4 DEF OpenOf
<1> QED BY <1>1, <1>2, <1>3, <1>5 DEF OpenInv

\* Items open the window, once.
LEMMA WindowReceivesOpen ==
  ASSUME Inv, NEW v \in Windows, WindowReceives(v)
  PROVE  OpenInv'
<1> USE DEF Inv
<1> DEFINE m == Head(toWindow[v])
<1>1. /\ toWindow' = [toWindow EXCEPT ![v] = Tail(toWindow[v])] /\ subscribed' = subscribed
      /\ toWindow[v] # <<>> /\ toWindow[v] \in Seq(ToWindowMessages)
  BY DEF WindowReceives, TypeOK
<1>2. toWindow'[v] = Tail(toWindow[v]) /\ \A w \in Windows \ {v} : toWindow'[w] = toWindow[w]
  BY <1>1 DEF TypeOK
<1> DEFINE q == toWindow[v]
           rest == Tail(q)
<1>3. /\ 1 \in DOMAIN q /\ m = q[1]
      /\ \A i \in DOMAIN toWindow'[v] :
            i \in Nat /\ i + 1 # 1 /\ i + 1 \in DOMAIN q /\ toWindow'[v][i] = q[i + 1]
  <2>1. q \in Seq(ToWindowMessages) /\ q # <<>>
    BY <1>1
  <2> HIDE DEF q
  <2>2. /\ 1 \in DOMAIN q /\ m = q[1]
        /\ \A i \in DOMAIN rest : i \in Nat /\ i + 1 # 1 /\ i + 1 \in DOMAIN q /\ rest[i] = q[i + 1]
    BY <2>1, HeadAndTail DEF q
  <2>3. toWindow'[v] = rest
    BY <1>2 DEF q
  <2> HIDE DEF rest, m
  <2> QED BY <2>2, <2>3
<1> HIDE DEF rest
<1>4. CASE m.type = "items"
  <2>1. /\ state[v] = "loading" /\ toMain[v] = <<>>
        /\ \A j \in DOMAIN toWindow[v] : toWindow[v][j].type = "items" => j = 1
    BY <1>3, <1>4 DEF OpenInv, OpenOf
  <2>2. v \in subscribed /\ pending[v] = NoUpdate /\ state[Main] = "open"
    BY <1>1, <2>1 DEF OpenInv, OpenOf, OpeningRequests
  <2>3. \A i \in DOMAIN toWindow'[v] : toWindow'[v][i].type # "items"
    BY <1>3, <2>1
  <2>4. state' = [state EXCEPT ![v] = "open"] /\ UNCHANGED <<pending, toMain>>
    BY <1>4 DEF WindowReceives
  <2>5. state'[v] = "open" /\ \A s \in Storages \ {v} : state'[s] = state[s]
    BY <2>4, MainIsNoWindow DEF TypeOK
  <2>6. OpenOf(v)'
    BY <1>1, <2>1, <2>2, <2>3, <2>4, <2>5, MainIsNoWindow DEF OpenOf
  <2>7. ASSUME NEW w \in Windows, w # v PROVE OpenOf(w)'
    BY <1>1, <1>2, <2>4, <2>5, <2>7, OpenElsewhere, MainIsNoWindow DEF OpenInv
  <2> QED BY <2>2, <2>5, <2>6, <2>7, MainIsNoWindow DEF OpenInv
<1>5. ASSUME m.type # "items", state' = state,
             Says
      PROVE  OpenInv'
  <2>1. ASSUME NEW w \in Windows PROVE OpenOf(w)'
    <3>1. CASE w # v
      BY <1>1, <1>2, <1>5, <3>1 DEF OpenInv, OpenOf, Says
    <3>2. CASE w = v
      <4>2. \A i \in DOMAIN toWindow'[v] : toWindow'[v][i].type = "items" =>
               /\ state'[v] = "loading" /\ toMain'[v] = <<>>
               /\ \A j \in DOMAIN toWindow'[v] : toWindow'[v][j].type = "items" => j = i
        <5> SUFFICES ASSUME NEW i \in DOMAIN toWindow'[v], toWindow'[v][i].type = "items"
                     PROVE  /\ state'[v] = "loading" /\ toMain'[v] = <<>>
                            /\ \A j \in DOMAIN toWindow'[v] : toWindow'[v][j].type = "items" => j = i
          OBVIOUS
        <5>1. /\ state[v] = "loading" /\ toMain[v] = <<>>
              /\ \A j \in DOMAIN toWindow[v] : toWindow[v][j].type = "items" => j = i + 1
          BY <1>3 DEF OpenInv, OpenOf
        <5> QED BY <1>3, <1>5, <5>1 DEF Says
      <4> QED BY <1>1, <1>5, <3>2, <4>2 DEF OpenInv, OpenOf, Says
    <3> QED BY <3>1, <3>2
  <2> QED BY <1>5, <2>1 DEF OpenInv
<1>6. CASE m.type = "changed"
  <2>1. UNCHANGED <<pending, state, toMain>>
    BY <1>6 DEF WindowReceives
  <2> QED BY <1>5, <1>6, <2>1 DEF OpenInv, OpenOf, Says
<1>7. CASE m.type = "updated"
  <2>1. UpdateDone(v, TRUE) /\ state' = state
    BY <1>7 DEF WindowReceives
  <2> QED BY <1>5, <1>7, <2>1, UpdateDoneSays, MainIsNoWindow
<1> QED BY <1>4, <1>6, <1>7 DEF WindowReceives
\* The two requests of a window that opens.
LEMMA Opening ==
  LET getItems == Tail(OpeningRequests)
  IN  /\ OpeningRequests # <<>> /\ Head(OpeningRequests) = [type |-> "listen"]
      /\ getItems # <<>> /\ Head(getItems) = [type |-> "getItems"] /\ Tail(getItems) = <<>>
BY DEF OpeningRequests

\* What the main process is asked tells how far the window is.
LEMMA Asked ==
  ASSUME TypeOK, OpenInv, NEW w \in Windows, toMain[w] # <<>>
  PROVE  LET m == Head(toMain[w])
         IN  /\ m \in ToMainMessages
             /\ m.type = "listen" =>
                   /\ state[w] = "loading" /\ toWindow[w] = <<>>
                   /\ Tail(toMain[w]) = Tail(OpeningRequests)
             /\ m.type = "getItems" =>
                   state[w] = "loading" /\ w \in subscribed /\ Tail(toMain[w]) = <<>>
             /\ m.type = "updateItems" => state[w] \in {"open", "closed"}
<1> DEFINE q == toMain[w]
           m == Head(q)
<1>1. q \in Seq(ToMainMessages) /\ q # <<>>
  BY DEF TypeOK
<1>2. 1 \in DOMAIN q /\ m = q[1] /\ m \in ToMainMessages
  BY <1>1
<1>3. state[w] \in {"loading", "open", "closed"}
  BY DEF OpenInv, OpenOf, TypeOK, Storages
<1>4. CASE state[w] \in {"open", "closed"}
  BY <1>2, <1>4 DEF OpenInv, OpenOf
<1>5. CASE state[w] = "loading"
  <2>1. CASE q = OpeningRequests
    <3>1. toWindow[w] = <<>>
      BY <1>5, <2>1, Opening DEF OpenInv, OpenOf
    <3> QED BY <1>2, <1>5, <2>1, <3>1, Opening
  <2>2. CASE q = Tail(OpeningRequests)
    <3>1. w \in subscribed
      BY <1>5, <2>2, Opening DEF OpenInv, OpenOf
    <3> QED BY <1>2, <1>5, <2>2, <3>1, Opening
  <2> QED BY <1>1, <1>5, <2>1, <2>2 DEF OpenInv, OpenOf
<1> QED BY <1>3, <1>4, <1>5

\* The requests are served in order: a window listens before it is sent items.
LEMMA MainReceivesOpen ==
  ASSUME Inv, NEW v \in Windows, MainReceives(v)
  PROVE  OpenInv'
<1> USE DEF Inv
<1> DEFINE m == Head(toMain[v])
<1>1. toMain[v] # <<>> /\ toMain' = [toMain EXCEPT ![v] = Tail(toMain[v])] /\ state' = state
  BY DEF MainReceives
<1>2. toMain'[v] = Tail(toMain[v]) /\ \A w \in Windows \ {v} : toMain'[w] = toMain[w]
  BY <1>1 DEF TypeOK
<1>3. toMain[v] \in Seq(ToMainMessages) /\ toWindow[v] \in Seq(ToWindowMessages)
  BY DEF TypeOK
<1>4. \A w \in Windows \ {v} :
         /\ pending'[w] = pending[w] /\ toWindow'[w] = toWindow[w]
         /\ w \in subscribed' <=> w \in subscribed
  <2>1. CASE m.type \in {"listen", "getItems"}
    BY <2>1 DEF MainReceives, Answer, TypeOK
  <2>2. CASE m.type = "updateItems"
    BY <2>2, MainIsNoWindow DEF MainReceives, Store, Answer, TypeOK
  <2> QED BY <2>1, <2>2 DEF MainReceives
<1>5. \A w \in Windows \ {v} : OpenOf(w)'
  BY <1>1, <1>2, <1>4, OpenElsewhere DEF OpenInv
<1>6. CASE m.type = "listen"
  <2>1. state[v] = "loading" /\ toWindow[v] = <<>> /\ toMain'[v] = Tail(OpeningRequests)
    BY <1>1, <1>2, <1>6, Asked
  <2>2. subscribed' = subscribed \cup {v} /\ pending' = pending /\ toWindow' = toWindow
    BY <1>6 DEF MainReceives
  <2>3. OpenOf(v)'
    BY <1>1, <2>1, <2>2 DEF OpenInv, OpenOf
  <2> QED BY <1>1, <1>5, <2>3 DEF OpenInv
<1>7. CASE m.type = "getItems"
  <2> DEFINE a == [type |-> "items", items |-> cache[Main]]
  <2>1. state[v] = "loading" /\ v \in subscribed /\ toMain'[v] = <<>>
    BY <1>1, <1>2, <1>7, Asked
  <2>2. subscribed' = subscribed /\ pending' = pending /\ toWindow'[v] = Append(toWindow[v], a)
    BY <1>7 DEF MainReceives, Answer, TypeOK
  <2>3. a \in ToWindowMessages
    BY MainIsNoWindow DEF ToWindowMessages, TypeOK
  <2>4. \A i \in DOMAIN toWindow[v] : toWindow[v][i].type # "items"
    BY <1>1 DEF OpenInv, OpenOf
  <2>5. \A i \in DOMAIN toWindow'[v] : toWindow'[v][i].type = "items" => i = Len(toWindow[v]) + 1
    BY <1>3, <2>2, <2>3, <2>4, OneMore
  <2>6. OpenOf(v)'
    BY <1>1, <2>1, <2>2, <2>5 DEF OpenInv, OpenOf
  <2> QED BY <1>1, <1>5, <2>6 DEF OpenInv
<1>8. CASE m.type = "updateItems"
  <2> DEFINE a == [type |-> "updated"]
  <2>1. state[v] \in {"open", "closed"}
    BY <1>1, <1>8, Asked
  <2>2. subscribed' = subscribed /\ toWindow'[v] = Append(toWindow[v], a)
    BY <1>8 DEF MainReceives, Answer, TypeOK
  <2>3. a \in ToWindowMessages
    BY DEF ToWindowMessages
  <2>4. \A i \in DOMAIN toWindow[v] : toWindow[v][i].type # "items"
    BY <2>1 DEF OpenInv, OpenOf
  <2>5. \A i \in DOMAIN toWindow'[v] : toWindow'[v][i].type # "items"
    BY <1>3, <2>2, <2>3, <2>4, OneMore
  <2>6. \A i \in DOMAIN toMain'[v] : toMain'[v][i].type = "updateItems"
    BY <1>1, <1>2, <1>3, <2>1, HeadAndTail DEF OpenInv, OpenOf
  <2>7. OpenOf(v)'
    BY <1>1, <2>1, <2>2, <2>5, <2>6 DEF OpenInv, OpenOf
  <2> QED BY <1>1, <1>5, <2>7 DEF OpenInv
<1> QED BY <1>6, <1>7, <1>8 DEF MainReceives

\* Only windows that listen are told.
LEMMA BroadcastOpen ==
  ASSUME Inv, Broadcast
  PROVE  OpenInv'
<1> USE DEF Inv
<1> DEFINE a == [type |-> "changed", items |-> ChangeEvent]
<1>1. a \in ToWindowMessages
  BY DEF ToWindowMessages, ChangeEvent, Updates, TypeOK, Contents, Storages
<1>2. UNCHANGED <<state, pending, toMain, subscribed>>
  BY DEF Broadcast, storageVars
<1>3. ASSUME NEW w \in Windows PROVE OpenOf(w)'
  <2>1. CASE w \notin subscribed
    <3>1. toWindow'[w] = toWindow[w]
      BY <2>1 DEF Broadcast
    <3> QED BY <1>2, <3>1 DEF OpenInv, OpenOf
  <2>2. CASE w \in subscribed
    <3>1. toWindow'[w] = Append(toWindow[w], a) /\ toWindow[w] \in Seq(ToWindowMessages)
      BY <2>2 DEF Broadcast, TypeOK
    <3>2. \A i \in DOMAIN toWindow'[w] : toWindow'[w][i].type = "items" =>
             i \in DOMAIN toWindow[w] /\ toWindow'[w][i] = toWindow[w][i]
      BY <1>1, <3>1, OneMore
    <3>3. \A i \in DOMAIN toWindow'[w] : toWindow'[w][i].type = "items" =>
             /\ state[w] = "loading" /\ toMain[w] = <<>>
             /\ \A j \in DOMAIN toWindow'[w] : toWindow'[w][j].type = "items" => j = i
      BY <3>2 DEF OpenInv, OpenOf
    <3> QED BY <1>2, <2>2, <3>3 DEF OpenInv, OpenOf
  <2> QED BY <2>1, <2>2
<1> QED BY <1>2, <1>3 DEF OpenInv

\* SQLite answers the main process only.
LEMMA SqliteOpen ==
  ASSUME Inv, SqliteUpdate
  PROVE  OpenInv'
<1>1. PICK succeeded \in BOOLEAN : UpdateDone(Main, succeeded)
  BY DEF SqliteUpdate
<1>2. UNCHANGED <<state, toWindow, subscribed>>
  BY DEF SqliteUpdate
<1> QED BY <1>1, <1>2, UpdateDoneSays, SaysOpen, MainIsNoWindow DEF Inv
-----------------------------------------------------------------------------
(* What a sequence of messages says last.                                    *)

\* One more message says something last, or nothing.
LEMMA EndsAppend ==
  ASSUME NEW S, NEW q \in Seq(S), NEW m \in S, NEW k
  PROVE  LET p == Append(q, m)
         IN  /\ ~Carries(m, k) => Carriers(p, k) = Carriers(q, k)
                                  /\ \A v : Ends(p, k, v) <=> Ends(q, k, v)
             /\ Carries(m, k) => Carriers(p, k) # {} /\ \A v : Ends(p, k, v) <=> v = m.items[k]
<1> DEFINE p == Append(q, m)
           n == Len(q) + 1
<1>1. /\ n \in Nat /\ n \notin DOMAIN q /\ DOMAIN p = DOMAIN q \cup {n} /\ p[n] = m
      /\ \A i \in DOMAIN q : i \in Nat /\ i < n /\ p[i] = q[i]
  BY OneMore
<1> HIDE DEF p, n
<1>2. ASSUME ~Carries(m, k)
      PROVE  Carriers(p, k) = Carriers(q, k) /\ \A v : Ends(p, k, v) <=> Ends(q, k, v)
  <2>1. Carriers(p, k) = Carriers(q, k)
    BY <1>1, <1>2 DEF Carriers
  <2>2. \A i \in Carriers(q, k) : p[i] = q[i]
    BY <1>1 DEF Carriers
  <2> QED BY <2>1, <2>2 DEF Ends
<1>3. ASSUME Carries(m, k)
      PROVE  Carriers(p, k) # {} /\ \A v : Ends(p, k, v) <=> v = m.items[k]
  <2>1. n \in Carriers(p, k)
    BY <1>1, <1>3 DEF Carriers
  <2>2. \A i \in Carriers(p, k) : i \in Nat /\ i <= n /\ (n <= i => i = n)
    BY <1>1 DEF Carriers
  <2> QED BY <1>1, <2>1, <2>2 DEF Ends
<1> QED BY <1>2, <1>3 DEF p

\* The first message is handled: it was the last word, or it was not.
LEMMA EndsTail ==
  ASSUME NEW S, NEW q \in Seq(S), q # <<>>, NEW k
  PROVE  LET p == Tail(q)
         IN  /\ \A v : Ends(p, k, v) => Ends(q, k, v)
             /\ Carriers(p, k) # {} => \A v : Ends(q, k, v) => Ends(p, k, v)
             /\ Carriers(p, k) = {} /\ Carries(Head(q), k) =>
                   \A v : Ends(q, k, v) <=> v = Head(q).items[k]
             /\ Carriers(p, k) = {} /\ ~Carries(Head(q), k) => Carriers(q, k) = {}
<1> DEFINE p == Tail(q)
<1>1. /\ 1 \in DOMAIN q /\ Head(q) = q[1]
      /\ \A i \in DOMAIN p : i \in Nat /\ i + 1 # 1 /\ i + 1 \in DOMAIN q /\ p[i] = q[i + 1]
      /\ \A i \in DOMAIN q : i \in Nat /\ (i # 1 => i - 1 \in DOMAIN p)
  BY HeadAndTail
<1> HIDE DEF p
<1>2. \A i \in Carriers(p, k) : i \in Nat /\ i + 1 # 1 /\ i + 1 \in Carriers(q, k) /\ p[i] = q[i + 1]
  BY <1>1 DEF Carriers
<1>3. \A i \in Carriers(q, k) : i \in Nat /\ i >= 1 /\ (i # 1 => i - 1 \in Carriers(p, k))
  <2> SUFFICES ASSUME NEW i \in Carriers(q, k)
               PROVE  i \in Nat /\ i >= 1 /\ (i # 1 => i - 1 \in Carriers(p, k))
    OBVIOUS
  <2>1. i \in DOMAIN q /\ i \in Nat /\ i \in 1..Len(q)
    BY <1>1 DEF Carriers
  <2>2. i # 1 => i - 1 \in DOMAIN p /\ p[i - 1] = q[i]
    BY <1>1, <2>1
  <2> QED BY <2>1, <2>2 DEF Carriers
<1>4. 1 \in Carriers(q, k) <=> Carries(Head(q), k)
  BY <1>1 DEF Carriers
<1>5. ASSUME NEW v, Ends(p, k, v) PROVE Ends(q, k, v)
  <2>1. PICK i \in Carriers(p, k) : p[i].items[k] = v /\ \A j \in Carriers(p, k) : j <= i
    BY <1>5 DEF Ends
  <2>2. i \in Nat /\ i + 1 \in Carriers(q, k) /\ q[i + 1].items[k] = v
    BY <1>2, <2>1
  <2>3. ASSUME NEW j \in Carriers(q, k) PROVE j <= i + 1
    BY <1>3, <2>1, <2>2
  <2> QED BY <2>2, <2>3 DEF Ends
<1>6. ASSUME NEW v, Ends(q, k, v), Carriers(p, k) # {} PROVE Ends(p, k, v)
  <2>1. PICK i \in Carriers(q, k) : q[i].items[k] = v /\ \A j \in Carriers(q, k) : j <= i
    BY <1>6 DEF Ends
  <2>2. PICK c \in Carriers(p, k) : TRUE
    BY <1>6
  <2>3. i # 1
    BY <1>2, <2>1, <2>2
  <2>4. i - 1 \in Carriers(p, k) /\ i \in Nat
    BY <1>3, <2>3
  <2>5. p[i - 1] = q[i]
    BY <1>2, <2>4
  <2>6. ASSUME NEW j \in Carriers(p, k) PROVE j <= i - 1
    BY <1>2, <2>1, <2>4
  <2> QED BY <2>1, <2>4, <2>5, <2>6 DEF Ends
<1>7. ASSUME Carriers(p, k) = {}, Carries(Head(q), k)
      PROVE  \A v : Ends(q, k, v) <=> v = Head(q).items[k]
  <2>1. Carriers(q, k) = {1}
    BY <1>3, <1>4, <1>7
  <2> QED BY <1>1, <2>1 DEF Ends
<1>8. ASSUME Carriers(p, k) = {}, ~Carries(Head(q), k) PROVE Carriers(q, k) = {}
  BY <1>3, <1>4, <1>8
<1> QED BY <1>5, <1>6, <1>7, <1>8 DEF p
-----------------------------------------------------------------------------
(* Windows and the main process.                                             *)

\* Every value is told from "nothing".
LEMMA CachedValues ==
  ASSUME TypeOK, NEW s \in Storages, NEW k \in Keys
  PROVE  cache[s][k] \in Values \cup {Absent} /\ cache[s][k] # Same
BY StorageAssumption DEF TypeOK, Contents

\* What a window wrote stays ahead when it is flushed.
LEMMA StartFlushAhead ==
  ASSUME TypeOK, NEW s \in Storages, StartFlush(s),
         NEW w \in Windows, NEW k \in Keys, NEW c \in Values \cup {Absent}, Ahead(w, k, c)
  PROVE  Ahead(w, k, c)'
<1>1. CASE s # w
  <2>1. pending'[w] = pending[w] /\ toMain'[w] = toMain[w]
    BY <1>1, StartFlushEffect, MainIsNoWindow DEF StartFlush, Post, TypeOK
  <2> QED BY <2>1 DEF Ahead
<1>2. CASE s = w /\ pending[w] = NoUpdate
  <2>1. pending'[w] = pending[w] /\ toMain'[w] = toMain[w]
    BY <1>2, StartFlushEffect, MainIsNoWindow DEF StartFlush
  <2> QED BY <2>1 DEF Ahead
<1>3. CASE s = w /\ pending[w] # NoUpdate
  <2> DEFINE m == [type |-> "updateItems", items |-> pending[w]]
  <2>1. /\ m \in ToMainMessages /\ toMain[w] \in Seq(ToMainMessages)
        /\ pending[w] \in Updates
    BY MainIsNoWindow DEF ToMainMessages, TypeOK
  <2>2. toMain'[w] = Append(toMain[w], m)
    BY <1>3, MainIsNoWindow DEF StartFlush, Post, TypeOK
  <2>3. pending'[w][k] = Same
    BY <1>3, StartFlushEffect DEF NoUpdate
  <2>4. Carries(m, k) <=> pending[w][k] # Same
    BY DEF Carries
  <2>5. Ends(toMain'[w], k, c)
    <3>1. CASE pending[w][k] = c
      <4>1. Carries(m, k) /\ m.items[k] = c
        BY <2>4, <3>1, StorageAssumption
      <4> HIDE DEF m
      <4> QED BY <2>1, <2>2, <4>1, EndsAppend
    <3>2. CASE pending[w][k] = Same /\ Ends(toMain[w], k, c)
      <4>1. ~Carries(m, k)
        BY <2>4, <3>2
      <4> HIDE DEF m
      <4> QED BY <2>1, <2>2, <3>2, <4>1, EndsAppend
    <3> QED BY <3>1, <3>2 DEF Ahead
  <2> QED BY <2>3, <2>5 DEF Ahead
<1> QED BY <1>1, <1>2, <1>3

\* The same for the end of an update.
LEMMA UpdateDoneAhead ==
  ASSUME TypeOK, NEW s \in Storages, NEW succeeded, UpdateDone(s, succeeded),
         NEW w \in Windows, NEW k \in Keys, NEW c \in Values \cup {Absent}, Ahead(w, k, c)
  PROVE  Ahead(w, k, c)'
<1>1. CASE queued[s]
  BY <1>1, StartFlushAhead DEF UpdateDone
<1>2. CASE ~queued[s]
  BY <1>2 DEF UpdateDone, Ahead
<1> QED BY <1>1, <1>2

\* A window keeps in touch while it does nothing and the main process at most
\* owes more.
LEMMA SyncElsewhere ==
  ASSUME TypeOK, NEW w \in Windows, NEW k \in Keys, SyncOf(w, k), toWindow'[w] = toWindow[w],
         state'[w] \in {"loading", "open"} => state'[w] = state[w],
         cache'[w][k] = cache[w][k],
         \A c \in Values \cup {Absent} : Ahead(w, k, c) => Ahead(w, k, c)',
         k \in due => k \in due',
         k \in due' \/ cache'[Main][k] = cache[Main][k]
  PROVE  SyncOf(w, k)'
<1>1. Told(w, k) => Told(w, k)'
  BY DEF Told
<1>2. Agrees(w, k) => Agrees(w, k)'
  <2> SUFFICES ASSUME Agrees(w, k), Carriers(toWindow'[w], k) = {}, k \notin due'
               PROVE  cache'[w][k] = cache'[Main][k] \/ Ahead(w, k, cache[w][k])'
    BY DEF Agrees
  <2>1. CASE cache[w][k] = cache[Main][k]
    BY <2>1
  <2>2. CASE Ahead(w, k, cache[w][k])
    <3>1. PICK c \in Values \cup {Absent} : c = cache[w][k]
      BY CachedValues, MainIsNoWindow
    <3>2. Ahead(w, k, c)'
      BY <2>2, <3>1
    <3> QED BY <3>1, <3>2 DEF Ahead
  <2> QED BY <2>1, <2>2 DEF Agrees
<1> QED BY <1>1, <1>2 DEF SyncOf

\* A change of main's cache is due.
LEMMA MainStores ==
  ASSUME TypeOK, NEW u \in Updates, Store(Main, u), NEW k \in Keys
  PROVE  /\ k \in due => k \in due'
         /\ k \in due' \/ cache'[Main][k] = cache[Main][k]
         /\ state[Main] = "open" /\ u[k] # Same => k \in due' \/ u[k] = cache'[Main][k]
         /\ \A w \in Windows : cache'[w] = cache[w] /\ pending'[w] = pending[w]
<1>1. due' = due \cup Changed(Main, u)
  BY DEF Store
<1>2. \A w \in Windows : cache'[w] = cache[w] /\ pending'[w] = pending[w]
  BY StoreClosed, MainIsNoWindow
<1>3. k \notin Changed(Main, u) => cache'[Main][k] = cache[Main][k]
  <2>1. cache'[Main] = Overlay(cache[Main], Accepted(Main, u))
    BY MainIsNoWindow DEF Store, TypeOK
  <2> QED BY <2>1 DEF Overlay, Accepted
<1>4. state[Main] = "open" /\ u[k] # Same /\ k \notin Changed(Main, u) => u[k] = cache[Main][k]
  BY DEF Changed
<1> QED BY <1>1, <1>2, <1>3, <1>4

\* set() and delete() put a window ahead, and main's are due.
LEMMA SetSync ==
  ASSUME Inv, NEW s \in Storages, NEW j \in Keys, NEW v \in Values \cup {Absent}, Set(s, j, v)
  PROVE  SyncInv'
<1> USE DEF Inv
<1> DEFINE u == [NoUpdate EXCEPT ![j] = v]
<1>1. u \in Updates /\ Store(s, u)
  BY NoUpdateIsUpdate DEF Updates, NoUpdate, Set
<1>2. UNCHANGED <<state, toMain, toWindow>>
  BY DEF Set
<1> HIDE DEF u
<1> SUFFICES ASSUME NEW w \in Windows, NEW k \in Keys PROVE SyncOf(w, k)'
  BY DEF SyncInv
<1>3. CASE s = Main
  <2>1. /\ cache'[w] = cache[w] /\ pending'[w] = pending[w]
        /\ k \in due => k \in due'
        /\ k \in due' \/ cache'[Main][k] = cache[Main][k]
    BY <1>1, <1>3, MainStores
  <2>2. \A c \in Values \cup {Absent} : Ahead(w, k, c) => Ahead(w, k, c)'
    BY <1>2, <2>1 DEF Ahead
  <2> QED BY <1>2, <2>1, <2>2, SyncElsewhere DEF SyncInv
<1>4. CASE s # Main
  <2>1. due' = due /\ cache'[Main] = cache[Main]
    BY <1>1, <1>4, StoreClosed, MainIsNoWindow DEF Store
  <2>2. CASE w # s \/ k \notin Changed(s, u)
    <3>1. cache'[w][k] = cache[w][k] /\ pending'[w][k] = pending[w][k]
      <4>1. CASE w # s
        BY <1>1, <4>1, StoreClosed, MainIsNoWindow
      <4>2. CASE w = s /\ k \notin Changed(s, u)
        <5>1. /\ cache'[s] = Overlay(cache[s], Accepted(s, u))
              /\ pending'[s] = Overlay(pending[s], Accepted(s, u))
          BY <1>1 DEF Store, TypeOK
        <5> QED BY <4>2, <5>1 DEF Overlay, Accepted
      <4> QED BY <2>2, <4>1, <4>2
    <3>2. \A c \in Values \cup {Absent} : Ahead(w, k, c) => Ahead(w, k, c)'
      BY <1>2, <3>1 DEF Ahead
    <3> QED BY <1>2, <2>1, <3>1, <3>2, SyncElsewhere DEF SyncInv
  <2>3. CASE w = s /\ k \in Changed(s, u)
    <3>1. /\ cache'[s] = Overlay(cache[s], Accepted(s, u))
          /\ pending'[s] = Overlay(pending[s], Accepted(s, u))
      BY <1>1 DEF Store, TypeOK
    <3>2. cache'[w][k] = u[k] /\ pending'[w][k] = u[k]
      BY <2>3, <3>1 DEF Overlay, Accepted, Changed
    <3>3. Agrees(w, k)'
      BY <3>2 DEF Agrees, Ahead
    <3>4. Told(w, k) => Told(w, k)'
      BY <1>2, <2>1 DEF Told
    <3> QED BY <1>2, <3>3, <3>4 DEF SyncOf, SyncInv
  <2> QED BY <2>2, <2>3
<1> QED BY <1>3, <1>4

\* A flush leaves every window as far ahead as it was.
LEMMA TimerSync ==
  ASSUME Inv, NEW s \in Storages, TimerFires(s)
  PROVE  SyncInv'
<1> USE DEF Inv
<1>1. UNCHANGED <<cache, state, toWindow, due>>
  BY DEF TimerFires
<1> SUFFICES ASSUME NEW w \in Windows, NEW k \in Keys PROVE SyncOf(w, k)'
  BY DEF SyncInv
<1>2. \A c \in Values \cup {Absent} : Ahead(w, k, c) => Ahead(w, k, c)'
  <2>1. CASE StartFlush(s)
    BY <2>1, StartFlushAhead
  <2>2. CASE UNCHANGED <<pending, toMain>>
    BY <2>2 DEF Ahead
  <2> QED BY <2>1, <2>2 DEF TimerFires
<1> QED BY <1>1, <1>2, SyncElsewhere DEF SyncInv

\* A closed window need not agree.
LEMMA CloseSync ==
  ASSUME Inv, NEW s \in Storages, Close(s) \/ CloseDatabase(s)
  PROVE  SyncInv'
<1> USE DEF Inv
<1>1. UNCHANGED <<cache, pending, toMain, toWindow, due>>
  BY DEF Close, CloseDatabase
<1>2. \A w \in Windows : state'[w] \in {"loading", "open"} => state'[w] = state[w]
  BY MainIsNoWindow DEF Close, CloseDatabase, TypeOK
<1> SUFFICES ASSUME NEW w \in Windows, NEW k \in Keys PROVE SyncOf(w, k)'
  BY DEF SyncInv
<1>3. \A c \in Values \cup {Absent} : Ahead(w, k, c) => Ahead(w, k, c)'
  BY <1>1 DEF Ahead
<1> QED BY <1>1, <1>2, <1>3, SyncElsewhere DEF SyncInv

\* A window that opens was told nothing yet.
LEMMA OpenSync ==
  ASSUME Inv, NEW v \in Windows, Open(v)
  PROVE  SyncInv'
<1> USE DEF Inv
<1>1. /\ state' = [state EXCEPT ![v] = "loading"] /\ state[v] = "none"
      /\ toMain' = [toMain EXCEPT ![v] = OpeningRequests]
      /\ UNCHANGED <<cache, pending, toWindow, due>>
  BY DEF Open
<1> SUFFICES ASSUME NEW w \in Windows, NEW k \in Keys PROVE SyncOf(w, k)'
  BY DEF SyncInv
<1>2. CASE w # v
  <2>1. state'[w] = state[w] /\ toMain'[w] = toMain[w]
    BY <1>1, <1>2, MainIsNoWindow DEF TypeOK
  <2>2. \A c \in Values \cup {Absent} : Ahead(w, k, c) => Ahead(w, k, c)'
    BY <1>1, <2>1 DEF Ahead
  <2> QED BY <1>1, <2>1, <2>2, SyncElsewhere DEF SyncInv
<1>3. CASE w = v
  <2>1. toWindow'[w] = <<>> /\ state'[w] = "loading"
    BY <1>1, <1>3, MainIsNoWindow DEF TypeOK, OpenInv, OpenOf
  <2>2. ~ \E c : Ends(toWindow'[w], k, c)
    BY <2>1 DEF Ends, Carriers
  <2> QED BY <2>1, <2>2 DEF SyncOf, Told
<1> QED BY <1>2, <1>3

\* Items and changes: the last word is the main process's, or more is due.
LEMMA WindowReceivesSync ==
  ASSUME Inv, NEW v \in Windows, WindowReceives(v)
  PROVE  SyncInv'
<1> USE DEF Inv
<1> DEFINE q == toWindow[v]
           m == Head(q)
<1>1. q \in Seq(ToWindowMessages) /\ q # <<>> /\ m \in ToWindowMessages
  BY DEF WindowReceives, TypeOK
<1>2. toWindow'[v] = Tail(q) /\ \A w \in Windows \ {v} : toWindow'[w] = toWindow[w]
  BY DEF WindowReceives, TypeOK
<1>3. due' = due /\ cache'[Main] = cache[Main] /\ \A w \in Windows \ {v} : cache'[w] = cache[w]
  BY MainIsNoWindow DEF WindowReceives, TypeOK
<1>4. \A w \in Windows \ {v} : state'[w] = state[w]
  BY MainIsNoWindow DEF WindowReceives, TypeOK
<1> SUFFICES ASSUME NEW w \in Windows, NEW k \in Keys PROVE SyncOf(w, k)'
  BY DEF SyncInv
<1>5. \A c \in Values \cup {Absent} : Ahead(w, k, c) => Ahead(w, k, c)'
  <2>1. CASE m.type \in {"items", "changed"}
    BY <2>1 DEF WindowReceives, Ahead
  <2>2. CASE m.type = "updated"
    <3>1. UpdateDone(v, TRUE)
      BY <2>2 DEF WindowReceives
    <3> QED BY <3>1, UpdateDoneAhead, MainIsNoWindow
  <2> QED BY <2>1, <2>2 DEF WindowReceives
<1>6. CASE w # v
  BY <1>2, <1>3, <1>4, <1>5, <1>6, SyncElsewhere DEF SyncInv
<1>7. CASE w = v
  <2>1. /\ \A c : Ends(Tail(q), k, c) => Ends(q, k, c)
        /\ Carriers(Tail(q), k) = {} /\ Carries(m, k) => \A c : Ends(q, k, c) <=> c = m.items[k]
        /\ Carriers(Tail(q), k) = {} /\ ~Carries(m, k) => Carriers(q, k) = {}
    BY <1>1, EndsTail
  <2>2. state'[v] \in {"loading", "open"} => state[v] \in {"loading", "open"}
    <3>1. CASE m.type = "items"
      <4>1. 1 \in DOMAIN q /\ m = q[1]
        BY <1>1
      <4> QED BY <3>1, <4>1 DEF OpenInv, OpenOf
    <3>2. CASE m.type # "items"
      BY <3>2 DEF WindowReceives
    <3> QED BY <3>1, <3>2
  <2>3. Told(v, k) => Told(v, k)'
    BY <1>2, <1>3, <2>1 DEF Told
  <2>4. ASSUME state'[v] = "open" PROVE Agrees(v, k)'
    <3> SUFFICES ASSUME Carriers(Tail(q), k) = {}, k \notin due
                 PROVE  cache'[v][k] = cache[Main][k] \/ Ahead(v, k, cache[v][k])'
      BY <1>2, <1>3 DEF Agrees
    <3>1. CASE Carries(m, k)
      <4>1. m.items[k] \in Values \cup {Absent}
        BY <1>1, <3>1 DEF Carries, ToWindowMessages, Contents, Updates
      <4>2. Ends(q, k, m.items[k])
        BY <2>1, <3>1
      <4>3. m.items[k] = cache[Main][k]
        BY <2>2, <2>4, <4>1, <4>2 DEF SyncInv, SyncOf, Told
      <4>4. cache'[v][k] = m.items[k]
        <5>1. CASE m.type = "items"
          BY <5>1, MainIsNoWindow DEF WindowReceives, TypeOK
        <5>2. CASE m.type = "changed"
          <6>1. state'[v] = state[v] /\ cache'[v] = AcceptExternal(v, m.items)
            BY <5>2, MainIsNoWindow DEF WindowReceives, TypeOK
          <6>2. cache'[v] = Overlay(cache[v], m.items)
            BY <2>4, <6>1 DEF AcceptExternal
          <6> QED BY <3>1, <6>2 DEF Overlay, Carries
        <5> QED BY <1>1, <3>1, <5>1, <5>2 DEF Carries, ToWindowMessages
      <4> QED BY <4>3, <4>4
    <3>2. CASE ~Carries(m, k)
      <4>1. Carriers(q, k) = {}
        BY <2>1, <3>2
      <4>2. m.type # "items"
        BY <1>1, <3>2, StorageAssumption DEF Carries, ToWindowMessages, Contents
      <4>3. state[v] = "open"
        BY <2>4, <4>2 DEF WindowReceives
      <4>4. cache'[v][k] = cache[v][k]
        <5>1. CASE m.type = "changed"
          <6>1. cache'[v] = Overlay(cache[v], m.items)
            BY <4>3, <5>1, MainIsNoWindow DEF WindowReceives, AcceptExternal, TypeOK
          <6> QED BY <3>2, <5>1, <6>1 DEF Overlay, Carries
        <5>2. CASE m.type = "updated"
          BY <5>2 DEF WindowReceives
        <5> QED BY <4>2, <5>1, <5>2 DEF WindowReceives
      <4>5. cache[v][k] = cache[Main][k] \/ Ahead(v, k, cache[v][k])
        BY <4>1, <4>3 DEF SyncInv, SyncOf, Agrees
      <4>6. PICK c \in Values \cup {Absent} : c = cache[v][k]
        BY CachedValues, MainIsNoWindow
      <4>7. Ahead(v, k, c) => Ahead(v, k, c)'
        BY <1>5, <1>7
      <4>8. CASE cache[v][k] = cache[Main][k]
        BY <4>4, <4>8
      <4>9. CASE Ahead(v, k, cache[v][k])
        <5>1. Ahead(v, k, c)'
          BY <4>6, <4>7, <4>9
        <5> QED BY <4>4, <4>6, <5>1 DEF Ahead
      <4> QED BY <4>5, <4>8, <4>9
    <3> QED BY <3>1, <3>2
  <2> QED BY <1>7, <2>2, <2>3, <2>4 DEF SyncInv, SyncOf
<1> QED BY <1>6, <1>7

\* The main process answers with what it has; what it stores is due, unless it
\* has it already, and then the window that wrote it agrees.
LEMMA MainReceivesSync ==
  ASSUME Inv, NEW v \in Windows, MainReceives(v)
  PROVE  SyncInv'
<1> USE DEF Inv
<1> DEFINE q == toMain[v]
           m == Head(q)
<1>1. q \in Seq(ToMainMessages) /\ q # <<>> /\ m \in ToMainMessages
  BY DEF MainReceives, TypeOK
<1>2. /\ toMain'[v] = Tail(q) /\ \A w \in Windows \ {v} : toMain'[w] = toMain[w]
      /\ state' = state
  BY DEF MainReceives, TypeOK
<1>3. toWindow[v] \in Seq(ToWindowMessages)
  BY DEF TypeOK
<1> SUFFICES ASSUME NEW w \in Windows, NEW k \in Keys PROVE SyncOf(w, k)'
  BY DEF SyncInv
<1>4. /\ \A c : Carriers(Tail(q), k) # {} /\ Ends(q, k, c) => Ends(Tail(q), k, c)
      /\ Carriers(Tail(q), k) = {} /\ Carries(m, k) => \A c : Ends(q, k, c) <=> c = m.items[k]
      /\ Carriers(Tail(q), k) = {} /\ ~Carries(m, k) => Carriers(q, k) = {}
  BY <1>1, EndsTail
<1>5. CASE m.type = "listen"
  <2>1. UNCHANGED <<cache, pending, due, toWindow>>
    BY <1>5 DEF MainReceives
  <2>2. CASE w # v
    <3>1. \A c \in Values \cup {Absent} : Ahead(w, k, c) => Ahead(w, k, c)'
      BY <1>2, <2>1, <2>2 DEF Ahead
    <3> QED BY <1>2, <2>1, <2>2, <3>1, SyncElsewhere DEF SyncInv
  <2>3. CASE w = v
    <3>1. state[v] = "loading"
      BY <1>1, <1>5, Asked
    <3> QED BY <1>2, <2>1, <2>3, <3>1 DEF SyncInv, SyncOf, Told
  <2> QED BY <2>2, <2>3
<1>6. CASE m.type = "getItems"
  <2> DEFINE a == [type |-> "items", items |-> cache[Main]]
  <2>1. /\ UNCHANGED <<cache, pending, due>>
        /\ toWindow'[v] = Append(toWindow[v], a)
        /\ \A x \in Windows \ {v} : toWindow'[x] = toWindow[x]
    BY <1>6 DEF MainReceives, Answer, TypeOK
  <2>2. CASE w # v
    <3>1. \A c \in Values \cup {Absent} : Ahead(w, k, c) => Ahead(w, k, c)'
      BY <1>2, <2>1, <2>2 DEF Ahead
    <3> QED BY <1>2, <2>1, <2>2, <3>1, SyncElsewhere DEF SyncInv
  <2>3. CASE w = v
    <3>1. state[v] = "loading"
      BY <1>1, <1>6, Asked
    <3>2. a \in ToWindowMessages /\ Carries(a, k) /\ a.items[k] = cache[Main][k]
      BY CachedValues, MainIsNoWindow DEF ToWindowMessages, TypeOK, Carries
    <3> HIDE DEF a
    <3>3. \A c : Ends(toWindow'[v], k, c) <=> c = cache[Main][k]
      BY <1>3, <2>1, <3>2, EndsAppend
    <3> QED BY <1>2, <2>1, <2>3, <3>1, <3>3 DEF SyncOf, Told
  <2> QED BY <2>2, <2>3
<1>7. CASE m.type = "updateItems"
  <2> DEFINE a == [type |-> "updated"]
  <2>1. /\ m.items \in Updates /\ Store(Main, m.items)
        /\ toWindow'[v] = Append(toWindow[v], a)
        /\ \A x \in Windows \ {v} : toWindow'[x] = toWindow[x]
    BY <1>1, <1>7 DEF MainReceives, Answer, ToMainMessages, TypeOK
  <2>2. /\ k \in due => k \in due'
        /\ k \in due' \/ cache'[Main][k] = cache[Main][k]
        /\ state[Main] = "open" /\ m.items[k] # Same =>
              k \in due' \/ m.items[k] = cache'[Main][k]
        /\ \A x \in Windows : cache'[x] = cache[x] /\ pending'[x] = pending[x]
    BY <2>1, MainStores
  <2>3. CASE w # v
    <3>1. \A c \in Values \cup {Absent} : Ahead(w, k, c) => Ahead(w, k, c)'
      BY <1>2, <2>2, <2>3 DEF Ahead
    <3> QED BY <1>2, <2>1, <2>2, <2>3, <3>1, SyncElsewhere DEF SyncInv
  <2>4. CASE w = v
    <3>1. a \in ToWindowMessages /\ ~Carries(a, k)
      BY DEF ToWindowMessages, Carries
    <3> HIDE DEF a
    <3>2. /\ Carriers(toWindow'[v], k) = Carriers(toWindow[v], k)
          /\ \A c : Ends(toWindow'[v], k, c) <=> Ends(toWindow[v], k, c)
      BY <1>3, <2>1, <3>1, EndsAppend
    <3>3. Told(v, k) => Told(v, k)'
      BY <2>2, <3>2 DEF Told
    <3>4. ASSUME state[v] = "open", Agrees(v, k) PROVE Agrees(v, k)'
      <4> SUFFICES ASSUME Carriers(toWindow[v], k) = {}, k \notin due', k \notin due
                   PROVE  cache[v][k] = cache'[Main][k] \/ Ahead(v, k, cache[v][k])'
        BY <2>2, <3>2 DEF Agrees
      <4>1. state[Main] = "open"
        BY <3>4 DEF OpenInv, OpenOf
      <4>2. CASE cache[v][k] = cache[Main][k]
        BY <2>2, <4>2
      <4>3. CASE pending[v][k] = cache[v][k]
        BY <2>2, <4>3 DEF Ahead
      <4>4. CASE pending[v][k] = Same /\ Ends(q, k, cache[v][k])
        <5>1. CASE Carriers(Tail(q), k) # {}
          <6>1. Ends(Tail(q), k, cache[v][k])
            BY <1>4, <4>4, <5>1
          <6> QED BY <1>2, <2>2, <4>4, <6>1 DEF Ahead
        <5>2. CASE Carriers(Tail(q), k) = {}
          <6>1. Carriers(q, k) # {}
            BY <4>4 DEF Ends
          <6>2. Carries(m, k) /\ cache[v][k] = m.items[k]
            BY <1>4, <4>4, <5>2, <6>1
          <6> QED BY <2>2, <4>1, <6>2 DEF Carries
        <5> QED BY <5>1, <5>2
      <4> QED BY <3>4, <4>2, <4>3, <4>4 DEF Agrees, Ahead
    <3> QED BY <1>2, <2>4, <3>3, <3>4 DEF SyncInv, SyncOf
  <2> QED BY <2>3, <2>4
<1> QED BY <1>5, <1>6, <1>7 DEF MainReceives

\* What was due is said, as it is now.
LEMMA BroadcastSync ==
  ASSUME Inv, Broadcast
  PROVE  SyncInv'
<1> USE DEF Inv
<1> DEFINE a == [type |-> "changed", items |-> ChangeEvent]
<1>1. a \in ToWindowMessages
  BY DEF ToWindowMessages, ChangeEvent, Updates, TypeOK, Contents, Storages
<1>2. UNCHANGED <<state, cache, pending, toMain, subscribed>> /\ due' = {}
  BY DEF Broadcast, storageVars
<1> SUFFICES ASSUME NEW w \in Windows, NEW k \in Keys PROVE SyncOf(w, k)'
  BY DEF SyncInv
<1>3. Carries(a, k) <=> k \in due
  BY CachedValues, MainIsNoWindow DEF Carries, ChangeEvent
<1>4. k \in due => a.items[k] = cache[Main][k]
  BY DEF ChangeEvent
<1> HIDE DEF a
<1>5. CASE w \in subscribed
  <2>1. toWindow'[w] = Append(toWindow[w], a) /\ toWindow[w] \in Seq(ToWindowMessages)
    BY <1>5 DEF Broadcast, TypeOK, a
  <2>2. CASE k \in due
    <3>1. /\ Carriers(toWindow'[w], k) # {}
          /\ \A c : Ends(toWindow'[w], k, c) <=> c = a.items[k]
      BY <1>1, <1>3, <2>1, <2>2, EndsAppend
    <3> QED BY <1>2, <1>4, <2>2, <3>1 DEF SyncOf, Told, Agrees
  <2>3. CASE k \notin due
    <3>1. /\ Carriers(toWindow'[w], k) = Carriers(toWindow[w], k)
          /\ \A c : Ends(toWindow'[w], k, c) <=> Ends(toWindow[w], k, c)
      BY <1>1, <1>3, <2>1, <2>3, EndsAppend
    <3> QED BY <1>2, <2>3, <3>1 DEF SyncInv, SyncOf, Told, Agrees, Ahead
  <2> QED BY <2>2, <2>3
<1>6. CASE w \notin subscribed
  <2>1. toWindow'[w] = toWindow[w]
    BY <1>6 DEF Broadcast
  <2>2. state[w] # "open"
    BY <1>6 DEF OpenInv, OpenOf
  <2>3. state[w] = "loading" => toWindow[w] = <<>>
    BY <1>6 DEF OpenInv, OpenOf
  <2>4. ~ \E c : Ends(<<>>, k, c)
    BY DEF Ends, Carriers
  <2> QED BY <1>2, <2>1, <2>2, <2>3, <2>4 DEF SyncOf, Told
<1> QED BY <1>5, <1>6

\* SQLite is no concern of the windows.
LEMMA SqliteSync ==
  ASSUME Inv, SqliteUpdate
  PROVE  SyncInv'
<1> USE DEF Inv
<1>1. PICK succeeded \in BOOLEAN : UpdateDone(Main, succeeded)
  BY DEF SqliteUpdate
<1>2. UNCHANGED <<cache, state, toWindow, due>>
  BY DEF SqliteUpdate
<1> SUFFICES ASSUME NEW w \in Windows, NEW k \in Keys PROVE SyncOf(w, k)'
  BY DEF SyncInv
<1>3. \A c \in Values \cup {Absent} : Ahead(w, k, c) => Ahead(w, k, c)'
  BY <1>1, UpdateDoneAhead, MainIsNoWindow
<1> QED BY <1>2, <1>3, SyncElsewhere DEF SyncInv
-----------------------------------------------------------------------------
(* The theorems.                                                             *)

\* At first nothing is written, and no window is there.
LEMMA InvInitially == Init => Inv
<1> SUFFICES ASSUME Init PROVE Inv
  OBVIOUS
<1>1. TypeOK
  BY Initially
<1>2. FlushInv
  BY DEF Init, FlushInv, FlushOf
<1>3. SqliteInv
  <2>1. db \in Contents /\ running[Main] = NoUpdate /\ pending[Main] = NoUpdate
        /\ cache[Main] = db /\ closing[Main] = "no"
    BY <1>1, MainIsNoWindow DEF Init, TypeOK
  <2>2. cache[Main] = Overlay(Overlay(db, running[Main]), pending[Main])
    BY <2>1, OverlayNothing
  <2> QED BY <2>1, <2>2 DEF Init, SqliteInv
<1>4. OpenInv
  BY MainIsNoWindow DEF Init, OpenInv, OpenOf
<1>5. SyncInv
  BY MainIsNoWindow DEF Init, SyncInv, SyncOf
<1> QED BY <1>1, <1>2, <1>3, <1>4, <1>5 DEF Inv

\* Every step preserves the invariant.
LEMMA Invariance == Spec => []Inv
<1>1. Inv /\ [Next]_vars => Inv'
  <2> SUFFICES ASSUME Inv, [Next]_vars PROVE Inv'
    OBVIOUS
  <2>1. TypeOK'
    BY TypesStep DEF Inv
  <2>2. ASSUME NEW s \in Storages, TimerFires(s)
        PROVE  FlushInv' /\ SqliteInv' /\ OpenInv' /\ SyncInv'
    BY <2>2, TimerFlush, TimerOpen, TimerSync
  <2>3. ASSUME NEW s \in Storages, Close(s)
        PROVE  FlushInv' /\ SqliteInv' /\ OpenInv' /\ SyncInv'
    BY <2>3, CloseFlush, CloseOpen, CloseSync
  <2>4. ASSUME NEW s \in Storages, CloseDatabase(s)
        PROVE  FlushInv' /\ SqliteInv' /\ OpenInv' /\ SyncInv'
    BY <2>4, CloseDatabaseFlush, CloseDatabaseOpen, CloseSync
  <2>5. ASSUME NEW s \in Storages, NEW k \in Keys, NEW v \in Values \cup {Absent}, Set(s, k, v)
        PROVE  FlushInv' /\ SqliteInv' /\ OpenInv' /\ SyncInv'
    BY <2>5, SetFlush, SetOpen, SetSync
  <2>6. ASSUME NEW w \in Windows, Open(w)
        PROVE  FlushInv' /\ SqliteInv' /\ OpenInv' /\ SyncInv'
    BY <2>6, OpenFlush, OpenOpen, OpenSync
  <2>7. ASSUME NEW w \in Windows, WindowReceives(w)
        PROVE  FlushInv' /\ SqliteInv' /\ OpenInv' /\ SyncInv'
    BY <2>7, WindowReceivesFlush, WindowReceivesOpen, WindowReceivesSync
  <2>8. ASSUME NEW w \in Windows, MainReceives(w)
        PROVE  FlushInv' /\ SqliteInv' /\ OpenInv' /\ SyncInv'
    BY <2>8, MainReceivesFlush, MainReceivesOpen, MainReceivesSync
  <2>9. CASE Broadcast
    BY <2>1, <2>9, BroadcastFlush, BroadcastOpen, BroadcastSync DEF Inv
  <2>10. CASE SqliteUpdate
    BY <2>1, <2>10, SqliteFlush, SqliteOpen, SqliteSync DEF Inv
  <2>11. CASE UNCHANGED vars
    <3>1. FlushInv' /\ SqliteInv'
      BY <2>11 DEF Inv, FlushInv, FlushOf, SqliteInv, vars, storageVars
    <3>2. OpenInv'
      BY <2>11 DEF Inv, OpenInv, OpenOf, vars, storageVars
    <3>3. SyncInv'
      BY <2>11 DEF Inv, SyncInv, SyncOf, Told, Agrees, Ahead, vars, storageVars
    <3> QED BY <2>1, <3>1, <3>2, <3>3 DEF Inv
  <2> QED
    BY <2>1, <2>2, <2>3, <2>4, <2>5, <2>6, <2>7, <2>8, <2>9, <2>10, <2>11 DEF Next, Inv
<1> QED BY <1>1, InvInitially, PTL DEF Spec

\* Whatever windows write, and however their flushes and the main process's queue
\* up behind each other, main's cache differs from SQLite only by what is being
\* written or waits with a flush to come.
THEOREM NoWriteLost == Spec => []EveryWriteAccounted
<1>1. Inv => EveryWriteAccounted
  BY DEF Inv, EveryWriteAccounted, FlushInv, FlushOf, SqliteInv
<1> QED BY <1>1, Invariance, PTL

\* close() is done only behind the last write, and what SQLite has then is the
\* cache, also when updates failed.
THEOREM DurableClose == Spec => []CloseIsDurable
<1>1. Inv => CloseIsDurable
  BY DEF Inv, CloseIsDurable, FlushInv, FlushOf, SqliteInv
<1> QED BY <1>1, Invariance, PTL

\* When nothing is under way any more, every open window has the contents of the
\* main process, although it was ahead of it, behind it, or both.
THEOREM Convergence == Spec => []Converges
<1>1. Inv => Converges
  <2> SUFFICES ASSUME Inv, Quiet, NEW w \in Windows, state[w] = "open"
               PROVE  cache[w] = cache[Main]
    BY DEF Converges
  <2>1. toWindow[w] = <<>> /\ toMain[w] = <<>> /\ due = {} /\ pending[w] = NoUpdate
    BY MainIsNoWindow DEF Quiet
  <2>2. ASSUME NEW k \in Keys PROVE cache[w][k] = cache[Main][k]
    <3>1. Carriers(<<>>, k) = {} /\ \A c : ~Ends(<<>>, k, c)
      BY DEF Ends, Carriers
    <3>2. pending[w][k] # cache[w][k]
      BY <2>1, CachedValues, MainIsNoWindow DEF NoUpdate, Inv
    <3>3. Agrees(w, k)
      BY DEF Inv, SyncInv, SyncOf
    <3> QED BY <2>1, <3>1, <3>2, <3>3 DEF Agrees, Ahead
  <2>3. cache[w] \in Contents /\ cache[Main] \in Contents
    BY MainIsNoWindow DEF Inv, TypeOK
  <2> QED BY <2>2, <2>3 DEF Contents
<1> QED BY <1>1, Invariance, PTL
=============================================================================
