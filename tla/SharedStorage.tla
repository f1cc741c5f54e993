---------------------------- MODULE SharedStorage ----------------------------
(***************************************************************************)
(* One key-value store shared by the windows and the main process.  Every  *)
(* window and the main process have a Storage (base/parts/storage/common):  *)
(* a cache, the inserts and deletes that wait to be flushed, and a flush    *)
(* that a ThrottledDelayer delays and never runs twice at a time.  The      *)
(* database of a window's Storage is the StorageDatabaseChannel of the main *)
(* process, reached over an IPC channel; that of main's Storage is SQLite.  *)
(* Changes of main's Storage are broadcast to the windows, debounced.  A    *)
(* pending insert or delete of a key is its new value (Absent when it is    *)
(* deleted), Same when there is none.                                       *)
(***************************************************************************)
EXTENDS Naturals, Sequences

CONSTANTS Windows, Keys, Values,
          Absent,       \* the "value" of a key that is not in the store
          Same,         \* nothing pending for a key
          MaxWrites,    \* bound: calls of set() and delete() that change a cache
          MaxFailures   \* bound: SQLite errors

Main == "main"
Storages == Windows \cup {Main}
Contents == [Keys -> Values \cup {Absent}]
Updates == [Keys -> Values \cup {Absent, Same}]
NoUpdate == [k \in Keys |-> Same]

ASSUME StorageAssumption ==
    /\ Main \notin Windows
    /\ Absent \notin Values /\ Same \notin Values \cup {Absent}
    /\ MaxWrites \in Nat /\ MaxFailures \in Nat

VARIABLES
  \* per Storage
    cache, pending,
    state,      \* "none", "loading" (init awaits getItems), "open" or "closed"
    timer,      \* flushDelayer: the timer is armed
    running,    \* Throttler.activePromise: the update under way, if any
    queued,     \* Throttler.queuedPromise: a flush will follow the running one
    closing,    \* how far doClose() has come
  \* the channel between each window and the main process
    toMain, toWindow,
    subscribed, \* windows that listen to onDidChangeStorage
    due,        \* the keys the debounced broadcast is going to tell about
  \* SQLite
    db,
    erroneous,  \* isErroneous of the connection
  \* bounds
    writes, failures

storageVars == <<cache, pending, state, timer, running, queued, closing>>
vars == <<storageVars, toMain, toWindow, subscribed, due, db, erroneous, writes, failures>>

Overlay(c, u) == [k \in Keys |-> IF u[k] = Same THEN c[k] ELSE u[k]]

Init ==
    /\ db = [k \in Keys |-> Absent]
    /\ cache = [s \in Storages |-> [k \in Keys |-> Absent]]
    /\ pending = [s \in Storages |-> NoUpdate]
    /\ state = [s \in Storages |-> IF s = Main THEN "open" ELSE "none"]
    /\ timer = [s \in Storages |-> FALSE]
    /\ running = [s \in Storages |-> NoUpdate]
    /\ queued = [s \in Storages |-> FALSE]
    /\ closing = [s \in Storages |-> "no"]
    /\ toMain = [w \in Windows |-> <<>>] /\ toWindow = [w \in Windows |-> <<>>]
    /\ subscribed = {} /\ due = {}
    /\ erroneous = FALSE /\ writes = 0 /\ failures = 0
-----------------------------------------------------------------------------
(* Storage: set, delete, the flush and close.                                *)

Post(w, m) == toMain' = [toMain EXCEPT ![w] = Append(@, m)]

\* What set() and delete() change: nothing for a value that is in the cache
\* already, and nothing once the Storage is closed.
Changed(s, u) ==
    {k \in Keys : state[s] # "closed" /\ u[k] # Same /\ u[k] # cache[s][k]}

Accepted(s, u) == [k \in Keys |-> IF k \in Changed(s, u) THEN u[k] ELSE Same]

\* set() and delete() for the keys of u: the cache, the pending updates, and
\* doFlush(), which arms the timer; main's onDidChangeStorage fires.
Store(s, u) ==
    /\ cache' = [cache EXCEPT ![s] = Overlay(@, Accepted(s, u))]
    /\ pending' = [pending EXCEPT ![s] = Overlay(@, Accepted(s, u))]
    /\ timer' = [timer EXCEPT ![s] = @ \/ Changed(s, u) # {}]
    /\ due' = IF s = Main THEN due \cup Changed(s, u) ELSE due

Set(s, k, v) ==
    /\ state[s] = "open" /\ writes < MaxWrites
    /\ v # cache[s][k]
    /\ Store(s, [NoUpdate EXCEPT ![k] = v])
    /\ writes' = writes + 1
    /\ UNCHANGED <<state, running, queued, closing, toMain, toWindow, subscribed,
                   db, erroneous, failures>>

KeepPending(s) == pending[s]

\* "Reset pending data for next run", before the update is sent.
ResetPending(s) == NoUpdate

\* flushPending: the pending updates become the running one.
StartFlush(s) ==
    /\ running' = [running EXCEPT ![s] = pending[s]]
    /\ pending' = [pending EXCEPT ![s] = ResetPending(s)]
    /\ IF s = Main \/ pending[s] = NoUpdate
       THEN UNCHANGED toMain
       ELSE Post(s, [type |-> "updateItems", items |-> pending[s]])

DropFlush(s) == queued

\* Throttler.queue while a flush is running.
QueueFlush(s) == [queued EXCEPT ![s] = TRUE]

\* The timer fires: the Throttler runs the flush, or queues it behind the one
\* that is running.  A flush with nothing to do is over at once.
TimerFires(s) ==
    /\ timer[s]
    /\ timer' = [timer EXCEPT ![s] = FALSE]
    /\ \/ /\ running[s] # NoUpdate
          /\ queued' = QueueFlush(s)
          /\ closing' = [closing EXCEPT ![s] = IF @ = "timer" THEN "queued" ELSE @]
          /\ UNCHANGED <<running, pending, toMain>>
       \/ /\ running[s] = NoUpdate
          /\ StartFlush(s)
          /\ closing' = [closing EXCEPT ![s] =
                            IF @ # "timer" THEN @
                            ELSE IF pending[s] = NoUpdate THEN "flushed" ELSE "active"]
          /\ UNCHANGED queued
    /\ UNCHANGED <<cache, state, toWindow, subscribed, due, db, erroneous, writes, failures>>

\* How close() goes on when the flush it waits for is over.  A queued flush is
\* awaited through queuedPromise, which nothing ever rejects.
ClosingAfter(s, succeeded) ==
    CASE closing[s] = "active" -> "flushed"
      [] closing[s] = "requeued" -> IF succeeded THEN "flushed" ELSE "hung"
      [] closing[s] = "queued" -> IF pending[s] = NoUpdate THEN "flushed" ELSE "requeued"
      [] OTHER -> closing[s]

\* The update is over: the queued flush follows, whether or not it succeeded.
UpdateDone(s, succeeded) ==
    /\ closing' = [closing EXCEPT ![s] = ClosingAfter(s, succeeded)]
    /\ queued' = [queued EXCEPT ![s] = FALSE]
    /\ IF queued[s]
       THEN StartFlush(s)
       ELSE running' = [running EXCEPT ![s] = NoUpdate] /\ UNCHANGED <<pending, toMain>>

\* doClose: the state, and a flush as soon as possible.  The main process
\* closes its Storage once all windows are gone.
Close(s) ==
    /\ state[s] = "open"
    /\ s = Main => \A w \in Windows : closing[w] = "done" \/ state[w] = "none"
    /\ state' = [state EXCEPT ![s] = "closed"]
    /\ timer' = [timer EXCEPT ![s] = TRUE]
    /\ closing' = [closing EXCEPT ![s] = "timer"]
    /\ UNCHANGED <<cache, pending, running, queued, toMain, toWindow, subscribed,
                   due, db, erroneous, writes, failures>>

NoRecovery == db

\* What SQLite's close() leaves on disk: a connection that has seen errors is
\* replaced by a new database made from the cache.
Recovered == IF erroneous THEN cache[Main] ELSE db

\* database.close(): a window only stops to listen for changes.
CloseDatabase(s) ==
    /\ closing[s] = "flushed"
    /\ closing' = [closing EXCEPT ![s] = "done"]
    /\ IF s = Main
       THEN db' = Recovered /\ UNCHANGED subscribed
       ELSE subscribed' = subscribed \ {s} /\ UNCHANGED db
    /\ UNCHANGED <<cache, pending, state, timer, running, queued, toMain, toWindow,
                   due, erroneous, writes, failures>>
-----------------------------------------------------------------------------
(* The window's side of the channel.                                         *)

ListenAfterwards == <<[type |-> "getItems"], [type |-> "listen"]>>
OpeningRequests == <<[type |-> "listen"], [type |-> "getItems"]>>

\* A window opens: its database client listens for changes, init() asks for
\* the items.
Open(w) ==
    /\ state[w] = "none" /\ state[Main] = "open"
    /\ state' = [state EXCEPT ![w] = "loading"]
    /\ toMain' = [toMain EXCEPT ![w] = OpeningRequests]
    /\ UNCHANGED <<cache, pending, timer, running, queued, closing, toWindow,
                   subscribed, due, db, erroneous, writes, failures>>

\* onDidChangeItemsExternal: every value is accepted, pending or not.
AcceptExternal(w, u) ==
    IF state[w] = "closed" THEN cache[w] ELSE Overlay(cache[w], u)

WindowReceives(w) ==
    /\ toWindow[w] # <<>>
    /\ toWindow' = [toWindow EXCEPT ![w] = Tail(@)]
    /\ LET m == Head(toWindow[w])
       IN \/ /\ m.type = "items"
             /\ cache' = [cache EXCEPT ![w] = m.items]
             /\ state' = [state EXCEPT ![w] = "open"]
             /\ UNCHANGED <<pending, running, queued, closing, toMain>>
          \/ /\ m.type = "changed"
             /\ cache' = [cache EXCEPT ![w] = AcceptExternal(w, m.items)]
             /\ UNCHANGED <<pending, state, running, queued, closing, toMain>>
          \/ /\ m.type = "updated"
             /\ UpdateDone(w, TRUE)
             /\ UNCHANGED <<cache, state>>
    /\ UNCHANGED <<timer, subscribed, due, db, erroneous, writes, failures>>
-----------------------------------------------------------------------------
(* The main process: StorageDatabaseChannel and SQLite.                      *)

Answer(w, m) == toWindow' = [toWindow EXCEPT ![w] = Append(@, m)]

\* listen and call.
MainReceives(w) ==
    /\ toMain[w] # <<>>
    /\ toMain' = [toMain EXCEPT ![w] = Tail(@)]
    /\ LET m == Head(toMain[w])
       IN \/ /\ m.type = "listen"
             /\ subscribed' = subscribed \cup {w}
             /\ UNCHANGED <<cache, pending, timer, due, toWindow>>
          \/ /\ m.type = "getItems"
             /\ Answer(w, [type |-> "items", items |-> cache[Main]])
             /\ UNCHANGED <<cache, pending, timer, due, subscribed>>
          \/ /\ m.type = "updateItems"
             /\ Store(Main, m.items)
             /\ Answer(w, [type |-> "updated"])
             /\ UNCHANGED subscribed
    /\ UNCHANGED <<state, running, queued, closing, db, erroneous, writes, failures>>

\* serializeStorageChangeEvents: the values are read when the debouncer fires.
ChangeEvent == [k \in Keys |-> IF k \in due THEN cache[Main][k] ELSE Same]

Broadcast ==
    /\ due # {}
    /\ due' = {}
    /\ toWindow' = [w \in Windows |->
                      IF w \in subscribed
                      THEN Append(toWindow[w], [type |-> "changed", items |-> ChangeEvent])
                      ELSE toWindow[w]]
    /\ UNCHANGED <<storageVars, toMain, subscribed, db, erroneous, writes, failures>>

\* The transaction of updateItems ends.  An error of the transaction rejects
\* the promise; an error of a statement inside it is only remembered.
SqliteUpdate ==
    /\ running[Main] # NoUpdate
    /\ \/ /\ db' = Overlay(db, running[Main])
          /\ UpdateDone(Main, TRUE)
          /\ UNCHANGED <<erroneous, failures>>
       \/ /\ failures < MaxFailures /\ failures' = failures + 1
          /\ erroneous' = TRUE
          /\ \E rejected \in BOOLEAN : UpdateDone(Main, ~rejected)
          /\ UNCHANGED db
    /\ UNCHANGED <<cache, state, timer, toWindow, subscribed, due, writes>>
-----------------------------------------------------------------------------
Next ==
    \/ \E s \in Storages :
          \/ TimerFires(s) \/ Close(s) \/ CloseDatabase(s)
          \/ \E k \in Keys, v \in Values \cup {Absent} : Set(s, k, v)
    \/ \E w \in Windows : Open(w) \/ WindowReceives(w) \/ MainReceives(w)
    \/ Broadcast \/ SqliteUpdate

Spec == Init /\ [][Next]_vars

\* Timers fire, messages are served in both processes and SQLite answers.
Fairness ==
    /\ \A s \in Storages : WF_vars(TimerFires(s)) /\ WF_vars(CloseDatabase(s))
    /\ \A w \in Windows : WF_vars(WindowReceives(w)) /\ WF_vars(MainReceives(w))
    /\ WF_vars(Broadcast) /\ WF_vars(SqliteUpdate)

FairSpec == Spec /\ Fairness
-----------------------------------------------------------------------------
(* Properties.                                                               *)

ToMainMessages ==
    [type : {"listen", "getItems"}] \cup [type : {"updateItems"}, items : Updates]

ToWindowMessages ==
    [type : {"updated"}] \cup [type : {"items"}, items : Contents]
        \cup [type : {"changed"}, items : Updates]

\* Type correctness of every copy and of what is said between them: windows send
\* and are sent updates, and only the answer to getItems has all items.
TypeOK ==
    /\ cache \in [Storages -> Contents] /\ db \in Contents
    /\ pending \in [Storages -> Updates] /\ running \in [Storages -> Updates]
    /\ state \in [Storages -> {"none", "loading", "open", "closed"}]
    /\ timer \in [Storages -> BOOLEAN] /\ queued \in [Storages -> BOOLEAN]
    /\ closing \in [Storages -> {"no", "timer", "active", "queued", "requeued",
                                 "flushed", "hung", "done"}]
    /\ toMain \in [Windows -> Seq(ToMainMessages)]
    /\ toWindow \in [Windows -> Seq(ToWindowMessages)]
    /\ subscribed \subseteq Windows /\ due \subseteq Keys
    /\ erroneous \in BOOLEAN /\ writes \in 0..MaxWrites /\ failures \in 0..MaxFailures

\* Whatever differs between main's cache and SQLite is being written or waits
\* to be, with a flush to come: no order of set, flush and queued flush loses
\* a write or lets an older one overtake it.
EveryWriteAccounted ==
    /\ failures = 0 =>
          cache[Main] = Overlay(Overlay(db, running[Main]), pending[Main])
    /\ \A s \in Storages :
          pending[s] # NoUpdate => timer[s] \/ queued[s]

\* Nothing is pending, running, in flight or due.
Quiet ==
    /\ \A s \in Storages : pending[s] = NoUpdate /\ running[s] = NoUpdate
    /\ \A w \in Windows : toMain[w] = <<>> /\ toWindow[w] = <<>>
    /\ due = {}

\* Once everything has been flushed and told, every open window agrees with the
\* main process, although windows apply echoes of their own and of each other's
\* writes to caches that are ahead of them.
Converges ==
    Quiet => \A w \in Windows : state[w] = "open" => cache[w] = cache[Main]

\* close() leaves nothing behind: the last flush is over, and what SQLite keeps
\* is the cache, whether updates failed or not.
CloseIsDurable ==
    /\ \A s \in Storages : closing[s] \in {"flushed", "done"} =>
          pending[s] = NoUpdate /\ running[s] = NoUpdate
    /\ closing[Main] = "done" => db = cache[Main]

\* Everything calms down: writes reach SQLite and all windows, and close() gets
\* to database.close() unless an update failed.
EventuallyQuiet ==
    []<>(Quiet /\ \A s \in Storages :
            state[s] = "closed" => closing[s] = "done" \/ failures > 0)

\* "Trigger new flush to ensure data is persisted and then close even if there
\* is an error flushing. We must always ensure the DB is closed to avoid
\* corruption." (Storage.doClose)
AlwaysClosed == state[Main] = "closed" ~> closing[Main] = "done"
=============================================================================
