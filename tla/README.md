# Gávea: TLA+ models of its remote, storage and file-saving core

Gávea is a fork of VS Code. This directory holds formal models of the parts of
it whose difficulty is in the order of things: the message protocol that keeps a
window connected to a remote machine over broken sockets, its timers, the
client's reconnecting loop, the server's bookkeeping of connections and the
hand-off of a socket to the extension host process; the IPC channels that
everything between processes goes through; the key-value storage that windows
and the main process share; and the working copy of a file that is edited, saved
and reloaded. The code is under `src/src/vs`; `PROJECT.json` ties every
definition that models code to its lines.

1. [The system and its parts](#the-system-and-its-parts)
2. [What is hard here](#what-is-hard-here)
3. [Plan](#plan)
4. [PersistentProtocol](#persistentprotocol)
5. [ProtocolTimers](#protocoltimers)
6. [RemoteConnection](#remoteconnection)
7. [ExtHostStartup](#exthoststartup)
8. [IpcChannels](#ipcchannels)
9. [SharedStorage](#sharedstorage)
10. [WorkingCopy](#workingcopy)
11. [Runs](#runs)
12. [Findings](#findings)
13. [Proofs](#proofs)
14. [What is not modelled](#what-is-not-modelled)

## The system and its parts

| Part | Code | State | Operations |
| --- | --- | --- | --- |
| PersistentProtocol | `base/parts/ipc/common/ipc.net.ts` | message and acknowledgement ids, queue of unacknowledged messages, timers, socket, writer, reader | `send`, `_receiveMessage`, `_sendAckCheck`, `_recvAckCheck`, `_sendKeepAlive`, `beginAcceptReconnection`, `endAcceptReconnection`, `dispose` |
| ProtocolReader, ChunkStream | same file | chunks, header/body state | `acceptChunk`, `read`, `readEntireBuffer` |
| ProtocolWriter | same file | buffered data, paused flag, scheduled write | `write`, `pause`, `resume`, `flush`, `dispose` |
| BufferedEmitter | same file | listeners, buffered events | `fire`, `_deliverMessages`, `flushBuffer` |
| LoadEstimator | same file | ring of timer observations | `hasHighLoad` |
| PersistentConnection | `platform/remote/common/remoteAgentConnection.ts` | reconnecting flag, permanent failure, disposed flag, grace time | `_beginReconnecting`, `_runReconnectingLoop`, `triggerPermanentFailure`, `updateGraceTime`, `dispose` |
| Agent server | `server/node/remoteExtensionHostAgentServer.ts` | connections by token, tokens ever seen | `_handleWebSocketConnection`, `_handleConnectionType`, `_rejectWebSocketConnection` |
| ManagementConnection | `server/node/remoteExtensionManagement.ts` | two grace timers, disposed flag | `acceptReconnection`, `shortenReconnectionGraceTimeIfNecessary`, `_cleanResources` |
| ExtensionHostConnection | `server/node/extensionHostConnection.ts` | child process, connection data | `start`, `acceptReconnection`, `_sendSocketToExtensionHost`, `_cleanResources` |
| Extension host process | `workbench/api/node/extensionHostProcess.ts` | protocol, grace timers | socket and grace-time messages, exit |
| ChannelClient, ChannelServer | `base/parts/ipc/common/ipc.ts` | handlers, active requests; channels, active and pending requests | `call`, `listen`, cancellation, `registerChannel`, `onRawMessage`, `onBuffer`, `dispose` |
| Storage | `base/parts/storage/common/storage.ts` | cache, pending inserts and deletes, flush delayer | `init`, `set`, `delete`, `flushPending`, `doClose`, `acceptExternal` |
| Storage across processes | `platform/storage/common/storageIpc.ts`, `platform/storage/electron-main/storageIpc.ts`, `base/parts/storage/node/storage.ts` | subscriptions, debounced changes; connection and its error flag | `getItems`, `updateItems`, the change event, `close` with recovery |
| StoredFileWorkingCopy and its manager | `workbench/services/workingCopy/common/storedFileWorkingCopy.ts`, `storedFileWorkingCopyManager.ts` | text, version and saved version, dirty/conflict/error flags, resolved stat, sequentializer, queue of reloads | edit, `save`, `resolve`, `revert`, file events |
| FileService | `platform/files/common/fileService.ts` | none of its own | `writeFile` with its validation, `readFileStream` |
| Async primitives | `base/common/async.ts` | active and queued task, timer | `Throttler`, `Delayer`, `ThrottledDelayer`, `TaskSequentializer`, `createCancelablePromise` |

How they interact:

* The renderer and the remote process each hold a PersistentProtocol. For a
  management connection the remote process is the agent server itself; for an
  extension host connection it is a child process, to which the server sends
  the socket over Node's IPC channel.
* When the socket closes or times out, the renderer's PersistentConnection
  opens a new one and runs a hand-shake on it (`auth`, `sign`,
  `connectionType`, `ok` or `error`). Both protocols then move to it, acknowledge
  what they have and send again what is not acknowledged.
* The server keeps a disconnected connection for a grace time. When another
  client connects, all disconnected ones are put on a shorter one.
* A reconnection token the server does not know is rejected and the client gives
  up. When the management connection gives up, so do all connections of the
  window (`PersistentConnection._permanentFailure` is static).

* IPC channels multiplex calls and event subscriptions over any ordered message
  protocol, the PersistentProtocol of a remote window among them.
* A window's Storage flushes over such a channel into the main process's Storage,
  which flushes into SQLite; changes are broadcast back to all windows.
* A working copy saves and reads through the file service; the manager turns file
  events into reloads; other programs write the same file.

The other parts of the repository (RPC of the extension host, editor core,
workbench, main process, CLI, extensions) are listed in `PROJECT.json` under
"components", with the reason they are not modelled or their place in the plan.

## What is hard here

The list with line numbers is under "hazards" in `PROJECT.json`. In short:

* **What is in flight when a socket dies.** A message written before the socket
  broke may or may not have arrived. Everything unacknowledged is written again,
  the receiver must drop the repeated part, and an acknowledgement that is lost
  must not make the sender forget anything.
* **Two processes on one socket.** Bytes that arrive while the server hands the
  socket to the extension host are lost. Only the order of `Pause`, `ok` and
  `Resume` keeps messages out of that window.
* **Slow is not dead.** A blocked event loop must not take unread data for
  silence, and a silently dead link must still be noticed.
* **Late answers.** An attempt that timed out may be answered during the next
  one; an abandoned attempt's request may reach the server after a newer one.
* **Timers against reconnections.** A grace timer started for an earlier socket,
  or shortened on behalf of another client, may be pending when a new socket is
  accepted.
* **State checked before an await.** The reconnecting loop sleeps, resolves and
  connects; the server waits for a debug port and for a socket to drain. In the
  meantime the connection may be disposed, failed or forgotten.
* **Names that are used again.** An event keeps its request id when its listener
  leaves and comes back; a request may be taken back before the server has looked
  at it, or after it was given up as unknown.
* **Caches that hear about themselves.** A window applies the echo of its own
  older write to a cache that is ahead of it.
* **Versions against awaits.** Every save and every reload of a file awaits
  several things, between which the text, the file and the wishes of the user
  change.

What makes each part correct:

* PersistentProtocol: exactly-once, in-order delivery; nothing undelivered is
  forgotten; everything is delivered and acknowledged in the end.
* Its timers: no false alarm, no unwatched message, no dead link unnoticed.
* Connections: the two ends agree on the socket in use; nobody is cleaned up
  while connected or told it is forgotten when it is not; listeners know what
  became of a connection; everything settles; nothing is kept for ever.
* Start-up: every socket has one owner; the client is served whenever it returns.
* Channels: at most one execution and one settlement of a call, by that
  execution's answer; one subscription for an event with listeners and none
  without; nothing leaks; every promise is settled.
* Storage: no write is forgotten or overtaken; all copies agree in the end; what
  was written is on disk after `close()`.
* Working copies: one write at a time; clean means on disk; no unseen change of the
  file is overwritten, and no edit taken away.

## Plan

Done:

1. `PersistentProtocol` with the abstract `ReliableChannel` and proofs;
2. `ProtocolTimers`, the same class in discrete time, with proofs;
3. `RemoteConnection`, the connection life cycle around it, with proofs;
4. `IpcChannels` with the abstract `RemoteCalls`;
5. `SharedStorage`, across the windows and the main process;
6. `WorkingCopy`, with the file service and other programs;
7. `ExtHostStartup`, the extension host connection from its beginning;
8. proofs of the safety properties of `ExtHostStartup`, `SharedStorage`,
   `IpcChannels` (with the refinement of `RemoteCalls`) and `WorkingCopy`;
9. proofs that need an invariant over what is in flight: gap-free streams and
   hand-offs of `PersistentProtocol`, the hand-shakes of `RemoteConnection`; and of
   the clocks of `ProtocolTimers`.

Every safety property that a passing run checks is a theorem now, some under a named
hypothesis (see Proofs); liveness is not.

Modules still wanted: `Framing` (`ProtocolReader` and `ChunkStream` against a
reference definition of the byte stream, re-entrant listeners of
`BufferedEmitter`), `RpcProtocol` (request ids and the responsiveness timer of the
extension host), backups of working copies.

## PersistentProtocol

`PersistentProtocol.tla` has two instances of the class, the client's and the
server's (the extension host's when `ViaExtHost`), the sockets between them and
as much of the hand-shake as moves them. The variables carry the names of the
fields they model in their comments; `sent` and `delivered` are history
variables for what was given to `send()` and fired on `onMessage`.

| Actions | Code |
| --- | --- |
| `Send`, `AckTimerFires`, `KeepAlive` | `send`, `_sendAckCheck`/`_sendAck`, `_sendKeepAlive` |
| `Receive...` | `_receiveMessage`, one action for each case of its switch; the acknowledgement part, common to all, is `AcceptAck` |
| `Reconnect`, `SpuriousTimeout`, `GiveUp` | one attempt of `_runReconnectingLoop`, begun after a close or a time-out, and its time-out |
| `ManagementAccept` | `_handleConnectionType`, then `ManagementConnection.acceptReconnection` |
| `HandOff`, `LostInHandOff`, `ExtHostAccept` | the same for extension hosts: `sendPause`, `ok`, the socket on the IPC channel, `acceptReconnection` in `extensionHostProcess.ts` |
| `Break`, `LoseTail`, `Lose` | the network |

Abstractions:

* A socket is one FIFO stream each way. Once closed it swallows writes, and any
  suffix of what is in flight may be lost (`LoseTail`). `ProtocolWriter` collects
  data until the next macrotask; collected data is indistinguishable from data
  in flight and is put on the wire at once. What a *paused* writer collects is
  told apart (`held`), because `Resume` writes it and a reconnection drops it.
* `Encode` keeps the width of the header fields: ids and acknowledgements modulo
  `IdLimit` (2^32). `MaxMsgs < IdLimit`; beyond that the protocol would
  misbehave, at 2^32 messages on one connection.
* Socket names are recycled when nobody holds or can read the socket, so the
  number of reconnections is not bounded by the number of names.
* `Lose`, a relay that drops a message out of the middle, is what the replay
  request is for. `pp_exthost`, with `MaxLosses = 0`, has sockets that keep their
  promise.

`ReliableChannel.tla` is the abstract specification: two append-only histories
per direction and a `ChDeliver` that copies the next message. The refinement
mapping is the identity on `sent` and `delivered`.

## ProtocolTimers

`ProtocolTimers.tla` is one PersistentProtocol seen as a set of clocks. Every
difference of `Date.now()` is an age that grows with `Tick` and saturates where no
comparison looks further; every `setTimeout` is the time left. An event loop that
is not blocked runs what is due and reads what has arrived before time goes on;
a blocked one (`Block`, `Unblock`) lets time pass with timers overdue and data
unread, which is what `LoadEstimator` is there to detect. The other end and the
network are the environment: on a live link something arrives at least every
`MaxSilence` (the other end's keep-alives), on a dead one nothing does. A socket
that was told dead by `onSocketTimeout` is replaced (`BeginAcceptReconnection`,
`EndAcceptReconnection`). Whether the protocol sends keep-alives
(`options.sendKeepAlive`) is chosen in `Init`.

The module leaves out ids and payloads: an arriving message acknowledges any
number of the oldest messages.

## RemoteConnection

`RemoteConnection.tla` has all connections of a window: on the client the
instances of PersistentConnection, on the server the hand-shake of each socket,
the registry, the grace timers and the hand-off to extension host processes.
Only control messages are on the wire here.

`phase[c]` is where `_runReconnectingLoop` stands: `idle` (not reconnecting),
`waiting` (the sleep), `resolving` (resolving the authority and opening the
socket), `auth` (waiting for the sign request), `confirm` (waiting for the answer
to `connectionType`). `hs[s]` is the state of the server's listener of socket `s`
(`Port`: it awaits the debug port of an extension host). `ipc[c]` is the IPC
channel to the process of `c` and `draining[c]` the sockets still in `drain()`,
which finish in any order.

| Actions | Code |
| --- | --- |
| `BeginReconnecting`, `WaitEnds`, `LoopGraceEnds`, `AttemptFails`, `ResolverFails` | `_beginReconnecting` and the rounds of `_runReconnectingLoop`, including every way the loop ends |
| `SocketReady`, `ReceiveControl` | `connectToRemoteExtensionHostAgent`: socket, `beginAcceptReconnection`, the two listeners |
| `Dispose`, `InitialConnectionFails`, `UpdateGraceTime` | `dispose`, the failure of a further connection, `updateGraceTime` |
| `ServerReceivesAuth`, `ServerReceivesConnectionType`, `ServerRefuses`, `ServerHandlesExtHost` | `_handleWebSocketConnection` and `_handleConnectionType` |
| `SocketDrained`, `ExtHostReceives`, `ExtHostCrashes`, `ServerSeesExit` | `_sendSocketToExtensionHost`, the process's message handler, its exit |
| `ServerSeesClose`, `GraceExpires`, `ServerReceivesDisconnect` | the two `ProcessTimeRunOnceScheduler` timers and the listeners of both kinds of connection |
| `Break`, `LoseTail`, `DisconnectLost`, `ServerRestarts` | the network, and a server that comes back without its registry |

Points to know when reading it:

* A protocol keeps control messages nobody listens for (`buffered`, its
  `BufferedEmitter`); `beginAcceptReconnection` flushes that buffer.
* The disposal of a protocol disposes the management connection around it, which
  sends `Disconnect`; an extension host's protocol stays when its connection is
  disposed.
* `event[c]` is the last state that listeners of `onDidStateChange` were told.
  Events fired on a disposed emitter are not seen (`event` is left alone).
* `triggerPermanentFailure` goes through the static array `_instances` with `forEach`.
  When it takes down the management connection, the disposal of that connection's
  protocol disposes the connection (`abstractRemoteAgentService.ts:249-251`), which
  removes itself from the array, and `forEach` skips the instance behind it.
  `ReachedByFailure` is the choice that leaves: all instances, when the management
  connection is the last or already gone, or all but one. `Overlooked` names the
  connection that is skipped, which `ListenersKnow` says is one at most.
* All connections are established initially and the process of an extension
  host has asked for its socket; what comes before is `ExtHostStartup`.
* `Fault` bounds what the environment and the user do to the system: breaks,
  spurious time-outs, failed attempts, restarts, crashes, disposals, grace times
  that end. Everything that merely follows from them is unbounded.

## ExtHostStartup

`ExtHostStartup.tla` follows the sockets of one client to its extension host
process, from the first connection on: the client connects, loses the socket and
comes back at any moment, before the process is forked, before it has asked for
its socket, and later. Sockets are numbered in the order in which they are
accepted, so that "older" means something.

| Actions | Code |
| --- | --- |
| `Break`, `Unanswered`, `AcceptReconnection` | the network and the client's retries; `acceptReconnection` of the server's connection |
| `Fork`, `StartFails`, `HandleReady`, `Drained`, `ReduceGraceTime`, `HandleExit`, `HandleError` | `start` with its listeners, `_sendSocketToExtensionHost` before and after its await, `shortenReconnectionGraceTimeIfNecessary`, `_cleanResources` |
| `Ask`, `HandleSocket`, `HandleReduce`, `NoticeClose`, `Terminate` | `createExtHostProtocol` in `extensionHostProcess.ts`: the request for the socket, the message handler, the two disconnect runners |

The interesting state is between the fork and the first request of the process
(`VSCODE_EXTHOST_IPC_READY`). A socket accepted then is sent at once, and the
request sends the older one kept in `_connectionData`; draining may reverse any
two. The process takes the last one it is given, and the client, whose socket is
left unanswered, has to retry: `ClientServed` says that this ends well.

* Messages to the process wait in `toHost` until it listens; Node keeps them.
* `ReduceGraceTime` is what the server does when another client connects. It looks
  at nothing but whether it has a process, so the message may reach a process that is
  connected, and may stand before a socket, behind one or between two. Whether the
  process is disconnected is checked there (`Disconnected` in `HandleReduce`).
* A socket that was closed before it is sent gives a message without a handle,
  which the process reports as an error and ignores.
* The client's time-outs are `Unanswered`: it leaves a socket that nobody is going
  to answer on. A client that loses patience with a slow server is a `Break`.
* An exception in `messageListener` when the connection was cleaned up before
  changes nothing, so the request has no effect there.

## IpcChannels

`IpcChannels.tla` has one ChannelClient and one ChannelServer, over two FIFO
streams: what `ReliableChannel` promises. Requests are named by their ids.
`RemoteCalls.tla` is the abstract specification of promise calls (at most one
execution, at most one settlement, by the answer of that execution or by giving
up); the refinement mapping takes `promise` for `outcome` and `execution` for
`ran`.

| Actions | Code |
| --- | --- |
| `Call`, `CancelToken`, `Finally` | `requestPromise`: the early exits, the wait for `Initialize`, the cancellation listener, `finally` |
| `AddListener`, `RemoveListener` | `requestEvent`: `onWillAddFirstListener`, `onDidRemoveLastListener` |
| `Woken`, `InitializedCallback` | the two microtasks of `createCancelablePromise(this.whenInitialized())` and its `then` |
| `ReceiveResponse`, `DisposeClient` | `onBuffer`, `onResponse`, `dispose` |
| `ReceiveRequest`, `FlushPendingRequests`, `UnknownChannel`, `RegisterChannel` | `onRawMessage`, `onPromise`, `onEventListen`, `collectPendingRequest` and its timer, `registerChannel`, `disposeActiveRequest` |
| `Finish`, `Fire`, `DisposeServer` | the promise of `channel.call`, an event with its subscriptions, `dispose` |

* Arguments and results are not on the wire; of a result only its kind is. An
  argument that cannot be serialized is the second disjunct of `DoCall`. When a result
  cannot be, `sendResponse` throws and nothing is sent: the execution ends as
  "unserializable", and `NoHandlerLeak` and `CallsSettle` except that call by name
  (`Unanswered`). A firing that cannot be serialized reaches nobody.
* `channel.listen()` may throw. When it does in the loop of `flushPendingRequests`, the
  rest of the collected requests is not served: of those, calls are answered when
  their timers run out (`stranded`), subscriptions never. `refused` names the events
  that stay without a subscription because of this.
* Firings of an event are numbered, and `received` is what its listener was given.
* `missed` is a history variable. A subscription whose removal is decided while
  its callback is queued, or while the server has collected it for a channel it
  does not know yet, is not taken back: `DisposeActiveRequest` finds nothing. When
  the event is subscribed to again under its id, there are two subscriptions of
  which the map knows one, and firings come twice. `SubscriptionsMatch` and
  `EventsInOrder` are stated for the other events; the comments name the case.
* `IPCServer`, `IPCClient` and the routing of calls to connections only look up
  these objects and are left out.

## SharedStorage

`SharedStorage.tla` is one store (`application.vscdb`, say) with its copies: a
`Storage` in every window, whose database is a channel to the main process, and
one in the main process, whose database is SQLite. The three layers are one
module because every property is about their relation.

| Actions | Code |
| --- | --- |
| `Set` | `set`, `delete`: cache, pending inserts and deletes, `doFlush` |
| `TimerFires`, `UpdateDone` (part of several) | `ThrottledDelayer.trigger`, `Throttler.queue`, `flushPending` |
| `Close`, `CloseDatabase` | `doClose`, `database.close()`, in SQLite with the recovery of `SQLiteStorageDatabase.close` |
| `Open`, `WindowReceives` | `init`; answers and change events of the database client, `acceptExternal` |
| `MainReceives`, `Broadcast` | `StorageDatabaseChannel`: `listen`, `getItems`, `updateItems`, the debounced change event |
| `SqliteUpdate` | `updateItems` with its transaction; an error rejects the promise or is only remembered in `isErroneous` |

* Inserts and deletes of a Storage are disjoint by construction, so a pending
  update is one function from keys to a value, `Absent` or `Same`.
* `closing` says which promise of the Throttler `doClose` is waiting for: the flush
  itself (`active`), or `queuedPromise` (`queued`, `requeued`), which is not
  rejected when the flush fails (see Findings).
* The main process closes its Storage once its windows have closed theirs.
* Not modelled: `compareAndSwap`, `optimize`, migration between workspaces, the
  in-memory and the browser's IndexedDB databases, opening of a corrupt file. A
  process is not killed between two steps; what SQLite then keeps is its own
  concern.

## WorkingCopy

`WorkingCopy.tla` is a `StoredFileWorkingCopy` with the manager that reloads it,
the file service under it, and other programs that write the same file. Code
between two awaits is one step; the phases of a save are

`delayed` (an automatic save right after an undo) → `participants` → `snapshot`
(`model.snapshot`) → `validating` (the stat of the file service) → `writing` →
`written` (the stat that is returned) → `ended`

and those of a resolve `reading` and `updating` (`model.update`).

| Actions | Code |
| --- | --- |
| `Edit`, `Undo` | `onModelContentChanged` |
| `Save`, `DoSave`, `StartSave` | `save`, `doSave`: refused while participants run, joined, queued, or started |
| `DelayDone`, `ParticipantsDone`, `SnapshotDone` | `doSaveSequential` |
| `Validate`, `Write`, `WriteFails`, `StatDone`, `Done` | `FileService.writeFile` with its validation, `handleSaveSuccess`, `handleSaveError`, `TaskSequentializer.doneRunning` |
| `Cancel` | cancellation of the progress, or by a participant |
| `FileEvent`, `Reload`, `ReadDone`, `UpdateDone`, `ResolveFails` | the manager's `onDidFilesChange` and its queue, `resolve`, `resolveFromFile`, `resolveFromContent`, `doUpdateModel` |
| `Revert`, `RevertResumes` | `revert` |
| `External` | another program |

* A text is a name, and an etag is the mtime of the file. The file service refuses a
  write when the mtime is newer and the size differs. Two different texts may have the
  same size, so `Validate` may let a write go on although the file is `ModifiedSince`;
  and it does so when the stat of the validation fails, which the code takes for a
  file that does not exist.
* `Undo` goes back to the saved version from anywhere; redo is the same step.
* `running` and `queued` are the two fields of TaskSequentializer. After its
  participants a save replaces its own run by a second one, for the version the
  text has by then; `doneRunning` of the first run changes nothing any more.
* `wanted` and `stored` are the newest version that a save was asked for and the newest
  one written, history variables like the following, which name the states that the
  properties except, each by what led to it:
  * `synced` is the text last read into the model or written to the file, and `behind`
    says that the saved version is not that one: an overtaken save left it (the
    finding `working_copy_undo`), a revert moved it to the text of now and read
    nothing, a failed revert put back the one from before, or an edit during
    `model.update` was not tracked and the update failed.
  * `misled` says that the stat is that of another text: another program wrote between
    the write and the stat, or the model did not take the content whose stat was
    taken over.
  * `checked` is the mtime the file had when a save compared it, `None` when it did not.
* Not modelled: backups, orphaned and readonly files, elevated writes, ignored
  errors, models that save themselves, disposal; `force`, a kind of save the
  module has, is left out of the runs to keep them within their time.

## Runs

The systems may rest (nothing to send, nothing to save, all connections given up
or disposed), so the runs do not check for deadlock, except `timers`, where time
always goes on.

| Run | Question | Bounds |
| --- | --- | --- |
| `pp_reconnect` | `InOrderExactlyOnce`, `NothingForgotten`, `NoGap` and the proofs' invariant `IndInv` (with `TypeOK`) for a management connection, also when a relay drops a message | 2 messages of one payload each way, 3 sockets, 2 faults, 1 loss, keep-alives |
| `pp_exthost` | `NothingRegularInHandOff`, the refinements `ImplementsChannel` and `ImplementsFairChannel`, and `EventuallyAcked`, through the hand-off to another process | 2 messages each way, 3 sockets, 1 fault |
| `timers` | `NoFalseAlarm`, `Watched`, `AckedByKeepAlive`, `DeadLinkNoticed`, with and without keep-alives | 1 block of any length, 2 deaths; durations 1, 6, 2 with a history of 2 |
| `remote` | `RemoteInv`, the proofs' invariant (with `TypeOK`), `GraceOnlyWhenDisconnected`, `RejectedOnlyWhenForgotten`, `Agreement`, `ListenersKnow`, `Settles`, `NoLeak` for a management and an extension host connection | 4 sockets, 2 faults (the invariants also hold with 3) |
| `remote_attempts` | `NoMoreAttempts`: violated, see Findings | one extension host, 3 faults |
| `exthost_startup` | `TypeOK`, `OneOwner`, `NoGraceWhileConnected`, `ClientServed` | 9 sockets, 3 faults, 2 other clients |
| `ipc` | `TypeOK`, the refinement `ImplementsCalls`, `NoHandlerLeak`, `SubscriptionsMatch`, `EventsInOrder`, `CallsSettle`, `ListenersServed` | 1 call, 1 event that is subscribed to twice and fires twice, 1 channel; results and firings that cannot be serialized, a channel that refuses subscriptions |
| `storage` | `EveryWriteAccounted`, `Converges`, `CloseIsDurable`, `EventuallyQuiet` | 2 windows and the main process, 1 key that is set and deleted, 3 writes, 1 SQLite error |
| `storage_close` | `AlwaysClosed`: violated, see Findings | 1 window, 2 writes, 1 error |
| `working_copy` | `TypeOK`, `OneWriteAtATime`, `CleanMeansSaved`, `NoBlindOverwrite`, `ReloadKeepsEdits`, `SavesSettle` | 3 edits or undos, 2 saves (the invariants also hold with 3), 1 external change, 1 revert, 1 failure, 1 cancellation |
| `working_copy_undo` | `SavedVersionIsOnDisk`: violated, see Findings | 3 edits, 2 saves, nothing else |
| `working_copy_revert` | `RevertReadsDisk`: violated, see Findings | 3 edits, 2 saves, 1 revert |

Why the bounds are enough to be interesting:

* Three sockets allow a client on the newest, a server on the oldest and a request
  in flight on the third; two messages allow one delivered and one not, and a gap.
  With one payload a gap or a repetition still shows, because `delivered` gets
  longer than it may and `IndInv` ties ids to positions. A second fault can hit the
  recovery from the first.
* Four sockets with two connections let both reconnect at once while an abandoned
  attempt of one is still in flight.
* The durations keep the order of the real ones where it matters (acknowledge <
  keep-alive < time-out; a history shorter than the time-out, so that the
  estimator can forget a block before the time-out is due). The second death comes on
  the socket that replaced the first, so that a message queued during the
  reconnection, or a check that ran out meanwhile, has to notice it.
* At start-up every fault can cost three sockets: the one that broke, one that a
  late, older socket displaced, and the one that is served. With nine the client
  never runs out of them within three faults (with eight TLC finds the same number
  of states). Two requests to reduce the grace time can stand on both sides of a
  socket.
* One call and one event share a channel, so a flush serves a mixture of them; two
  subscriptions make the id be used again; two firings can be out of order.
* Two windows write the same key and see each other's echo; with one key and one
  value, set and delete still alternate, and three writes let a write wait, one be
  queued and one be running.
* Three edits: one saved, one made during the save, one to come back from.

Each property of a passing run has a mutant in `PROJECT.json`: an operator that
changes the model the way a plausible bug would (a timer that is not cancelled,
a buffer that is not flushed, an acknowledgement off by one, `ok` before `Pause`, a
pending update that is not reset, a version that is not compared), under which TLC
finds the property violated.

### Fairness

* `PersistentProtocol`: event loops run (`Receive`, `AckTimerFires`), the
  reconnecting loop makes its next attempt after every failed one (`Reconnect`),
  an attempt on a closed socket ends (`GiveUp`; the code has a time-out on every
  step of the hand-shake), the server answers requests it has received
  (`ServerAccepts`). No fairness is assumed of keep-alives, of `Send` or of the
  network's failures, which are finitely many.
* `ProtocolTimers`: time passes, a blocked loop is let go, what is due is done.
  A reconnection need not happen.
* `RemoteConnection`: timers run out, handlers run, sockets drain, and once the
  faults are used up an attempt to connect is answered. That a silent socket is
  noticed, an assumption here (`SocketLost`), is `DeadLinkNoticed` of
  `ProtocolTimers`. An attempt that was answered may still fail, up to `MaxFaults`
  times; without that bound a network that is always down would keep the loop
  going until its grace time ends.
* `ExtHostStartup`: the process is forked and asks, messages are handled, sockets
  drain, and a client without a socket, or on one that nobody answers, tries again
  (its loop does, until its grace time ends). That a lost connection is noticed or
  a process terminates is not assumed.
* `IpcChannels`: messages, microtasks and timers are served and an implementation
  of a channel settles the promise it returned. Nobody need cancel, listen,
  register a channel or dispose.
* `SharedStorage`: timers fire, messages are served and SQLite answers, with
  success or with an error. Nobody need write, open or close.
* `WorkingCopy`: what is awaited returns, for saves and for resolves; participants,
  models and the file service may fail but not hang. Nobody need save or edit.

## Findings

* **One more attempt** (`remote_attempts`). On entry the reconnecting loop
  returns when the connection has failed permanently or is disposed ("no more
  attempts!"); after its sleep it checks only the former. A connection that is
  disposed while it waits resolves the authority and opens a socket once more.
* **`close()` that never ends** (`storage_close`). `Throttler.queue` makes the promise
  of a queued task with `new Promise(resolve => ...then(resolve))`, which nothing
  rejects. When `Storage.doClose` meets a running flush, its own is queued; if that
  one fails, `doClose` waits for ever and `database.close()` is not called, though
  its comment promises to close "even if there is an error flushing".
* **Clean, but not on disk** (`working_copy_undo`). `handleSaveSuccess` moves
  `savedVersionId` only when the copy did not change during the save. After an edit
  during a save, the disk has the version that was written and `savedVersionId`
  names the one before; undoing to that one clears the dirty flag.
* **A revert that keeps the text** (`working_copy_revert`). `revert()` asks the manager
  to resolve with `forceReadFromFile`; the resolver of the manager does not pass
  that on, so the read carries the etag, ends with "not modified since" and the
  edited text stays, marked clean.

Remarks without a run of their own:

* A comment in `ProtocolReader` says the header has 9 bytes,
  `ProtocolConstants.HeaderLength` is 13.
* The comment of `AcknowledgeTime` says "at most 2 seconds later", but messages less
  than 2 seconds apart postpone the acknowledgement of the first until the next
  keep-alive (`AckedByKeepAlive` is the bound that holds).
* The list "Possible state transitions" in `workbench/contrib/remote/browser/remote.ts`
  lacks the one from ReconnectionRunning to ReconnectionWait, which every failed
  attempt takes.
* When the window fails, the instance behind the management connection in
  `_instances`, normally that of the extension host, is skipped
  (`remoteAgentConnection.ts:539`). Its listeners hear nothing, its protocol and its
  socket stay open, its loop will not run again, and the server keeps its half for as
  long as the socket is there.
* A call whose result cannot be serialized is never answered: `sendResponse` throws,
  nobody catches it, the promise stays open and the client keeps the handler while the
  connection is there (`ipc.ts:435-449`). A `listen()` that throws while collected
  requests are flushed takes the requests behind it along (`ipc.ts:505-519`).
* A stat that fails in `validateWriteFile`, or a changed file of the same size, lets the
  write go on without the check for a newer file (`fileService.ts:486-511`). With the
  exception `checked` dropped, TLC finds the unseen text that is overwritten.
* A revert whose read fails puts back the flags from before, over a save that ended
  meanwhile; an undo to the saved version put back leaves a clean copy that differs
  from the file. The same happens after an edit during `model.update`, when the
  update then fails. TLC finds both when `behind` does not cover them.

## Proofs

All proofs are checked by TLAPS for every value of the constants that satisfies
the named assumptions.

**`PersistentProtocolProofs`** assumes `ConstantsAssumption`: the first socket is a
socket, the bounds are naturals, and fewer than `IdLimit` messages are sent.
Nothing bounds payloads, sockets, faults or losses. `InOrderExactlyOnce` and
`NothingForgotten` are not inductive: whether the next message delivered is the
right one depends on what is in flight, and whether the queue may be shortened
depends on acknowledgements in flight. The inductive invariant `IndInv` adds
that

* `outAckId[p] <= inMsgId[Peer(p)] <= outMsgId[p]`: acknowledgements never overtake
  deliveries, which never overtake sends (`Counters`);
* the queue holds exactly the messages `outAckId + 1 .. outMsgId`, in order
  (`Queue`);
* every message queued, held back by a paused writer or in flight is one its
  sender can have written: its acknowledgement is at most what the sender has
  been given, and a Regular one carries the payload sent under its id (`Msgs`).

The set `Msgs` only grows as a connection goes on, so streams stay inside it;
lemmas say what appending to, cutting and encoding a stream of such messages
gives. Each action then has a step of its own. From `IndInv` follow `TypeCorrect`,
`ExactlyOnce`, `Retained` and `Refinement` (every step is `ChSend`, `ChDeliver` or a
stutter of `ReliableChannel`). `IndInv` is also checked by TLC (`pp_reconnect`).

`GapFreeStreams` and `HandOffLosesNothing` are about a network that drops nothing
from the middle of a stream. Their invariant is `LossFree`, on top of `IndInv`:

* `Flow(p)`: in every stream that `p` has written, on any socket, each Regular message
  is at most one ahead of what its receiver has been given or of a message before it
  (`GapFree`); what `p` has written on its present socket, followed by what its paused
  writer holds back, is so too, and when `p` is not reconnecting it leads up to the
  last message sent (`Reaches`), so that the next one continues it. Repeated
  messages, the rests of old sockets and a replay that starts before the receiver's
  counter all fit this shape, where "consecutive" would not;
* `HandOffInv`: a socket on its way to the extension host holds no Regular message,
  and a client that is on it is `Hushed`: it is paused, or it still waits for the
  control message, which comes behind Pause, and nothing that would make it write a
  payload (Resume, a replay request) comes first. A request the server has not read
  is alone in its direction, and nobody has answered it (`RequestInv`).

The lemmas are about streams: what is behind a stream, in front of it and left of
it is gap-free or plain when its parts are. The second invariant is needed for the
first: `LostInHandOff` drops messages, which leaves no gap only because none of them
is Regular.

**`ProtocolTimersProofs`** assumes `TimersAssumption` (positive durations, the
minimum delay and the acknowledge time below the time-out) and proves
`AlwaysWatched` from the inductive `TimersInv`, type correctness and `Watched`
together: the type says that a check rescheduled by `_recvAckCheck` really has a
timer, since the delay it computes is at least `MinimumDelay`. `TypeCorrect` is
the other half of it.

`AckInTime` has an invariant about two clocks, `KeepAliveInv`: until the event loop is
blocked for the first time, what is owed has waited at most as long as the
keep-alive interval has run, so `owed + keepAlive <= KeepAliveSendTime`.

`OnlyDeadSocketsTimeOut` is about the load estimator. On a live link the age of the
last read is at most `MaxSilence` more than the age of every remembered run, but for
the one run that was due when the event loop was let go (`RunsStale`). So when
nothing has been read for `TimeoutTime`, at most one run of `HistoryLength` is recent,
`HasHighLoad` holds and no time-out fires. This needs `LoadAssumption`: the history
is at least 2 long, and `HistoryLength + MaxSilence + 2 <= TimeoutTime`. The code has
10 runs a second apart, 5 seconds between the keep-alives of the other end, and 20
seconds of `TimeoutTime`. The assumption is sharp where TLC has looked: with a
history of 3 and a silence of 1, `NoFalseAlarm` fails at a `TimeoutTime` of 5 and holds
at 6. Somebody who shortens `TimeoutTime` or lengthens the estimator's memory has to
keep it.

**`RemoteConnectionProofs`** assumes `RemoteAssumption`: the window has a connection,
connections start on different sockets, it has one management connection at most, and
the message that shortens the grace time is not a socket. It proves `GraceSafe` from `GraceInv`, the property with the
shape of the functions it speaks of. The step that needs thought is
`SocketReady`: a recycled socket name re-opens a socket, so `Free` must exclude
the socket of every registered connection, which is what the network's
uniqueness of sockets gives the code.

The other theorems are about `RemoteInv` (`RemoteInvariance`), which the
run `remote` checks as well. Its parts:

* `TypeOK` (`TypeCorrect`);
* `LoopInv`, loop by loop: a connection that failed by itself has no loop and no socket
  any more, what failed heard of it, and unless the window has failed a connection at
  rest was gained;
* `FailureInv`, for the window: once it has failed the management connection is
  disposed, and at most one connection was overlooked. The first part is why the second
  stays true: a further failure finds no management connection in `_instances`, so it
  skips nobody. `ListenersAlwaysKnow` follows from these two;
* `SocketInv`: no two protocols of the client have the same socket, the query of a
  socket names its connection, and nothing is handed over for a management
  connection;
* `HandShakeInv`, connection by connection. While the client waits for an answer, its
  `BufferedEmitter` is empty, at most one control message is in flight to it, and that
  one answers the message it sent last (`AuthInv`, `ConfirmInv`); as long as the socket
  is open, the state of the server's listener and both streams are at one of five
  combinations (`AuthOpen`, `ConfirmOpen`). An "unknown" in flight means that the token
  is forgotten, and an "ok" in flight, or a client at rest, that the server has
  taken the socket (`Taken`): its connection uses it, or it is on its way to the
  extension host process, or that process is dead;
* `RejectedOnlyWhenForgotten` itself.

Neither `RejectedOnlyWhenForgotten` nor `Agreement` is inductive without `HandShakeInv`: a
stale answer on the wire or in the buffer would break them two steps later.
`TakenStays` is the lemma with the most cases: a socket that was taken stays so
through the drain, the IPC channel, the process's own `acceptReconnection` and
the shortening of grace times, until somebody closes it. `RejectionsAreRight` and
`EndsAgree` are the consequences.

**`ExtHostStartupProofs`** assumes `StartupAssumption` (bounds are naturals, at least
one socket, `None` is not a socket). `Inv`, the conjunction of the type, `OneOwner`
and `NoGraceWhileConnected`, is inductive by itself. The work is in the messages to
the process: no socket is in two of them (`Distinct`), and a socket that leaves
`_connectionData`, the set being drained or the IPC channel goes to the next
owner and nowhere else, whatever order the drains end in. Requests to reduce the grace
time may stand anywhere among them, in any number and whatever state the process is
in; that none is left over for a connected process rests on the check the process
makes itself.

**`SharedStorageProofs`** assumes `StorageAssumption` (`Absent` and `Same` are no
values, no window is called "main"). `TypeOK` is inductive because it types the
messages of both streams: what a window flushes is an update of the main process,
and only the answer to `getItems` is a whole store. The other properties follow from
`Inv`:

* `FlushInv`: what a Storage has pending has a flush to come, by its timer or
  behind the running update, until `close()` has seen to it;
* `SqliteInv`: until an update fails, main's cache is SQLite under what is being
  written under what is pending; when one has failed, the connection knows, which is
  what the recovery in `close` goes by;
* `OpenInv`: the requests of a window come in the order `listen`, `getItems`,
  `updateItems`, and the first answer it gets is the one that opens it;
* `SyncInv`: for every window and key, the last message of main about the key says
  what main has or more is due; and a window agrees with what it will have heard or
  is ahead by a write of its own. This is about the *last* carrier of a key in a
  stream, so the lemmas say what appending to and taking from a stream does to it.

`NoWriteLost`, `DurableClose` and `Convergence` are its consequences.

**`IpcChannelsProofs`** and **`IpcEventsProofs`** assume `IdsAssumption` (calls and
events have different ids, bounds are naturals). `TypeCorrect` needs that the
requests the server collects, the handlers and the requests in flight are finitely
many. For calls the invariant is `CallInv`:

* `OnePlace(c)`: the request of a call is in one place, waiting for `Initialize`, ready
  to be sent, in flight, collected for an unknown channel, or executing, and never
  again in an earlier one;
* `Truthful(c)`: an answer in flight to the client is that of the execution.

`Refinement` maps every step to one of `RemoteCalls` or to a stutter. `NoLeak` is
inductive by itself once it says where the answer will come from (`WillBeAnswered`), or
that there is none because the result could not be serialized (`Unanswered`). The calls
that a refused subscription leaves behind in a flush are among the former: their
timers are still armed.
For events, `SubscriptionInv` says that the messages about an event that are in
flight switch its subscription on and off in turn (`Alternates`), from what the server
has to what the client wants; `FiringInv` that the firings in flight continue what
the listener was given. Both are stated for the events outside `missed`, as the
properties are; an event in `refused` has no subscription although the listener is
there, until the next one comes.

**`WorkingCopyProofs`** assumes `WorkingCopyAssumption`. `Types` is `TypeOK` and `OneSave`: every
save there is, is the one the sequentializer runs or a run it replaced. `Fresh` (no
text stands for an edit to come), `SaveInv`, `ReadInv` and `CopyInv` relate the text, the
saved version, the snapshot of a save, the text of a resolve, the stat and the file:

* `SaveInv`: a snapshot is a text the copy has had, and the text of now if the version is
  that of the save; a write that compared the file as it is now holds the newest stat
  or writes what is there;
* `ReadInv`: a resolve that was not overtaken runs alone on a clean copy, and has the text
  that belongs to the stat it took over;
* `CopyInv`: a clean copy has its saved text; unless the saved version has fallen behind,
  that is the one last read or written; and this one is the file's when the stat is,
  unless that misleads.

`TypeCorrect` and `OneWriteAlways` hold for all kinds of saves. `CleanAlways`,
`NoBlindWrite` and `ReloadsKeepEdits` have the hypothesis `Unforced`, that there are no
saves with `force`, which is how the runs instantiate the module: a forced save writes
a clean copy, so a write may be under way while a resolve is, a case the
properties are not meant for. The exceptions in the properties (`behind`, `misled`,
`checked`) are no hypotheses: they are states the code reaches, named in `CleanMeansSaved`
and `NoBlindOverwrite`, and each of them is needed (TLC finds a violation when one is
dropped).

Only model-checked is everything temporal under fairness: `ImplementsFairChannel`,
`EventuallyAcked`, `DeadLinkNoticed`, `Settles`, `NoLeak` of `RemoteConnection`,
`ClientServed`, `CallsSettle`, `ListenersServed`, `EventuallyQuiet` and `SavesSettle`.
Liveness is outside what TLAPS proves here.

## What is not modelled

* The five attempts of `createInitialConnection` and the registration of a new
  token.
* Extension hosts that get a named pipe or a MessagePort instead of a socket, and
  WebSocket frames, compression and encryption: wrappers of the socket.
* Tunnels: a pipe between two sockets once they are set up.
* The contents of the hand-shake (signatures, connection tokens, versions):
  `ServerRefuses` is the outcome of a validation that fails.
* Framing of the byte stream: messages are delivered whole; in the plan.
* The encoding of arguments and results on IPC channels, but for its failure, and what
  each module's section lists.
* The RPC protocol of the extension host, the undo/redo service and the agent host:
  state machines that can be modelled, after what is here. The editor core, the
  workbench's user interface, the main process, the Rust CLI and the built-in
  extensions are outside the scope of this project, for the reasons
  `PROJECT.json` gives.
