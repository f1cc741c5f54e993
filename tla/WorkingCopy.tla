---------------------------- MODULE WorkingCopy ----------------------------
(***************************************************************************)
(* StoredFileWorkingCopy: one file that is edited, saved, reloaded when it  *)
(* changes on disk, and reverted.  Every await of the code is a step, so    *)
(* edits, further saves, changes made by other programs and file events     *)
(* come between any two of them.  A text is a name: <<"edit", n>> for the   *)
(* n-th edit, <<"ext", n>> for what another program wrote, <<"torn", n>>    *)
(* for what a failed write left.  The mtime of a file grows with every      *)
(* change, so an etag is the mtime; whether two different texts have the    *)
(* same size is left open.  The model's alternate version is its text.      *)
(***************************************************************************)
EXTENDS Naturals, FiniteSets

CONSTANTS Kinds,        \* the saves asked for: "auto", "explicit", "overwrite", "force"
          None,
          MaxEdits,     \* bound: changes of the text by the user or a participant
          MaxSaves,     \* bound: calls of save()
          MaxExternal,  \* bound: changes of the file by other programs
          MaxReverts,   \* bound: calls of revert()
          MaxFailures,  \* bound: failing reads, writes and stats
          MaxCancels    \* bound: saves cancelled by the user or by a participant

Texts == {"edit", "ext", "torn"} \X Nat
Tasks == [task : Nat, id : Nat]
Resolves == [by : {"reload", "revert"}, phase : {"reading", "updating"}, etag : Nat,
             ver : Nat, text : Texts \cup {None}]
Flags == [dirty : BOOLEAN, conflict : BOOLEAN, errorMode : BOOLEAN, saved : Texts]

ASSUME WorkingCopyAssumption ==
    /\ Kinds \subseteq {"auto", "explicit", "overwrite", "force"}
    /\ {MaxEdits, MaxSaves, MaxExternal, MaxReverts, MaxFailures, MaxCancels} \subseteq Nat
    /\ None \notin Kinds /\ None \notin Nat /\ None \notin Tasks /\ None \notin Resolves /\ None \notin Flags

VARIABLES
  \* the working copy
    text, versionId, dirty, conflict, errorMode,
    saved,      \* savedVersionId: the text that counts as not dirty
    stat,       \* lastResolvedFileStat: an mtime
    ignoring,   \* ignoreSaveFromSaveParticipants
  \* its saves, and the TaskSequentializer that keeps them apart
    saves, running, queued,
  \* its resolves, and the queue of reloads of the manager
    resolving, reverting, reloads,
  \* the file, and the event of the file watcher
    disk, watch,
  \* bounds
    edits, calls, externals, reverts, failures, cancels,
  \* history: every text the file and the model have had; the newest version a
  \* save was asked for (0 once it failed or is not needed) and the newest one
  \* written; the text last read into the model or written to the file; whether the
  \* saved version has fallen behind that text (see CleanMeansSaved); whether the
  \* stat is that of another text, because another program wrote before it was
  \* taken or the model could not take the content read; and the mtime of the file
  \* when a save compared it with its stat, None when it did not
    onDisk, seen, wanted, stored, synced, behind, misled, checked

flags == <<dirty, conflict, errorMode, saved, wanted, behind>>
history == <<synced, misled, checked>>
copyVars == <<text, versionId, flags, seen>>
saveVars == <<saves, running, queued, ignoring>>
resolveVars == <<resolving, reverting, reloads>>
fileVars == <<disk, watch, onDisk>>
boundVars == <<edits, calls, externals, reverts, failures, cancels>>
vars == <<copyVars, stat, saveVars, resolveVars, fileVars, boundVars, stored, history>>

Original == <<"ext", 0>>

\* A working copy that was just resolved from its file.
Init ==
    /\ text = Original /\ versionId = 0
    /\ dirty = FALSE /\ conflict = FALSE /\ errorMode = FALSE
    /\ saved = Original /\ stat = 0 /\ ignoring = FALSE
    /\ saves = {} /\ running = None /\ queued = None
    /\ resolving = None /\ reverting = None /\ reloads = 0
    /\ disk = [text |-> Original, mtime |-> 0] /\ watch = FALSE
    /\ edits = 0 /\ calls = 0 /\ externals = 0 /\ reverts = 0 /\ failures = 0 /\ cancels = 0
    /\ onDisk = {Original} /\ seen = {Original}
    /\ wanted = 0 /\ stored = 0 /\ behind = FALSE
    /\ synced = Original /\ misled = FALSE /\ checked = None
-----------------------------------------------------------------------------
(* The content of the model changes.                                         *)

\* setDirty(false) for the text t.
SetClean(t) ==
    /\ dirty' = FALSE /\ conflict' = FALSE /\ errorMode' = FALSE
    /\ saved' = t
    /\ wanted' = 0

\* ignoreDirtyOnModelContentChange: while doUpdateModel awaits model.update.
Updating == resolving # None /\ resolving.phase = "updating"

\* onModelContentChanged: undoing to the saved version clears the flags.
ContentChanged(t) ==
    /\ text' = t /\ seen' = seen \cup {t}
    /\ versionId' = versionId + 1
    /\ IF Updating THEN UNCHANGED flags
       ELSE IF t = saved THEN SetClean(t) /\ UNCHANGED behind
       ELSE dirty' = TRUE /\ UNCHANGED <<conflict, errorMode, saved, wanted, behind>>

\* The promise of a save that is over is settled before the next event comes.
Settled == \A s \in saves : s.phase # "ended"

\* The user, or a save participant, changes the text.
Edit ==
    /\ Settled
    /\ edits < MaxEdits
    /\ edits' = edits + 1
    /\ ContentChanged(<<"edit", edits + 1>>)
    /\ UNCHANGED <<stat, saveVars, resolveVars, fileVars, calls, externals, reverts,
                   failures, cancels, stored, history>>

InFlight(s) == s.phase \in {"snapshot", "validating", "writing", "written"}

\* The user goes back to the saved version, by undo or redo.
Undo ==
    /\ Settled
    /\ edits < MaxEdits /\ text # saved
    /\ edits' = edits + 1
    /\ ContentChanged(saved)
    /\ UNCHANGED <<stat, saveVars, resolveVars, fileVars, calls, externals, reverts,
                   failures, cancels, stored, history>>
-----------------------------------------------------------------------------
(* Saving.                                                                   *)

\* A save in its next phase.
At(s, phase) == [s EXCEPT !.phase = phase]

\* The part of doSaveSequential before the write, up to the model's snapshot:
\* the version is read again, the stat is remembered, the run renamed.
Snapshotting(s) ==
    [s EXCEPT !.phase = "snapshot", !.task = versionId, !.base = text, !.mtime = stat]

TaskOf(s) == [task |-> s.task, id |-> s.id]

\* doSaveSequential from its beginning: an automatic save right after an undo is
\* delayed, and the participants run unless there are none.
StartSave(kind, others) ==
    LET s == [id |-> calls', kind |-> kind, phase |-> "delayed", task |-> versionId,
              cancelled |-> FALSE, base |-> text, mtime |-> stat]
    IN  \/ /\ kind = "auto"
           /\ saves' = others \cup {s} /\ running' = TaskOf(s)
           /\ UNCHANGED <<ignoring, errorMode>>
        \/ /\ saves' = others \cup {At(s, "participants")}
           /\ running' = TaskOf(s)
           /\ ignoring' = TRUE
           /\ UNCHANGED errorMode
        \/ /\ saves' = others \cup {Snapshotting(s)}
           /\ running' = TaskOf(Snapshotting(s))
           /\ errorMode' = FALSE
           /\ UNCHANGED ignoring

\* The token of a save is cancelled.
CancelToken(s) == [s EXCEPT !.cancelled = TRUE]

NeverBusy == FALSE

\* saveSequentializer.isRunning()
Busy == running # None

\* cancelRunning: a save that already writes does not look at its token.
Cancelled(s) ==
    IF running # None /\ s.id = running.id THEN CancelToken(s) ELSE s

\* doSave: refused while participants run, joined to the running save of this
\* version, queued behind the running save of another, or started.
DoSave(kind) ==
    \/ /\ \/ ignoring
          \/ running # None /\ running.task = versionId
          \/ ~dirty /\ kind # "force"
       /\ UNCHANGED <<saveVars, errorMode>>
    \/ /\ ~ignoring /\ (dirty \/ kind = "force")
       /\ Busy /\ running.task # versionId
       /\ saves' = {Cancelled(s) : s \in saves}
       /\ queued' = kind
       /\ UNCHANGED <<running, ignoring, errorMode>>
    \/ /\ ~ignoring /\ (dirty \/ kind = "force")
       /\ ~Busy
       /\ StartSave(kind, saves) /\ UNCHANGED queued

Save(kind) ==
    /\ Settled
    /\ calls < MaxSaves
    /\ ~(kind = "auto" /\ (conflict \/ errorMode))
    /\ calls' = calls + 1
    /\ wanted' = IF dirty THEN versionId ELSE wanted
    /\ DoSave(kind)
    /\ UNCHANGED <<text, versionId, dirty, conflict, saved, behind, seen, stat, resolveVars, fileVars,
                   edits, externals, reverts, failures, cancels, stored, history>>

saveUnchanged == <<text, versionId, dirty, conflict, saved, wanted, behind, seen, stat,
                   resolveVars, edits, calls, externals, reverts>>

\* The user cancels the progress, or a participant cancels the save.
Cancel(s) ==
    /\ s.phase \in {"delayed", "participants", "snapshot"}
    /\ ~s.cancelled /\ cancels < MaxCancels
    /\ saves' = (saves \ {s}) \cup {CancelToken(s)}
    /\ cancels' = cancels + 1
    /\ UNCHANGED <<saveUnchanged, errorMode, running, queued, ignoring, fileVars, failures,
                   stored, history>>

To(s, phase) == saves' = (saves \ {s}) \cup {At(s, phase)}

\* The delay is over: participants are not run for a cancelled save.
DelayDone(s) ==
    /\ s.phase = "delayed"
    /\ To(s, IF s.cancelled THEN "ended" ELSE "participants")
    /\ ignoring' = ~s.cancelled
    /\ UNCHANGED <<saveUnchanged, errorMode, running, queued, fileVars, failures, cancels,
                   stored, history>>

\* The participants are done; the error flag is cleared, "since we are trying to
\* save again", and the run is marked with the newest version.
ParticipantsDone(s) ==
    /\ s.phase = "participants"
    /\ ignoring' = FALSE
    /\ IF s.cancelled
       THEN To(s, "ended") /\ UNCHANGED <<running, errorMode>>
       ELSE /\ saves' = (saves \ {s}) \cup {Snapshotting(s)}
            /\ running' = TaskOf(Snapshotting(s))
            /\ errorMode' = FALSE
    /\ UNCHANGED <<saveUnchanged, queued, fileVars, failures, cancels, stored, history>>

\* A save that has the snapshot t.
WithSnapshot(s, t) == [s EXCEPT !.phase = "validating", !.base = t]

\* The snapshot, of the text when it was asked for or of the text by now.
SnapshotDone(s) ==
    /\ s.phase = "snapshot"
    /\ \/ s.cancelled /\ To(s, "ended")
       \/ /\ ~s.cancelled
          /\ \E t \in {s.base, text} : saves' = (saves \ {s}) \cup {WithSnapshot(s, t)}
    /\ UNCHANGED <<saveUnchanged, errorMode, running, queued, ignoring, fileVars, failures,
                   cancels, stored, history>>

NeverModified(s) == FALSE

\* The file is newer than the stat of the save, and not the text it writes.
ModifiedSince(s) ==
    /\ s.kind # "overwrite"
    /\ s.mtime < disk.mtime
    /\ s.base # disk.text

\* handleSaveError: in conflict when the file is newer, in error anyway.
SaveFailed(s, isConflict) ==
    /\ To(s, "ended")
    /\ dirty' = TRUE /\ errorMode' = TRUE
    /\ conflict' = (conflict \/ isConflict)
    /\ wanted' = 0
    /\ UNCHANGED <<text, versionId, saved, behind, seen, stat, resolveVars, edits, calls, externals,
                   reverts, running, queued, ignoring, cancels, stored>>

\* validateWriteFile, the dirty write prevention: refused when modified since.  The
\* write goes on without that when the file has the size it had before, and when
\* its stat fails, as it does for a file that does not exist.
Validate(s) ==
    /\ s.phase = "validating"
    /\ \/ /\ ModifiedSince(s)
          /\ SaveFailed(s, TRUE)
          /\ UNCHANGED <<failures, checked>>
       \/ /\ To(s, "writing")
          /\ \/ ~ModifiedSince(s) /\ checked' = disk.mtime /\ UNCHANGED failures
             \/ ModifiedSince(s) /\ checked' = None /\ UNCHANGED failures
             \/ failures < MaxFailures /\ checked' = None /\ failures' = failures + 1
          /\ UNCHANGED <<saveUnchanged, errorMode, running, queued, ignoring, cancels,
                         stored>>
    /\ UNCHANGED <<fileVars, synced, misled>>

\* The file gets the text t; the watcher will report it.
ChangeFile(t) ==
    /\ disk' = [text |-> t, mtime |-> disk.mtime + 1]
    /\ onDisk' = onDisk \cup {t}
    /\ watch' = TRUE

\* doWriteUnbuffered or doWriteBuffered.
Write(s) ==
    /\ s.phase = "writing"
    /\ To(s, "written")
    /\ ChangeFile(s.base)
    /\ stored' = IF s.task > stored THEN s.task ELSE stored
    /\ UNCHANGED <<saveUnchanged, errorMode, running, queued, ignoring, failures, cancels, history>>

\* The write fails, possibly after it truncated the file, or the stat after it.
WriteFails(s) ==
    /\ s.phase \in {"writing", "written"}
    /\ failures < MaxFailures
    /\ failures' = failures + 1
    /\ SaveFailed(s, FALSE)
    /\ \/ UNCHANGED fileVars
       \/ s.phase = "writing" /\ ChangeFile(<<"torn", failures + 1>>)
    /\ UNCHANGED history

AnyVersion(s) == TRUE

\* handleSaveSuccess: dirty unless the copy changed meanwhile.
StillSameVersion(s) == s.task = versionId

NewerStat(m) == IF stat <= m THEN m ELSE stat

\* writeFile returns a stat taken after the write; handleSaveSuccess.
StatDone(s) ==
    /\ s.phase = "written"
    /\ To(s, "ended")
    /\ stat' = NewerStat(disk.mtime)
    /\ synced' = s.base /\ misled' = (disk.text # s.base) /\ UNCHANGED checked
    /\ IF StillSameVersion(s) THEN SetClean(text) /\ behind' = FALSE
       ELSE /\ behind' = (saved # s.base)
            /\ UNCHANGED <<dirty, conflict, errorMode, saved, wanted>>
    /\ UNCHANGED <<text, versionId, seen, resolveVars, edits, calls, externals, reverts,
                   running, queued, ignoring, fileVars, failures, cancels, stored>>

NotRunning(s) == FALSE

\* doneRunning.  (The outer run of the same save is done right after; its task
\* is older than any that started meanwhile, so that changes nothing.)
IsRunning(s) == running # None /\ running.task = s.task

QueueForgotten == FALSE

QueuedRuns == queued # None /\ (dirty \/ queued = "force")

\* A save is over: runQueued, when it is the one that is running.
Done(s) ==
    /\ s.phase = "ended"
    /\ UNCHANGED <<saveUnchanged, fileVars, failures, cancels, stored, history>>
    /\ IF IsRunning(s) /\ QueuedRuns
       THEN StartSave(queued, saves \ {s}) /\ queued' = None
       ELSE /\ saves' = saves \ {s}
            /\ running' = IF IsRunning(s) THEN None ELSE running
            /\ queued' = IF IsRunning(s) THEN None ELSE queued
            /\ UNCHANGED <<ignoring, errorMode>>
-----------------------------------------------------------------------------
(* Resolving: the reloads the manager queues, and revert().                  *)

\* The manager does not pass forceReadFromFile on: reload.force, which it reads
\* instead, is not set by the resolver it gives to the working copy.
Etag(by) == stat

\* resolve() does nothing while the copy is dirty or saved.
MayResolve(isDirty) == ~isDirty /\ running = None

StartRead(by) ==
    resolving' = [by |-> by, phase |-> "reading", etag |-> Etag(by), ver |-> versionId,
                  text |-> None]

\* onDidFilesChange: a reload is queued unless the copy is dirty or one is
\* waiting already.
FileEvent ==
    /\ Settled
    /\ watch
    /\ watch' = FALSE
    /\ reloads' = IF dirty \/ reloads > 1 THEN reloads ELSE reloads + 1
    /\ UNCHANGED <<copyVars, stat, saveVars, resolving, reverting, disk, onDisk, boundVars,
                   stored, history>>

\* reload(), once no other resolve is pending.
Reload ==
    /\ Settled
    /\ reloads > 0 /\ resolving = None
    /\ IF MayResolve(dirty)
       THEN StartRead("reload") /\ UNCHANGED reloads
       ELSE reloads' = reloads - 1 /\ UNCHANGED resolving
    /\ UNCHANGED <<copyVars, stat, saveVars, reverting, fileVars, boundVars, stored, history>>

\* revert(): the flags are cleared first; then, unless the revert is soft, the
\* file is read after any resolve that is pending.
Revert(soft) ==
    /\ Settled
    /\ dirty /\ reverting = None /\ reverts < MaxReverts
    /\ reverts' = reverts + 1
    /\ SetClean(text) /\ behind' = (text # synced)
    /\ IF soft \/ (resolving = None /\ ~MayResolve(FALSE))
       THEN UNCHANGED <<resolving, reverting>>
       ELSE /\ reverting' = [dirty |-> dirty, conflict |-> conflict, errorMode |-> errorMode,
                             saved |-> saved]
            /\ IF resolving = None THEN StartRead("revert") ELSE UNCHANGED resolving
    /\ UNCHANGED <<text, versionId, seen, stat, saveVars, reloads, fileVars, edits, calls,
                   externals, failures, cancels, stored, history>>

\* The pending resolve is over: the revert resolves, unless it may not.
RevertResumes ==
    /\ Settled
    /\ reverting # None /\ resolving = None
    /\ IF MayResolve(dirty)
       THEN StartRead("revert") /\ UNCHANGED reverting
       ELSE reverting' = None /\ UNCHANGED resolving
    /\ UNCHANGED <<copyVars, stat, saveVars, reloads, fileVars, boundVars, stored, history>>

\* A resolve is over, and with it the reload or the revert that began it.
EndResolve ==
    /\ resolving' = None
    /\ IF resolving.by = "reload"
       THEN reloads' = reloads - 1 /\ UNCHANGED reverting
       ELSE reverting' = None /\ UNCHANGED reloads

AnyContent == TRUE

\* "Return early if the working copy content has changed meanwhile".
Unchanged == resolving.ver = versionId

\* resolveFromFile, the read: not modified since, dropped because the copy changed
\* meanwhile, or taken.
ReadDone ==
    /\ Settled
    /\ resolving # None /\ resolving.phase = "reading"
    /\ IF disk.mtime = resolving.etag \/ ~Unchanged
       THEN EndResolve /\ UNCHANGED stat
       ELSE /\ stat' = NewerStat(disk.mtime)
            /\ resolving' = [resolving EXCEPT !.phase = "updating", !.ver = versionId,
                                              !.text = disk.text]
            /\ UNCHANGED <<reverting, reloads>>
    /\ UNCHANGED <<copyVars, saveVars, fileVars, boundVars, stored, history>>

\* The read fails, or model.update does, after the stat was taken over: a revert
\* sets the flags back.
ResolveFails ==
    /\ Settled
    /\ resolving # None
    /\ failures < MaxFailures
    /\ failures' = failures + 1
    /\ EndResolve
    /\ IF resolving.by = "revert"
       THEN /\ dirty' = reverting.dirty /\ conflict' = reverting.conflict
            /\ errorMode' = reverting.errorMode /\ saved' = reverting.saved
            /\ behind' = (reverting.saved # synced)
       ELSE /\ behind' = (behind \/ (Updating /\ text # saved))
            /\ UNCHANGED <<dirty, conflict, errorMode, saved>>
    /\ misled' = (misled \/ Updating)
    /\ UNCHANGED <<text, versionId, wanted, seen, stat, saveVars, fileVars, edits, calls,
                   externals, reverts, cancels, stored, synced, checked>>

\* model.update is over: the model has what was in the file when its stat was
\* taken or, as the content is a stream, what is in it by now.
UpdateDone ==
    /\ Settled
    /\ Updating
    /\ \E t \in {resolving.text, disk.text} :
          /\ text' = t /\ seen' = seen \cup {t}
          /\ SetClean(t) /\ synced' = t
    /\ behind' = FALSE /\ misled' = FALSE
    /\ versionId' = versionId + 1
    /\ EndResolve
    /\ UNCHANGED <<stat, saveVars, fileVars, boundVars, stored, checked>>

\* Another program changes the file.
External ==
    /\ externals < MaxExternal
    /\ externals' = externals + 1
    /\ ChangeFile(<<"ext", externals + 1>>)
    /\ UNCHANGED <<copyVars, stat, saveVars, resolveVars, edits, calls, reverts, failures,
                   cancels, stored, history>>
-----------------------------------------------------------------------------
SaveStep(s) ==
    \/ DelayDone(s) \/ ParticipantsDone(s) \/ SnapshotDone(s) \/ Validate(s)
    \/ Write(s) \/ StatDone(s) \/ Done(s)

ResolveStep == FileEvent \/ Reload \/ RevertResumes \/ ReadDone \/ UpdateDone

Next ==
    \/ Edit \/ Undo \/ External \/ ResolveFails
    \/ \E kind \in Kinds : Save(kind)
    \/ \E soft \in BOOLEAN : Revert(soft)
    \/ \E s \in saves : SaveStep(s) \/ Cancel(s) \/ WriteFails(s)
    \/ ResolveStep

Spec == Init /\ [][Next]_vars

\* Awaited calls return: participants, the model and the file service answer.
FairSpec ==
    /\ Spec
    /\ WF_vars(\E s \in saves : SaveStep(s))
    /\ WF_vars(ResolveStep)
-----------------------------------------------------------------------------
Phases == {"delayed", "participants", "snapshot", "validating", "writing", "written", "ended"}

SaveRecord ==
    [id : 1..MaxSaves, kind : Kinds, phase : Phases, task : Nat, cancelled : BOOLEAN,
     base : Texts, mtime : Nat]

CopyTypes ==
    /\ text \in Texts /\ saved \in Texts /\ versionId \in Nat /\ seen \subseteq Texts
    /\ dirty \in BOOLEAN /\ conflict \in BOOLEAN /\ errorMode \in BOOLEAN
    /\ wanted \in Nat /\ stored \in Nat /\ behind \in BOOLEAN
    /\ synced \in Texts /\ misled \in BOOLEAN

FileTypes ==
    /\ disk \in [text : Texts, mtime : Nat] /\ stat \in 0..disk.mtime
    /\ checked \in (0..disk.mtime) \cup {None}
    /\ onDisk \subseteq Texts /\ disk.text \in onDisk /\ watch \in BOOLEAN

SaveTypes ==
    /\ saves \subseteq SaveRecord /\ \A s, t \in saves : s.id = t.id => s = t
    /\ \A s \in saves : s.id <= calls /\ s.task <= versionId /\ s.mtime <= stat
    /\ running = None \/ \E s \in saves : running = TaskOf(s)
    /\ queued \in Kinds \cup {None} /\ ignoring \in BOOLEAN

ResolveTypes ==
    /\ resolving \in Resolves \cup {None} /\ (resolving # None => resolving.ver <= versionId)
    /\ Updating => resolving.text \in onDisk
    /\ reverting \in Flags \cup {None} /\ (reverting # None => reverting.dirty)
    /\ resolving # None => IF resolving.by = "reload" THEN reloads > 0 ELSE reverting # None
    /\ reloads \in 0..2

BoundTypes ==
    /\ edits \in 0..MaxEdits /\ calls \in 0..MaxSaves /\ externals \in 0..MaxExternal
    /\ reverts \in 0..MaxReverts /\ failures \in 0..MaxFailures /\ cancels \in 0..MaxCancels

\* Type invariant.  The set of saves has at most one for each call of save(), the
\* running task is one of them, a save knows no version and no stat of the future,
\* a resolve has what it will give back, and a revert that waits remembers its flags.
TypeOK == CopyTypes /\ FileTypes /\ SaveTypes /\ ResolveTypes /\ BoundTypes

\* "Never ever must 2 saves execute at the same time" (doSave): no two saves are
\* between the snapshot and the answer of the file service, whatever version they
\* are for, however often the running one was cancelled or joined.
OneWriteAtATime ==
    \A s, t \in saves : InFlight(s) /\ InFlight(t) => s = t

\* A copy at rest that is not dirty shows the text it last read or wrote, and that is
\* the text of the file when its stat is the file's: edits, undos, saves, reloads
\* and reverts, failing or not, come in any order (handleSaveSuccess compares the
\* versions, a failed revert puts the flags back).  Excepted is a saved version
\* that has fallen behind: a save that another version overtook left it, so that
\* an undo goes back to it; a revert moved it to a text that was not saved, and
\* read nothing; a failed revert put back one that a save had replaced; or an edit
\* during model.update was not tracked and the update failed.  So is, for the
\* second part, a stat that is not that of the text.
CleanMeansSaved ==
    (saves = {} /\ resolving = None /\ ~dirty /\ ~behind)
        => text = synced /\ (stat = disk.mtime /\ ~misled => text = disk.text)

\* Dirty write prevention, end to end: a save never replaces a content of the file
\* that the copy has not shown, even when its event was dropped because the copy
\* was dirty.  Excepted are the saves told to overwrite, those that did not compare
\* (the stat failed, or the size is the same), a change made after the comparison,
\* and a stat that is not that of the text.
NoBlindOverwrite ==
    [][\A s \in saves :
          (s.phase = "writing" /\ At(s, "written") \in saves' /\ s.kind # "overwrite"
           /\ checked = disk.mtime /\ ~misled) => disk.text \in seen]_vars

\* A reload never replaces an edit that was not saved, though the edit was made
\* while the file was being read (resolveFromFile compares the versions).  An edit
\* made later, while model.update runs, is replaced, as is the text of a copy whose
\* saved version has fallen behind.
ReloadKeepsEdits ==
    [][(Updating /\ versionId = resolving.ver /\ versionId' # versionId /\ resolving' = None
        /\ ~behind) => text \in onDisk]_vars

\* A version that save() was asked for is written, in time, by that save, by the
\* one it joined, by the queued one that replaced it or by the one whose
\* participants ran when save() was refused, unless saving failed, of which the
\* user is told, or the copy is not dirty any more.  A save that was cancelled by
\* hand takes those that joined it, or that were refused because of it, with it.
SavesSettle == (wanted > stored) ~> (wanted <= stored \/ cancels > 0)

\* doSetDirty: "we remember the models alternate version id to remember when the
\* version of the model matches with the saved version on disk".  Nobody else
\* changes the file: a copy at rest that is not dirty shows what is on disk.
SavedVersionIsOnDisk ==
    (saves = {} /\ resolving = None /\ ~dirty) => text = disk.text

\* revert(): "Force read from disk unless reverting soft".  When the read of a
\* revert is over and nothing was typed meanwhile, the copy shows a text that was
\* in the file.
RevertReadsDisk ==
    [][(resolving # None /\ resolving.by = "revert" /\ resolving' = None /\ failures' = failures
        /\ resolving.ver = versionId) => text' \in onDisk']_vars
=============================================================================
