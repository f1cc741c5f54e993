-------------------------- MODULE WorkingCopyProofs --------------------------
(***************************************************************************)
(* Safety of WorkingCopy for any number of edits, saves, reverts, failures *)
(* and changes of the file by other programs.                              *)
(***************************************************************************)
EXTENDS WorkingCopy, TLAPS

-----------------------------------------------------------------------------
(* Saves and their fields.                                                   *)

\* A save in another phase is otherwise the same save.
LEMMA AtFields ==
  ASSUME NEW s \in SaveRecord, NEW p \in Phases
  PROVE  /\ At(s, p) \in SaveRecord /\ TaskOf(At(s, p)) = TaskOf(s)
         /\ At(s, p).phase = p /\ At(s, p).id = s.id /\ At(s, p).kind = s.kind
         /\ At(s, p).task = s.task /\ At(s, p).base = s.base /\ At(s, p).mtime = s.mtime
BY DEF At, SaveRecord, TaskOf

\* A cancelled save is otherwise the same save.
LEMMA CancelFields ==
  ASSUME NEW s \in SaveRecord
  PROVE  /\ CancelToken(s) \in SaveRecord /\ TaskOf(CancelToken(s)) = TaskOf(s)
         /\ CancelToken(s).phase = s.phase /\ CancelToken(s).id = s.id
         /\ CancelToken(s).kind = s.kind /\ CancelToken(s).task = s.task
         /\ CancelToken(s).base = s.base /\ CancelToken(s).mtime = s.mtime
BY DEF CancelToken, SaveRecord, TaskOf

\* A save that got its snapshot changes its phase and its text only.
LEMMA WithSnapshotFields ==
  ASSUME NEW s \in SaveRecord, NEW t \in Texts
  PROVE  /\ WithSnapshot(s, t) \in SaveRecord /\ TaskOf(WithSnapshot(s, t)) = TaskOf(s)
         /\ WithSnapshot(s, t).phase = "validating" /\ WithSnapshot(s, t).base = t
         /\ WithSnapshot(s, t).id = s.id /\ WithSnapshot(s, t).kind = s.kind
         /\ WithSnapshot(s, t).task = s.task /\ WithSnapshot(s, t).mtime = s.mtime
BY DEF WithSnapshot, SaveRecord, TaskOf, Phases

\* A save that asks for its snapshot is one of the newest version.
LEMMA SnapshottingFields ==
  ASSUME NEW s \in SaveRecord, versionId \in Nat, text \in Texts, stat \in Nat
  PROVE  /\ Snapshotting(s) \in SaveRecord
         /\ Snapshotting(s).phase = "snapshot" /\ Snapshotting(s).id = s.id
         /\ Snapshotting(s).kind = s.kind /\ Snapshotting(s).task = versionId
         /\ Snapshotting(s).base = text /\ Snapshotting(s).mtime = stat
BY DEF Snapshotting, SaveRecord, Phases

\* None is none of the values it stands in for.
LEMMA NoneIsNone == 
  /\ None \notin Kinds /\ None \notin Resolves /\ None \notin Flags
  /\ \A s \in SaveRecord : TaskOf(s) \in Tasks /\ TaskOf(s) # None
BY WorkingCopyAssumption DEF TaskOf, SaveRecord, Tasks

\* The text a working copy begins with.
LEMMA OriginalText == Original \in Texts /\ \A n \in Nat : <<"edit", n>> \in Texts
BY DEF Original, Texts

-----------------------------------------------------------------------------
(* One save at a time.                                                       *)

\* At most one save, and it is the one the sequentializer runs.
OneSave ==
    \/ saves = {} /\ running = None
    \/ \E s \in saves : saves = {s} /\ running = TaskOf(s)

SaveOK(s) == s \in SaveRecord /\ s.id <= calls /\ s.task <= versionId /\ s.mtime <= stat

\* What a step does to the save: nothing, its end, or its next form.
Kept == saves' = saves /\ running' = running
Over == saves' = {} /\ running' = None
Becomes(t) == saves' = {t} /\ running' = TaskOf(t)

\* A save that exists is the only one.
LEMMA TheSave ==
  ASSUME TypeOK, OneSave, NEW s \in saves
  PROVE  /\ saves = {s} /\ saves \ {s} = {} /\ running = TaskOf(s) /\ running # None
         /\ IsRunning(s) /\ s \in SaveRecord /\ SaveOK(s)
<1>1. saves = {s} /\ running = TaskOf(s)
  BY DEF OneSave
<1>2. s \in SaveRecord /\ SaveOK(s)
  BY DEF TypeOK, SaveTypes, SaveOK
<1>3. running # None
  BY <1>1, <1>2, NoneIsNone
<1>4. saves \ {s} = {}
  BY <1>1
<1> QED BY <1>1, <1>2, <1>3, <1>4 DEF IsRunning, TaskOf

\* A step to another phase.
LEMMA ToBecomes ==
  ASSUME TypeOK, OneSave, NEW s \in saves, NEW p \in Phases, To(s, p), running' = running
  PROVE  Becomes(At(s, p)) /\ SaveOK(At(s, p))
BY TheSave, AtFields DEF To, Becomes, SaveOK

\* A save that starts is the save of the newest version.
LEMMA StartBecomes ==
  ASSUME TypeOK, NEW kind \in Kinds, StartSave(kind, {}), calls' \in 1..MaxSaves
  PROVE  /\ \E t \in SaveRecord :
              /\ Becomes(t) /\ t.id = calls' /\ t.task = versionId /\ t.mtime = stat
              /\ t.base = text /\ t.kind = kind /\ t.phase \in {"delayed", "participants", "snapshot"}
         /\ ignoring' \in BOOLEAN /\ errorMode' \in BOOLEAN
<1> DEFINE s == [id |-> calls', kind |-> kind, phase |-> "delayed", task |-> versionId,
                 cancelled |-> FALSE, base |-> text, mtime |-> stat]
<1>1. versionId \in Nat /\ text \in Texts /\ stat \in Nat
  BY DEF TypeOK, CopyTypes, FileTypes
<1>2. /\ s \in SaveRecord /\ s.id = calls' /\ s.task = versionId /\ s.mtime = stat
      /\ s.base = text /\ s.kind = kind /\ s.phase = "delayed"
  BY <1>1 DEF SaveRecord, Phases
<1>3. /\ \/ saves' = {s} /\ running' = TaskOf(s)
         \/ saves' = {At(s, "participants")} /\ running' = TaskOf(s)
         \/ saves' = {Snapshotting(s)} /\ running' = TaskOf(Snapshotting(s))
      /\ ignoring' \in BOOLEAN /\ errorMode' \in BOOLEAN
  BY Zenon DEF StartSave, TypeOK, CopyTypes, SaveTypes
<1> HIDE DEF s
<1>4. "participants" \in Phases
  BY DEF Phases
<1> QED BY <1>1, <1>2, <1>3, <1>4, AtFields, SnapshottingFields DEF Becomes

\* A save that is already there, in any form a step gives it.
LEMMA StillOK ==
  ASSUME TypeOK, OneSave, NEW s \in saves
  PROVE  /\ s.id \in 1..MaxSaves /\ s.id <= calls /\ s.task \in Nat /\ s.task <= versionId
         /\ s.mtime \in Nat /\ s.mtime <= stat /\ s.base \in Texts /\ s.kind \in Kinds
         /\ s.phase \in Phases
BY TheSave DEF SaveOK, SaveRecord

\* What a step of the save does to it.
LEMMA SaveOutcome ==
  ASSUME TypeOK, OneSave, NEW s \in saves, SaveStep(s) \/ Cancel(s) \/ WriteFails(s)
  PROVE  /\ queued' \in Kinds \cup {None} /\ ignoring' \in BOOLEAN /\ errorMode' \in BOOLEAN
         /\ Over \/ \E t \in SaveRecord : /\ Becomes(t) /\ t.id <= calls
                                         /\ t.task <= versionId /\ t.mtime <= stat
<1> USE TheSave, StillOK, AtFields
<1>0. /\ versionId \in Nat /\ text \in Texts /\ stat \in Nat /\ queued \in Kinds \cup {None}
      /\ ignoring \in BOOLEAN /\ errorMode \in BOOLEAN /\ calls \in 0..MaxSaves /\ MaxSaves \in Nat
      /\ Phases = {"delayed", "participants", "snapshot", "validating", "writing", "written",
                   "ended"}
  BY WorkingCopyAssumption DEF TypeOK, CopyTypes, FileTypes, SaveTypes, BoundTypes, Phases
<1> DEFINE Moved == /\ queued' = queued /\ ignoring' \in BOOLEAN /\ errorMode' \in BOOLEAN
                    /\ \E p \in Phases : To(s, p) /\ running' = running
<1>1. ASSUME Moved PROVE /\ queued' \in Kinds \cup {None} /\ ignoring' \in BOOLEAN
                         /\ errorMode' \in BOOLEAN
                         /\ \E t \in SaveRecord : /\ Becomes(t) /\ t.id <= calls
                                                 /\ t.task <= versionId /\ t.mtime <= stat
  <2>1. PICK p \in Phases : To(s, p) /\ running' = running
    BY <1>1
  <2>2. Becomes(At(s, p)) /\ SaveOK(At(s, p))
    BY <2>1, ToBecomes
  <2> QED BY <1>0, <1>1, <2>2 DEF SaveOK
<1>2. CASE DelayDone(s)
  <2>1. ignoring' \in BOOLEAN
    BY <1>2, Zenon DEF DelayDone
  <2>2. Moved
    BY <1>0, <1>2, <2>1 DEF DelayDone
  <2> QED BY <1>1, <2>2
<1>3. CASE ParticipantsDone(s)
  <2>1. CASE s.cancelled
    <3>1. Moved
      BY <1>0, <1>3, <2>1 DEF ParticipantsDone
    <3> QED BY <1>1, <3>1
  <2>2. CASE ~s.cancelled
    <3>1. /\ saves' = {Snapshotting(s)} /\ running' = TaskOf(Snapshotting(s)) /\ queued' = queued
          /\ ignoring' = FALSE /\ errorMode' = FALSE
      BY <1>3, <2>2 DEF ParticipantsDone
    <3>2. /\ Snapshotting(s) \in SaveRecord /\ Snapshotting(s).id <= calls
          /\ Snapshotting(s).task <= versionId /\ Snapshotting(s).mtime <= stat
      BY <1>0, SnapshottingFields
    <3> QED BY <1>0, <3>1, <3>2 DEF Becomes
  <2> QED BY <2>1, <2>2
<1>4. CASE SnapshotDone(s)
  <2>1. CASE s.cancelled /\ To(s, "ended")
    <3>1. Moved
      BY <1>0, <1>4, <2>1 DEF SnapshotDone
    <3> QED BY <1>1, <3>1
  <2>2. CASE \E t \in {s.base, text} : saves' = (saves \ {s}) \cup {WithSnapshot(s, t)}
    <3>1. PICK t \in Texts : saves' = {WithSnapshot(s, t)}
      BY <1>0, <2>2
    <3>2. running' = running /\ queued' = queued /\ ignoring' = ignoring /\ errorMode' = errorMode
      BY <1>4 DEF SnapshotDone
    <3> QED BY <1>0, <3>1, <3>2, WithSnapshotFields DEF Becomes
  <2> QED BY <1>4, <2>1, <2>2 DEF SnapshotDone
<1>5. CASE Validate(s)
  <2>1. Moved
    BY <1>0, <1>5 DEF Validate, SaveFailed, saveUnchanged
  <2> QED BY <1>1, <2>1
<1>6. CASE Write(s)
  <2>1. Moved
    BY <1>0, <1>6 DEF Write
  <2> QED BY <1>1, <2>1
<1>7. CASE StatDone(s)
  <2>1. errorMode' \in BOOLEAN
    BY <1>0, <1>7 DEF StatDone, SetClean
  <2>2. Moved
    BY <1>0, <1>7, <2>1 DEF StatDone
  <2> QED BY <1>1, <2>2
<1>8. CASE Done(s)
  <2>1. CASE IsRunning(s) /\ QueuedRuns
    <3>1. queued \in Kinds /\ StartSave(queued, {}) /\ queued' = None /\ calls' = calls
      BY <1>0, <1>8, <2>1 DEF Done, QueuedRuns, saveUnchanged
    <3>2. calls' \in 1..MaxSaves
      BY <1>0, <3>1
    <3> QED BY <1>0, <3>1, <3>2, StartBecomes
  <2>2. CASE ~(IsRunning(s) /\ QueuedRuns)
    BY <1>0, <1>8, <2>2 DEF Done, Over
  <2> QED BY <2>1, <2>2
<1>9. CASE Cancel(s)
  <2>1. /\ saves' = {CancelToken(s)} /\ running' = running /\ queued' = queued
        /\ ignoring' = ignoring /\ errorMode' = errorMode
    BY <1>9 DEF Cancel
  <2> QED BY <1>0, <2>1, CancelFields DEF Becomes
<1>10. CASE WriteFails(s)
  <2>1. Moved
    BY <1>0, <1>10 DEF WriteFails, SaveFailed
  <2> QED BY <1>1, <2>1
<1> QED BY <1>2, <1>3, <1>4, <1>5, <1>6, <1>7, <1>8, <1>9, <1>10 DEF SaveStep

\* What a call of save() does: nothing, a cancelled token, or a first save.
LEMMA SaveCall ==
  ASSUME TypeOK, OneSave, NEW kind \in Kinds, Save(kind)
  PROVE  /\ queued' \in Kinds \cup {None} /\ ignoring' \in BOOLEAN /\ errorMode' \in BOOLEAN
         /\ calls' = calls + 1 /\ calls' \in 1..MaxSaves
         /\ \/ Kept
            \/ \E s \in saves : Becomes(CancelToken(s))
            \/ /\ saves = {}
               /\ \E t \in SaveRecord :
                    /\ Becomes(t) /\ t.id = calls' /\ t.task = versionId /\ t.mtime = stat
                    /\ t.base = text /\ t.phase \in {"delayed", "participants", "snapshot"}
<1>0. /\ queued \in Kinds \cup {None} /\ ignoring \in BOOLEAN /\ errorMode \in BOOLEAN
      /\ calls \in 0..MaxSaves /\ MaxSaves \in Nat
  BY WorkingCopyAssumption DEF TypeOK, CopyTypes, SaveTypes, BoundTypes
<1>1. calls' = calls + 1 /\ calls' \in 1..MaxSaves
  BY <1>0 DEF Save
<1>2. CASE UNCHANGED <<saveVars, errorMode>>
  BY <1>0, <1>1, <1>2 DEF saveVars, Kept
<1>3. CASE /\ Busy
           /\ saves' = {Cancelled(s) : s \in saves}
           /\ queued' = kind
           /\ UNCHANGED <<running, ignoring, errorMode>>
  <2>1. PICK s \in saves : saves = {s} /\ running = TaskOf(s)
    BY <1>3 DEF OneSave, Busy
  <2>2. s \in SaveRecord /\ Cancelled(s) = CancelToken(s)
    BY <2>1, TheSave DEF Cancelled, TaskOf
  <2>3. saves' = {CancelToken(s)}
    BY <1>3, <2>1, <2>2, Zenon
  <2> QED BY <1>0, <1>1, <1>3, <2>1, <2>2, <2>3, CancelFields DEF Becomes
<1>4. CASE ~Busy /\ StartSave(kind, saves) /\ UNCHANGED queued
  <2>1. saves = {}
    BY <1>4, TheSave DEF OneSave, Busy
  <2>2. StartSave(kind, {})
    BY <1>4, <2>1
  <2> QED BY <1>0, <1>1, <1>4, <2>1, <2>2, StartBecomes
<1> QED BY <1>2, <1>3, <1>4 DEF Save, DoSave

\* The steps that leave the save alone.
Quiet ==
    \/ Edit \/ Undo \/ External \/ ResolveFails \/ (\E soft \in BOOLEAN : Revert(soft))
    \/ FileEvent \/ Reload \/ RevertResumes \/ ReadDone \/ UpdateDone

\* Every step is a quiet one, a call of save(), or a step of the save.
LEMMA Steps ==
  ASSUME Next
  PROVE  \/ Quiet
         \/ \E kind \in Kinds : Save(kind)
         \/ \E s \in saves : SaveStep(s) \/ Cancel(s) \/ WriteFails(s)
BY DEF Next, Quiet, ResolveStep

\* What the quiet steps leave alone.
LEMMA QuietKeeps ==
  ASSUME Quiet
  PROVE  UNCHANGED <<saves, running, queued, ignoring, calls, stored, cancels>>
BY DEF Quiet, Edit, Undo, External, ResolveFails, Revert, FileEvent, Reload, RevertResumes,
       ReadDone, UpdateDone, saveVars, boundVars

\* A stat taken over is not older than the one before, nor newer than the file.
LEMMA NewerStatBounds ==
  ASSUME TypeOK
  PROVE  NewerStat(disk.mtime) = disk.mtime /\ disk.mtime \in Nat /\ stat \in Nat
BY DEF TypeOK, FileTypes, NewerStat

\* Versions, stats, the file and the calls only grow.
LEMMA Growth ==
  ASSUME TypeOK, Next
  PROVE  /\ versionId' \in {versionId, versionId + 1} /\ versionId \in Nat
         /\ stat' \in {stat, disk.mtime} /\ calls' \in {calls, calls + 1}
         /\ \/ disk' = disk /\ onDisk' = onDisk
            \/ stat' = stat /\ \E t \in Texts : ChangeFile(t)
<1>0. versionId \in Nat /\ NewerStat(disk.mtime) = disk.mtime
  BY NewerStatBounds DEF TypeOK, CopyTypes
<1>1. CASE Quiet
  <2>0. calls' = calls
    BY <1>1, QuietKeeps
  <2>1. CASE Edit \/ Undo
    BY <1>0, <2>0, <2>1 DEF Edit, Undo, ContentChanged, fileVars
  <2>2. CASE External
    <3>1. externals + 1 \in Nat
      BY DEF TypeOK, BoundTypes
    <3>2. <<"ext", externals + 1>> \in Texts
      BY <3>1 DEF Texts
    <3> QED BY <1>0, <2>0, <2>2, <3>2 DEF External, copyVars
  <2>3. CASE ResolveFails \/ (\E soft \in BOOLEAN : Revert(soft))
    BY <1>0, <2>0, <2>3 DEF ResolveFails, Revert, fileVars
  <2>4. CASE FileEvent \/ Reload \/ RevertResumes
    BY <1>0, <2>0, <2>4 DEF FileEvent, Reload, RevertResumes, fileVars, copyVars
  <2>5. CASE ReadDone \/ UpdateDone
    BY <1>0, <2>0, <2>5 DEF ReadDone, UpdateDone, fileVars, copyVars
  <2> QED BY <1>1, <2>1, <2>2, <2>3, <2>4, <2>5 DEF Quiet
<1>2. ASSUME NEW kind \in Kinds, Save(kind)
      PROVE  UNCHANGED <<versionId, stat, disk, onDisk>> /\ calls' = calls + 1
  BY <1>2 DEF Save, fileVars
<1>3. ASSUME NEW s \in saves, SaveStep(s) \/ Cancel(s) \/ WriteFails(s)
      PROVE  /\ versionId' = versionId /\ calls' = calls /\ stat' \in {stat, disk.mtime}
             /\ \/ disk' = disk /\ onDisk' = onDisk
                \/ stat' = stat /\ \E t \in Texts : ChangeFile(t)
  <2>1. CASE DelayDone(s) \/ ParticipantsDone(s) \/ SnapshotDone(s) \/ Done(s) \/ Cancel(s)
    BY <2>1 DEF DelayDone, ParticipantsDone, SnapshotDone, Done, Cancel, saveUnchanged, fileVars
  <2>2. CASE Validate(s)
    BY <2>2 DEF Validate, SaveFailed, saveUnchanged, fileVars
  <2>3. CASE Write(s)
    <3>1. s.base \in Texts
      BY DEF TypeOK, SaveTypes, SaveRecord
    <3> QED BY <2>3, <3>1 DEF Write, saveUnchanged
  <2>4. CASE WriteFails(s)
    <3>1. <<"torn", failures + 1>> \in Texts
      BY DEF TypeOK, BoundTypes, Texts
    <3> QED BY <2>4, <3>1 DEF WriteFails, SaveFailed, fileVars
  <2>5. CASE StatDone(s)
    BY <1>0, <2>5 DEF StatDone, fileVars
  <2> QED BY <1>3, <2>1, <2>2, <2>3, <2>4, <2>5 DEF SaveStep
<1> QED BY <1>0, <1>1, <1>2, <1>3, Steps

\* There is never more than one save.
LEMMA OneSaveKept ==
  ASSUME TypeOK, OneSave, Next
  PROVE  OneSave' /\ SaveTypes'
<1>1. /\ versionId \in Nat /\ versionId' \in Nat /\ versionId' >= versionId /\ stat' \in Nat
      /\ stat' >= stat /\ calls' >= calls /\ stat \in Nat /\ calls \in Nat /\ calls' \in Nat
  <2>1. stat \in Nat /\ disk.mtime \in Nat /\ stat <= disk.mtime /\ calls \in Nat
    BY WorkingCopyAssumption DEF TypeOK, FileTypes, BoundTypes
  <2> QED BY <2>1, Growth
<1>2. ASSUME queued' \in Kinds \cup {None}, ignoring' \in BOOLEAN,
             Over \/ \E t \in SaveRecord : /\ Becomes(t) /\ t.id <= calls' /\ t.task <= versionId'
                                         /\ t.mtime <= stat'
      PROVE  OneSave' /\ SaveTypes'
  BY <1>2 DEF Over, Becomes, OneSave, SaveTypes, TaskOf
<1>3. ASSUME Kept, queued' \in Kinds \cup {None}, ignoring' \in BOOLEAN PROVE OneSave' /\ SaveTypes'
  <2>1. CASE saves = {}
    BY <1>2, <1>3, <2>1 DEF Kept, Over, OneSave
  <2>2. ASSUME NEW s \in saves PROVE OneSave' /\ SaveTypes'
    <3>1. Becomes(s) /\ s \in SaveRecord /\ s.id <= calls' /\ s.task <= versionId' /\ s.mtime <= stat'
      <4>1. s \in SaveRecord /\ s.id \in Nat /\ s.task \in Nat /\ s.mtime \in Nat
        BY TheSave, StillOK
      <4> QED BY <1>1, <1>3, <4>1, TheSave, StillOK DEF Kept, Becomes
    <3> QED BY <1>2, <1>3, <3>1
  <2> QED BY <2>1, <2>2
<1>4. CASE Quiet
  <2>1. queued \in Kinds \cup {None} /\ ignoring \in BOOLEAN
    BY DEF TypeOK, SaveTypes
  <2> QED BY <1>3, <1>4, <2>1, QuietKeeps DEF Kept
<1>5. ASSUME NEW kind \in Kinds, Save(kind) PROVE OneSave' /\ SaveTypes'
  <2>1. CASE Kept
    BY <1>3, <1>5, <2>1, SaveCall
  <2>2. ASSUME NEW s \in saves, Becomes(CancelToken(s)) PROVE OneSave' /\ SaveTypes'
    <3>1. /\ CancelToken(s) \in SaveRecord /\ CancelToken(s).id = s.id
          /\ CancelToken(s).task = s.task /\ CancelToken(s).mtime = s.mtime
      BY TheSave, CancelFields
    <3>2. s.id \in Nat /\ s.task \in Nat /\ s.mtime \in Nat
      BY StillOK
    <3>3. s.id <= calls' /\ s.task <= versionId' /\ s.mtime <= stat'
      BY <1>1, <3>2, StillOK
    <3> QED BY <1>2, <1>5, <2>2, <3>1, <3>3, SaveCall
  <2>3. ASSUME NEW t \in SaveRecord, Becomes(t), t.id = calls', t.task = versionId, t.mtime = stat
        PROVE  OneSave' /\ SaveTypes'
    BY <1>1, <1>2, <1>5, <2>3, SaveCall
  <2> QED BY <1>5, <2>1, <2>2, <2>3, SaveCall
<1>6. ASSUME NEW s \in saves, SaveStep(s) \/ Cancel(s) \/ WriteFails(s) PROVE OneSave' /\ SaveTypes'
  <2>1. CASE Over
    BY <1>2, <1>6, <2>1, SaveOutcome
  <2>2. ASSUME NEW t \in SaveRecord, Becomes(t), t.id <= calls, t.task <= versionId, t.mtime <= stat
        PROVE  OneSave' /\ SaveTypes'
    <3>1. t.id \in Nat /\ t.task \in Nat /\ t.mtime \in Nat
      BY DEF SaveRecord
    <3>2. t.id <= calls' /\ t.task <= versionId' /\ t.mtime <= stat'
      BY <1>1, <2>2, <3>1
    <3> QED BY <1>2, <1>6, <2>2, <3>2, SaveOutcome
  <2> QED BY <1>6, <2>1, <2>2, SaveOutcome
<1> QED BY <1>4, <1>5, <1>6, Steps
-----------------------------------------------------------------------------
(* Types.                                                                    *)

\* The counters stay within their bounds.
LEMMA BoundTypesKept ==
  ASSUME TypeOK, OneSave, Next
  PROVE  BoundTypes'
<1>0. /\ {MaxEdits, MaxSaves, MaxExternal, MaxReverts, MaxFailures, MaxCancels} \subseteq Nat
      /\ BoundTypes
  BY WorkingCopyAssumption DEF TypeOK
<1>1. CASE Quiet
  <2>1. CASE Edit \/ Undo \/ External
    BY <1>0, <2>1 DEF Edit, Undo, External, BoundTypes
  <2>2. CASE ResolveFails
    BY <1>0, <2>2 DEF ResolveFails, BoundTypes
  <2>4. ASSUME NEW soft \in BOOLEAN, Revert(soft) PROVE BoundTypes'
    <3>1. reverts' = reverts + 1 /\ reverts < MaxReverts
      BY <2>4 DEF Revert
    <3> QED BY <1>0, <2>4, <3>1 DEF Revert, BoundTypes
  <2>3. CASE FileEvent \/ Reload \/ RevertResumes \/ ReadDone \/ UpdateDone
    BY <1>0, <2>3 DEF FileEvent, Reload, RevertResumes, ReadDone, UpdateDone, BoundTypes, boundVars
  <2> QED BY <1>1, <2>1, <2>2, <2>3, <2>4 DEF Quiet
<1>2. ASSUME NEW kind \in Kinds, Save(kind) PROVE BoundTypes'
  BY <1>0, <1>2 DEF Save, BoundTypes
<1>3. ASSUME NEW s \in saves, SaveStep(s) \/ Cancel(s) \/ WriteFails(s) PROVE BoundTypes'
  <2>1. CASE DelayDone(s) \/ ParticipantsDone(s) \/ SnapshotDone(s) \/ Done(s) \/ Cancel(s)
    BY <1>0, <2>1 DEF DelayDone, ParticipantsDone, SnapshotDone, Done, Cancel, saveUnchanged, BoundTypes
  <2>2. CASE Validate(s) \/ Write(s)
    BY <1>0, <2>2 DEF Validate, Write, SaveFailed, saveUnchanged, BoundTypes
  <2>3. CASE StatDone(s) \/ WriteFails(s)
    BY <1>0, <2>3 DEF StatDone, WriteFails, SaveFailed, BoundTypes
  <2> QED BY <1>3, <2>1, <2>2, <2>3 DEF SaveStep
<1> QED BY <1>1, <1>2, <1>3, Steps

\* The stat is that of the file or an older one, whose text has been on disk.
LEMMA FileTypesKept ==
  ASSUME TypeOK, OneSave, Next
  PROVE  FileTypes'
<1>0. FileTypes /\ disk.mtime \in Nat /\ disk.text \in Texts /\ stat \in Nat /\ stat <= disk.mtime
  BY DEF TypeOK, FileTypes
<1>1. watch' \in BOOLEAN
  <2>0. watch \in BOOLEAN /\ \A t : ChangeFile(t) => watch' = TRUE
    BY <1>0 DEF FileTypes, ChangeFile
  <2>1. CASE Quiet
    BY <2>0, <2>1 DEF Quiet, Edit, Undo, External, ResolveFails, Revert, FileEvent, Reload,
       RevertResumes, ReadDone, UpdateDone, fileVars
  <2>2. ASSUME NEW kind \in Kinds, Save(kind) PROVE watch' \in BOOLEAN
    BY <2>0, <2>2 DEF Save, fileVars
  <2>3. ASSUME NEW s \in saves, SaveStep(s) \/ Cancel(s) \/ WriteFails(s) PROVE watch' \in BOOLEAN
    BY <2>0, <2>3 DEF SaveStep, DelayDone, ParticipantsDone, SnapshotDone, Validate, Write, StatDone,
       Done, Cancel, WriteFails, fileVars
  <2> QED BY <2>1, <2>2, <2>3, Steps
<1>4. checked' \in {checked, disk.mtime, None}
  <2>1. CASE Quiet
    BY <2>1 DEF Quiet, Edit, Undo, External, ResolveFails, Revert, FileEvent, Reload, RevertResumes,
       ReadDone, UpdateDone, history
  <2>2. ASSUME NEW kind \in Kinds, Save(kind) PROVE checked' = checked
    BY <2>2 DEF Save, history
  <2>3. ASSUME NEW s \in saves, SaveStep(s) \/ Cancel(s) \/ WriteFails(s)
        PROVE  checked' \in {checked, disk.mtime, None}
    BY <2>3 DEF SaveStep, DelayDone, ParticipantsDone, SnapshotDone, Validate, Write, StatDone, Done,
       Cancel, WriteFails, history
  <2> QED BY <2>1, <2>2, <2>3, Steps
<1>5. checked' \in (0..disk.mtime) \cup {None}
  BY <1>0, <1>4 DEF FileTypes
<1>2. CASE disk' = disk /\ onDisk' = onDisk
  <2>1. stat' \in 0..disk.mtime
    BY <1>0, Growth
  <2> QED BY <1>0, <1>1, <1>2, <1>5, <2>1 DEF FileTypes
<1>3. ASSUME stat' = stat, NEW t \in Texts, ChangeFile(t) PROVE FileTypes'
  <2>1. /\ disk'.mtime = disk.mtime + 1 /\ disk'.text = t /\ onDisk' = onDisk \cup {t}
        /\ disk' \in [text : Texts, mtime : Nat]
    BY <1>0, <1>3 DEF ChangeFile
  <2>2. checked' \in (0..disk'.mtime) \cup {None} /\ stat' \in 0..disk'.mtime
    BY <1>0, <1>3, <1>5, <2>1
  <2> QED BY <1>0, <1>1, <2>1, <2>2 DEF FileTypes
<1> QED BY <1>2, <1>3, Growth

\* The flags of a copy that became clean.
LEMMA SetCleanTypes ==
  ASSUME NEW t \in Texts, SetClean(t)
  PROVE  /\ saved' = t /\ dirty' = FALSE /\ saved' \in Texts /\ dirty' \in BOOLEAN
         /\ conflict' \in BOOLEAN /\ errorMode' \in BOOLEAN /\ wanted' \in Nat
BY DEF SetClean

\* The text, its versions and its flags.
LEMMA CopyTypesKept ==
  ASSUME TypeOK, OneSave, Next
  PROVE  CopyTypes'
<1>0. CopyTypes /\ edits \in Nat
  BY DEF TypeOK, CopyTypes, BoundTypes
<1>1. ASSUME NEW t \in Texts, ContentChanged(t), stored' = stored, UNCHANGED history
      PROVE  CopyTypes'
  <2>1. CASE Updating
    BY <1>0, <1>1, <2>1 DEF CopyTypes, ContentChanged, flags, history
  <2>2. CASE ~Updating /\ t = saved
    <3>1. /\ text' = t /\ seen' = seen \cup {t} /\ versionId' = versionId + 1 /\ SetClean(t)
          /\ behind' = behind
      BY <1>1, <2>2 DEF ContentChanged
    <3>2. versionId' \in Nat /\ stored' \in Nat
      BY <1>0, <1>1, <3>1 DEF CopyTypes
    <3> QED BY <1>0, <1>1, <3>1, <3>2, SetCleanTypes DEF CopyTypes, history
  <2>3. CASE ~Updating /\ t # saved
    BY <1>0, <1>1, <2>3 DEF CopyTypes, ContentChanged, history
  <2> QED BY <2>1, <2>2, <2>3
<1>2. CASE Quiet
  <2>1. CASE Edit
    <3>1. <<"edit", edits + 1>> \in Texts
      BY <1>0, OriginalText
    <3> QED BY <1>0, <1>1, <2>1, <3>1 DEF Edit
  <2>2. CASE Undo
    BY <1>0, <1>1, <2>2 DEF Undo, CopyTypes
  <2>3. CASE External
    BY <1>0, <2>3 DEF External, CopyTypes, copyVars, flags, history
  <2>4. CASE ResolveFails
    <3>1. misled' \in BOOLEAN
      BY <1>0, <2>4, Zenon DEF ResolveFails, CopyTypes
    <3>2. CASE resolving.by = "revert"
      <4>1. reverting # None /\ reverting \in Flags
        BY <2>4, <3>2 DEF ResolveFails, TypeOK, ResolveTypes
      <4>2. /\ reverting.dirty \in BOOLEAN /\ reverting.conflict \in BOOLEAN
            /\ reverting.errorMode \in BOOLEAN /\ reverting.saved \in Texts
        BY <4>1 DEF Flags
      <4>3. behind' \in BOOLEAN
        BY <2>4, <3>2, Zenon DEF ResolveFails
      <4> QED BY <1>0, <2>4, <3>1, <3>2, <4>2, <4>3 DEF ResolveFails, CopyTypes
    <3>3. CASE resolving.by # "revert"
      <4>1. behind' \in BOOLEAN
        BY <1>0, <2>4, <3>3, Zenon DEF ResolveFails, CopyTypes
      <4> QED BY <1>0, <2>4, <3>1, <3>3, <4>1 DEF ResolveFails, CopyTypes
    <3> QED BY <3>2, <3>3
  <2>5. ASSUME NEW soft \in BOOLEAN, Revert(soft) PROVE CopyTypes'
    <3>1. behind' \in BOOLEAN
      BY <2>5, Zenon DEF Revert
    <3> QED BY <1>0, <2>5, <3>1, SetCleanTypes DEF Revert, CopyTypes, history
  <2>6. CASE FileEvent \/ Reload \/ RevertResumes \/ ReadDone
    BY <1>0, <2>6 DEF FileEvent, Reload, RevertResumes, ReadDone, CopyTypes, copyVars, flags, history
  <2>7. CASE UpdateDone
    <3>1. PICK t \in {resolving.text, disk.text} :
             text' = t /\ seen' = seen \cup {t} /\ SetClean(t) /\ synced' = t
      BY <2>7 DEF UpdateDone
    <3>2. t \in Texts
      BY <2>7 DEF UpdateDone, TypeOK, ResolveTypes, FileTypes
    <3>3. /\ versionId' = versionId + 1 /\ stored' = stored /\ behind' = FALSE /\ misled' = FALSE
          /\ checked' = checked
      BY <2>7 DEF UpdateDone
    <3>4. versionId' \in Nat /\ stored' \in Nat
      BY <1>0, <3>3 DEF CopyTypes
    <3> QED BY <1>0, <3>1, <3>2, <3>3, <3>4, SetCleanTypes DEF CopyTypes
  <2> QED BY <1>2, <2>1, <2>2, <2>3, <2>4, <2>5, <2>6, <2>7 DEF Quiet
<1>3. ASSUME NEW kind \in Kinds, Save(kind) PROVE CopyTypes'
  <2>1. errorMode' \in BOOLEAN /\ wanted' \in Nat
    BY <1>0, <1>3, SaveCall DEF Save, CopyTypes
  <2> QED BY <1>0, <1>3, <2>1 DEF Save, CopyTypes, history
<1>4. ASSUME NEW s \in saves, SaveStep(s) \/ Cancel(s) \/ WriteFails(s) PROVE CopyTypes'
  <2>0. errorMode' \in BOOLEAN /\ s.task \in Nat /\ s.base \in Texts /\ disk.mtime \in Nat
    BY <1>4, SaveOutcome, StillOK, NewerStatBounds
  <2>1. CASE DelayDone(s) \/ ParticipantsDone(s) \/ SnapshotDone(s) \/ Done(s) \/ Cancel(s)
    BY <1>0, <2>0, <2>1 DEF DelayDone, ParticipantsDone, SnapshotDone, Done, Cancel, saveUnchanged,
       CopyTypes, history
  <2>2. ASSUME NEW c \in BOOLEAN, SaveFailed(s, c), UNCHANGED history PROVE CopyTypes'
    <3>1. conflict' \in BOOLEAN
      BY <1>0, <2>2, Zenon DEF SaveFailed, CopyTypes
    <3> QED BY <1>0, <2>2, <3>1 DEF SaveFailed, CopyTypes, history
  <2>3. CASE WriteFails(s)
    BY <2>2, <2>3 DEF WriteFails
  <2>6. CASE Validate(s)
    <3>1. CASE SaveFailed(s, TRUE) /\ UNCHANGED checked
      BY <2>2, <2>6, <3>1 DEF Validate, history
    <3>2. CASE UNCHANGED <<saveUnchanged, errorMode, stored>> /\ checked' \in {disk.mtime, None}
      BY <1>0, <2>0, <2>6, <3>2 DEF Validate, saveUnchanged, CopyTypes
    <3> QED BY <2>6, <3>1, <3>2 DEF Validate
  <2>4. CASE Write(s)
    <3>1. stored' \in Nat
      BY <1>0, <2>0, <2>4 DEF Write, CopyTypes
    <3> QED BY <1>0, <2>4, <3>1 DEF Write, saveUnchanged, CopyTypes, history
  <2>5. CASE StatDone(s)
    <3>1. misled' \in BOOLEAN /\ behind' \in BOOLEAN
      BY <2>5, Zenon DEF StatDone
    <3> QED BY <1>0, <2>0, <2>5, <3>1, SetCleanTypes DEF StatDone, CopyTypes
  <2> QED BY <1>4, <2>1, <2>3, <2>4, <2>5, <2>6 DEF SaveStep
<1> QED BY <1>2, <1>3, <1>4, Steps

\* The steps that leave a resolve alone.
LEMMA ResolvesKept ==
  /\ \A kind \in Kinds : Save(kind) => UNCHANGED resolveVars
  /\ \A s \in saves : SaveStep(s) \/ Cancel(s) \/ WriteFails(s) => UNCHANGED resolveVars
  /\ Edit \/ Undo \/ External => UNCHANGED resolveVars
<1>1. \A kind \in Kinds : Save(kind) => UNCHANGED resolveVars
  BY DEF Save
<1>2. \A s \in saves : SaveStep(s) \/ Cancel(s) \/ WriteFails(s) => UNCHANGED resolveVars
  BY DEF SaveStep, DelayDone, ParticipantsDone, SnapshotDone, Validate, Write, StatDone, Done, Cancel,
     WriteFails, SaveFailed, saveUnchanged
<1>3. Edit \/ Undo \/ External => UNCHANGED resolveVars
  BY DEF Edit, Undo, External
<1> QED BY <1>1, <1>2, <1>3

\* What a resolve that is over leaves.
LEMMA EndResolveTypes ==
  ASSUME TypeOK, resolving # None, EndResolve
  PROVE  /\ resolving' = None /\ reloads' \in 0..2 /\ reverting' \in {reverting, None}
         /\ ResolveTypes'
<1>1. /\ ResolveTypes /\ resolving.by \in {"reload", "revert"} /\ reloads \in 0..2
      /\ resolving.by = "reload" => reloads > 0
  BY DEF TypeOK, ResolveTypes, Resolves
<1>2. resolving' = None /\ reverting' \in {reverting, None} /\ ~Updating'
  BY DEF EndResolve, Updating
<1>3. reloads' \in 0..2
  BY <1>1 DEF EndResolve
<1> QED BY <1>1, <1>2, <1>3 DEF ResolveTypes

\* What a read that begins is like.
LEMMA StartReadTypes ==
  ASSUME TypeOK, NEW by \in {"reload", "revert"}, StartRead(by)
  PROVE  /\ resolving' \in Resolves /\ resolving' # None /\ resolving'.ver = versionId
         /\ resolving'.phase = "reading" /\ resolving'.by = by /\ resolving'.etag = stat
<1> DEFINE r == [by |-> by, phase |-> "reading", etag |-> Etag(by), ver |-> versionId, text |-> None]
<1>1. versionId \in Nat /\ Etag(by) = stat /\ stat \in Nat
  BY NewerStatBounds DEF TypeOK, CopyTypes, Etag
<1>2. /\ r \in Resolves /\ r.ver = versionId /\ r.phase = "reading" /\ r.by = by /\ r.etag = stat
  BY <1>1 DEF Resolves
<1>3. resolving' = r
  BY DEF StartRead
<1> HIDE DEF r
<1> QED BY <1>2, <1>3, NoneIsNone

\* A read whose content is taken becomes an update.
LEMMA ReadTaken ==
  ASSUME TypeOK, ReadDone, ~(disk.mtime = resolving.etag \/ ~Unchanged)
  PROVE  /\ resolving' \in Resolves /\ resolving' # None /\ resolving'.ver = versionId
         /\ resolving'.phase = "updating" /\ resolving'.by = resolving.by
         /\ resolving'.text = disk.text /\ stat' = disk.mtime /\ Updating'
         /\ UNCHANGED <<reverting, reloads, copyVars, saveVars, fileVars, boundVars, stored, history>>
<1> DEFINE r == [resolving EXCEPT !.phase = "updating", !.ver = versionId, !.text = disk.text]
<1>1. resolving \in Resolves /\ versionId \in Nat /\ disk.text \in Texts
  BY DEF ReadDone, TypeOK, CopyTypes, FileTypes, ResolveTypes
<1>2. /\ r \in Resolves /\ r.ver = versionId /\ r.phase = "updating" /\ r.by = resolving.by
      /\ r.text = disk.text
  BY <1>1 DEF Resolves
<1>3. /\ resolving' = r /\ stat' = disk.mtime
      /\ UNCHANGED <<reverting, reloads, copyVars, saveVars, fileVars, boundVars, stored, history>>
  BY NewerStatBounds DEF ReadDone
<1> HIDE DEF r
<1> QED BY <1>2, <1>3, NoneIsNone DEF Updating

\* The resolve that runs and the revert that waits for it.
LEMMA ResolveTypesKept ==
  ASSUME TypeOK, OneSave, Next
  PROVE  ResolveTypes'
<1>0. /\ ResolveTypes /\ versionId \in Nat /\ versionId' \in {versionId, versionId + 1}
      /\ onDisk \subseteq onDisk'
      /\ \A r \in Resolves : r.ver \in Nat /\ (r.ver <= versionId => r.ver <= versionId')
  <2>1. onDisk \subseteq onDisk'
    BY Growth DEF ChangeFile
  <2> QED BY <2>1, Growth DEF TypeOK, Resolves
<1>1. CASE UNCHANGED <<resolving, reverting, reloads>>
  BY <1>0, <1>1 DEF ResolveTypes, Updating
<1>2. ASSUME NEW by \in {"reload", "revert"}, StartRead(by), UNCHANGED <<reloads, reverting, versionId>>,
             IF by = "reload" THEN reloads > 0 ELSE reverting # None
      PROVE  ResolveTypes'
  <2>1. /\ resolving' \in Resolves /\ resolving'.ver <= versionId' /\ ~Updating' /\ resolving'.by = by
    BY <1>0, <1>2, StartReadTypes DEF Updating
  <2> QED BY <1>0, <1>2, <2>1 DEF ResolveTypes
<1>3. CASE FileEvent
  <2>1. reloads' \in 0..2 /\ reloads' >= reloads /\ reloads \in 0..2
    BY <1>0, <1>3 DEF FileEvent, ResolveTypes
  <2>2. resolving' = resolving /\ reverting' = reverting /\ onDisk' = onDisk
    BY <1>3 DEF FileEvent
  <2> QED BY <1>0, <2>1, <2>2 DEF ResolveTypes, Updating
<1>4. CASE Reload
  <2>1. CASE MayResolve(dirty)
    BY <1>2, <1>4, <2>1 DEF Reload, copyVars
  <2>2. CASE ~MayResolve(dirty)
    <3>1. resolving' = None /\ reverting' = reverting /\ reloads' = reloads - 1 /\ ~Updating'
      BY <1>4, <2>2 DEF Reload, Updating
    <3>2. reloads' \in 0..2
      BY <1>0, <1>4, <3>1 DEF Reload, ResolveTypes
    <3> QED BY <1>0, <3>1, <3>2 DEF ResolveTypes
  <2> QED BY <2>1, <2>2
<1>5. CASE RevertResumes
  <2>1. CASE MayResolve(dirty)
    BY <1>2, <1>5, <2>1 DEF RevertResumes, copyVars
  <2>2. CASE ~MayResolve(dirty)
    <3>1. resolving' = None /\ reverting' = None /\ reloads' = reloads /\ ~Updating'
      BY <1>5, <2>2 DEF RevertResumes, Updating
    <3> QED BY <1>0, <3>1 DEF ResolveTypes
  <2> QED BY <2>1, <2>2
<1>6. CASE ReadDone
  <2>1. CASE disk.mtime = resolving.etag \/ ~Unchanged
    BY <1>6, <2>1, EndResolveTypes DEF ReadDone
  <2>2. CASE ~(disk.mtime = resolving.etag \/ ~Unchanged)
    <3>1. /\ resolving' \in Resolves /\ resolving' # None /\ resolving'.ver = versionId
          /\ resolving'.text = disk.text /\ resolving'.by = resolving.by
          /\ UNCHANGED <<reverting, reloads, versionId, disk, onDisk>>
      BY <1>6, <2>2, ReadTaken DEF copyVars, fileVars
    <3>2. disk.text \in onDisk /\ resolving # None
      BY <1>6 DEF ReadDone, TypeOK, FileTypes
    <3> QED BY <1>0, <3>1, <3>2 DEF ResolveTypes
  <2> QED BY <2>1, <2>2
<1>7. CASE UpdateDone \/ ResolveFails
  BY <1>7, EndResolveTypes DEF UpdateDone, ResolveFails, Updating
<1>8. ASSUME NEW soft \in BOOLEAN, Revert(soft) PROVE ResolveTypes'
  <2>1. CASE UNCHANGED <<resolving, reverting>>
    BY <1>1, <1>8, <2>1 DEF Revert
  <2>2. CASE ~UNCHANGED <<resolving, reverting>>
    <3> DEFINE f == [dirty |-> dirty, conflict |-> conflict, errorMode |-> errorMode, saved |-> saved]
    <3>1. /\ reverting' = f /\ reloads' = reloads /\ versionId' = versionId /\ dirty
          /\ IF resolving = None THEN StartRead("revert") ELSE UNCHANGED resolving
      BY <1>8, <2>2 DEF Revert
    <3>2. f \in Flags /\ f.dirty = dirty
      BY DEF Flags, TypeOK, CopyTypes
    <3> HIDE DEF f
    <3>3. reverting' \in Flags /\ reverting' # None /\ reverting'.dirty
      BY <3>1, <3>2, NoneIsNone
    <3>4. CASE resolving = None
      <4>1. /\ resolving' \in Resolves /\ resolving'.ver <= versionId' /\ ~Updating'
            /\ resolving'.by = "revert"
        BY <1>0, <3>1, <3>4, StartReadTypes DEF Updating
      <4> QED BY <1>0, <3>1, <3>3, <4>1 DEF ResolveTypes
    <3>5. CASE resolving # None
      BY <1>0, <3>1, <3>3, <3>5 DEF ResolveTypes, Updating
    <3> QED BY <3>4, <3>5
  <2> QED BY <2>1, <2>2
<1> QED BY <1>1, <1>3, <1>4, <1>5, <1>6, <1>7, <1>8, Steps, ResolvesKept DEF Quiet, resolveVars

\* The initial state.
LEMMA InitTypes == Init => TypeOK /\ OneSave
<1> SUFFICES ASSUME Init PROVE TypeOK /\ OneSave
  OBVIOUS
<1>1. CopyTypes
  BY OriginalText DEF Init, CopyTypes
<1>5. FileTypes
  <2>1. disk \in [text : Texts, mtime : Nat] /\ disk.mtime = 0 /\ disk.text = Original
    BY OriginalText DEF Init
  <2>2. onDisk \subseteq Texts /\ Original \in onDisk /\ stat = 0 /\ watch \in BOOLEAN
        /\ checked = None
    BY OriginalText DEF Init
  <2> QED BY <2>1, <2>2 DEF FileTypes
<1>2. SaveTypes /\ OneSave
  BY DEF Init, SaveTypes, OneSave
<1>3. ResolveTypes
  BY DEF Init, ResolveTypes, Updating
<1>4. BoundTypes
  BY WorkingCopyAssumption DEF Init, BoundTypes
<1> QED BY <1>1, <1>2, <1>3, <1>4, <1>5 DEF TypeOK

\* Every step keeps the types and the one save.
LEMMA TypesKept == TypeOK /\ OneSave /\ [Next]_vars => TypeOK' /\ OneSave'
<1> SUFFICES ASSUME TypeOK, OneSave, [Next]_vars PROVE TypeOK' /\ OneSave'
  OBVIOUS
<1>1. CASE Next
  BY <1>1, CopyTypesKept, FileTypesKept, OneSaveKept, ResolveTypesKept, BoundTypesKept DEF TypeOK
<1>2. CASE UNCHANGED vars
  BY <1>2 DEF vars, copyVars, flags, saveVars, resolveVars, fileVars, boundVars, history, TypeOK,
     OneSave, CopyTypes, FileTypes, SaveTypes, ResolveTypes, BoundTypes, Updating
<1> QED BY <1>1, <1>2

\* Every variable of the working copy has its type, whatever is edited, saved,
\* reloaded, reverted or fails.
THEOREM TypeCorrect == Spec => []TypeOK
<1>1. Spec => [](TypeOK /\ OneSave)
  BY InitTypes, TypesKept, PTL DEF Spec
<1> QED BY <1>1, PTL

\* "Never ever must 2 saves execute at the same time" (doSave), forced saves
\* included: the sequentializer holds the one save there is.
THEOREM OneWriteAlways == Spec => []OneWriteAtATime
<1>1. OneSave => OneWriteAtATime
  BY DEF OneSave, OneWriteAtATime
<1>2. Spec => [](TypeOK /\ OneSave)
  BY InitTypes, TypesKept, PTL DEF Spec
<1> QED BY <1>1, <1>2, PTL
-----------------------------------------------------------------------------
(* The text, the saved version and the file.                                 *)

\* No text stands for an edit that is still to come.
Old(t) == t[1] = "edit" => t[2] <= edits

Fresh ==
    /\ Old(text) /\ Old(saved) /\ Old(disk.text)
    /\ Updating => Old(resolving.text)
    /\ reverting # None => Old(reverting.saved)
    /\ \A s \in saves : Old(s.base)

\* What is being written is a text the copy has had: the one of now, when the save
\* is of the version of now.
SaveText(s) == InFlight(s) => s.base \in seen /\ (s.task = versionId => s.base = text)

\* A write that was compared with the file of now knows it; one that is done was in it.
SaveFile(s) ==
    /\ s.phase = "writing" /\ s.kind # "overwrite" /\ checked = disk.mtime
          => s.mtime >= disk.mtime \/ s.base = disk.text
    /\ s.phase = "written" => s.base \in onDisk

SaveInv == \A s \in saves : SaveText(s) /\ SaveFile(s)

\* A resolve that has not been overtaken runs alone on a clean copy, and has the text
\* that belongs to the stat it took over.
ReadInv ==
    /\ Updating \/ (resolving # None /\ resolving.ver = versionId) => ~dirty /\ saves = {}
    /\ Updating /\ stat = disk.mtime => resolving.text = disk.text

\* A clean copy has its saved version, but for an edit that was not tracked, and the
\* saved version is what was last read or written, unless it has fallen behind; that
\* text was seen, was on disk, and is the one of the stat, unless that misleads.
CopyInv ==
    /\ ~dirty /\ ~Updating => text = saved \/ (behind /\ saves = {})
    /\ Updating /\ resolving.ver = versionId => text = saved \/ behind
    /\ ~behind => saved = synced
    /\ stat = disk.mtime /\ ~misled /\ ~Updating => synced = disk.text
    /\ text \in seen /\ synced \in seen /\ synced \in onDisk

Types == TypeOK /\ OneSave
Inv == Types /\ Fresh /\ SaveInv /\ ReadInv /\ CopyInv

\* Forced saves ignore whether the copy is dirty, and are left out.
Unforced == "force" \notin Kinds

\* Initially the copy shows the file and nothing runs.
LEMMA InitInv == Init => Inv
<1> SUFFICES ASSUME Init PROVE Inv
  OBVIOUS
<1>1. Types
  BY InitTypes DEF Types
<1>2. disk.text = Original /\ ~Updating /\ saves = {} /\ Original[1] = "ext"
  BY DEF Init, Updating, Original
<1>3. Fresh
  BY <1>2 DEF Init, Fresh, Old
<1>4. SaveInv /\ ReadInv /\ CopyInv
  BY <1>2 DEF Init, SaveInv, ReadInv, CopyInv
<1> QED BY <1>1, <1>3, <1>4 DEF Inv

\* A change of the file makes its stat newer than the one the copy has.
LEMMA FileNewer ==
  ASSUME TypeOK, NEW t, ChangeFile(t), stat' = stat
  PROVE  stat' # disk'.mtime /\ disk'.text = t /\ onDisk' = onDisk \cup {t}
<1>1. stat \in Nat /\ disk.mtime \in Nat /\ stat <= disk.mtime
  BY DEF TypeOK, FileTypes
<1> QED BY <1>1 DEF ChangeFile

\* ... and newer than any stat a save was compared with.
LEMMA CheckOlder ==
  ASSUME TypeOK, NEW t, ChangeFile(t)
  PROVE  checked # disk'.mtime
<1>1. disk.mtime \in Nat /\ checked \in (0..disk.mtime) \cup {None} /\ disk'.mtime = disk.mtime + 1
  BY DEF TypeOK, FileTypes, ChangeFile
<1>2. disk'.mtime # None
  BY <1>1, WorkingCopyAssumption
<1> QED BY <1>1, <1>2

\* An edit, an undo or an update gives a version no save and no resolve is of.
LEMMA VersionNewer ==
  ASSUME TypeOK, versionId' = versionId + 1
  PROVE  /\ \A s \in saves : s.task # versionId'
         /\ resolving # None => resolving.ver # versionId'
<1>1. versionId \in Nat /\ resolving \in Resolves \cup {None} /\ saves \subseteq SaveRecord
  BY DEF TypeOK, CopyTypes, ResolveTypes, SaveTypes
<1>2. ASSUME NEW s \in saves PROVE s.task # versionId'
  <2>1. s.task \in Nat /\ s.task <= versionId
    BY <1>1 DEF TypeOK, SaveTypes, SaveRecord
  <2> QED BY <1>1, <2>1
<1>3. ASSUME resolving # None PROVE resolving.ver # versionId'
  <2>1. resolving.ver \in Nat /\ resolving.ver <= versionId
    BY <1>1, <1>3 DEF TypeOK, ResolveTypes, Resolves
  <2> QED BY <1>1, <2>1
<1> QED BY <1>2, <1>3

\* The next edit is a text nobody has.
LEMMA NewEdit ==
  ASSUME TypeOK, Fresh
  PROVE  <<"edit", edits + 1>> # saved
<1>1. edits \in Nat /\ saved \in Texts /\ Old(saved)
  BY DEF TypeOK, BoundTypes, CopyTypes, Fresh
<1>2. saved[2] \in Nat
  BY <1>1 DEF Texts
<1> QED BY <1>1, <1>2 DEF Old

\* While there is a save no resolve is up to date.
LEMMA SaveStopsReads ==
  ASSUME ReadInv, saves # {} \/ dirty
  PROVE  ~Updating /\ ~(resolving # None /\ resolving.ver = versionId)
BY DEF ReadInv

\* A step of the save alone disturbs neither the copy nor a resolve.
LEMMA CopyStands ==
  ASSUME ReadInv, CopyInv, saves # {} \/ dirty, dirty \in BOOLEAN, dirty' \in {dirty, TRUE},
         UNCHANGED <<text, versionId, saved, behind, seen, stat, resolving, reverting, disk,
                     onDisk, synced, misled>>
  PROVE  ReadInv' /\ CopyInv'
<1>1. Updating' = Updating /\ (dirty => dirty')
  BY DEF Updating
<1>2. ReadInv'
  BY <1>1, SaveStopsReads DEF ReadInv
<1>3. CopyInv'
  BY <1>1, SaveStopsReads DEF CopyInv
<1> QED BY <1>2, <1>3

\* A save that has only changed its phase, or its token.
LEMMA SaveStands ==
  ASSUME SaveInv, NEW s \in saves, NEW t, saves' = {t}, t.base = s.base, t.task = s.task,
         InFlight(t) => InFlight(s), t.phase \notin {"writing", "written"},
         UNCHANGED <<text, versionId, seen>>
  PROVE  SaveInv'
<1>1. SaveText(s)
  BY DEF SaveInv
<1>2. SaveText(t)'
  BY <1>1 DEF SaveText, InFlight
<1>3. SaveFile(t)'
  BY DEF SaveFile
<1> QED BY <1>2, <1>3 DEF SaveInv

\* A save of the newest version that has just begun.
LEMMA SaveBegins ==
  ASSUME CopyInv, NEW t, saves' = {t}, t.base = text, t.task = versionId,
         t.phase \in {"delayed", "participants", "snapshot"},
         UNCHANGED <<text, versionId, seen>>
  PROVE  SaveInv'
<1>1. SaveText(t)'
  BY DEF SaveText, CopyInv
<1>2. SaveFile(t)'
  BY DEF SaveFile
<1> QED BY <1>1, <1>2 DEF SaveInv

\* What the copy and the file keep while a save goes on.
Stands == UNCHANGED <<text, versionId, saved, behind, seen, stat, resolving, reverting, disk,
                      onDisk, synced, misled>>

\* A save that is asked for, or whose token is cancelled.
LEMMA SaveKeepsInv ==
  ASSUME Inv, Unforced, NEW kind \in Kinds, Save(kind)
  PROVE  SaveInv' /\ ReadInv' /\ CopyInv'
<1>0. /\ TypeOK /\ OneSave /\ SaveInv /\ ReadInv /\ CopyInv
      /\ Stands /\ dirty' = dirty /\ checked' = checked /\ dirty \in BOOLEAN /\ kind # "force"
  BY DEF Inv, Types, Save, resolveVars, fileVars, history, Stands, Unforced, TypeOK, CopyTypes
<1>1. CASE Kept
  <2>1. UNCHANGED <<saves, dirty, Updating>>
    BY <1>0, <1>1 DEF Kept, Stands, Updating
  <2>2. SaveInv'
    BY <1>0, <2>1 DEF SaveInv, SaveText, SaveFile, Stands
  <2>3. ReadInv' /\ CopyInv'
    BY <1>0, <2>1 DEF ReadInv, CopyInv, Stands
  <2> QED BY <2>2, <2>3
<1>2. ASSUME NEW s \in saves, Becomes(CancelToken(s)) PROVE SaveInv' /\ ReadInv' /\ CopyInv'
  <2>1. ReadInv' /\ CopyInv'
    BY <1>0, CopyStands DEF Stands
  <2> DEFINE t == CancelToken(s)
  <2>2. saves' = {t} /\ t.base = s.base /\ t.task = s.task /\ t.phase = s.phase
        /\ t.kind = s.kind /\ t.mtime = s.mtime
    BY <1>0, <1>2, TheSave, CancelFields DEF Becomes
  <2> HIDE DEF t
  <2>3. SaveText(t)' /\ SaveFile(t)'
    <3>1. SaveText(s) /\ SaveFile(s)
      BY <1>0 DEF SaveInv
    <3> QED BY <1>0, <2>2, <3>1 DEF SaveText, SaveFile, InFlight, Stands
  <2> QED BY <2>1, <2>2, <2>3 DEF SaveInv
<1>3. ASSUME ~Kept, ~\E s \in saves : Becomes(CancelToken(s)) PROVE SaveInv' /\ ReadInv' /\ CopyInv'
  <2>1. PICK t \in SaveRecord :
           /\ saves' = {t} /\ t.task = versionId /\ t.base = text
           /\ t.phase \in {"delayed", "participants", "snapshot"}
    BY <1>0, <1>3, SaveCall DEF Becomes
  <2>2. SaveInv'
    BY <1>0, <2>1, SaveBegins DEF Stands
  <2>3. dirty
    BY <1>0, <1>3, <2>1 DEF Save, DoSave, Kept, saveVars
  <2> QED BY <1>0, <2>2, <2>3, CopyStands DEF Stands
<1> QED BY <1>1, <1>2, <1>3

\* A save before its write, and one that ends.
LEMMA SavePhasesKeepInv ==
  ASSUME Inv, Unforced, NEW s \in saves,
         \/ Cancel(s) \/ DelayDone(s) \/ ParticipantsDone(s) \/ SnapshotDone(s) \/ Validate(s)
         \/ Done(s)
  PROVE  SaveInv' /\ ReadInv' /\ CopyInv'
<1>0. /\ TypeOK /\ OneSave /\ SaveInv /\ ReadInv /\ CopyInv /\ s \in SaveRecord
      /\ saves = {s} /\ saves \ {s} = {} /\ saves # {} /\ "ended" \in Phases
      /\ SaveText(s) /\ SaveFile(s) /\ dirty \in BOOLEAN
  BY TheSave DEF Inv, Types, SaveInv, Phases, TypeOK, CopyTypes
<1>1. Stands /\ dirty' \in {dirty, TRUE}
  <2>1. CASE Cancel(s) \/ DelayDone(s) \/ ParticipantsDone(s) \/ SnapshotDone(s) \/ Done(s)
    <3>1. UNCHANGED <<saveUnchanged, fileVars, history>>
      BY <2>1, Zenon DEF Cancel, DelayDone, ParticipantsDone, SnapshotDone, Done
    <3> QED BY <3>1 DEF saveUnchanged, resolveVars, fileVars, history, Stands
  <2>2. CASE Validate(s)
    BY <2>2 DEF Validate, SaveFailed, saveUnchanged, resolveVars, fileVars, Stands
  <2> QED BY <2>1, <2>2
<1>2. ReadInv' /\ CopyInv'
  BY <1>0, <1>1, CopyStands DEF Stands
<1>3. ASSUME NEW p \in Phases, To(s, p), p \notin {"writing", "written"},
             p \in {"snapshot", "validating"} => InFlight(s)
      PROVE  SaveInv'
  <2>1. saves' = {At(s, p)} /\ At(s, p).base = s.base /\ At(s, p).task = s.task /\ At(s, p).phase = p
    BY <1>0, <1>3, AtFields DEF To
  <2> QED BY <1>0, <1>1, <1>3, <2>1, SaveStands DEF Stands, InFlight
<1>4. CASE Cancel(s)
  <2>1. /\ saves' = {CancelToken(s)} /\ s.phase \in {"delayed", "participants", "snapshot"}
        /\ CancelToken(s).base = s.base /\ CancelToken(s).task = s.task
        /\ CancelToken(s).phase = s.phase
    BY <1>0, <1>4, CancelFields DEF Cancel
  <2> QED BY <1>0, <1>1, <1>2, <2>1, SaveStands DEF Stands, InFlight
<1>5. CASE DelayDone(s)
  BY <1>2, <1>3, <1>5 DEF DelayDone, Phases
<1>6. CASE ParticipantsDone(s)
  <2>1. CASE s.cancelled
    BY <1>0, <1>2, <1>3, <1>6, <2>1 DEF ParticipantsDone
  <2>2. CASE ~s.cancelled
    <3>1. saves' = {Snapshotting(s)}
      BY <1>0, <1>6, <2>2 DEF ParticipantsDone
    <3>2. Snapshotting(s).base = text /\ Snapshotting(s).task = versionId /\ Snapshotting(s).phase = "snapshot"
      BY <1>0, SnapshottingFields, NewerStatBounds DEF TypeOK, CopyTypes
    <3> QED BY <1>0, <1>1, <1>2, <3>1, <3>2, SaveBegins DEF Stands
  <2> QED BY <2>1, <2>2
<1>7. CASE SnapshotDone(s)
  <2>1. CASE To(s, "ended")
    BY <1>0, <1>2, <1>3, <2>1
  <2>2. CASE \E t \in {s.base, text} : saves' = (saves \ {s}) \cup {WithSnapshot(s, t)}
    <3>1. PICK t \in {s.base, text} : saves' = {WithSnapshot(s, t)}
      BY <1>0, <2>2
    <3> DEFINE n == WithSnapshot(s, t)
    <3>2. n.base = t /\ n.task = s.task /\ n.phase = "validating" /\ t \in Texts
      <4>1. t \in Texts
        BY <1>0 DEF TypeOK, CopyTypes, SaveRecord
      <4> QED BY <1>0, <4>1, WithSnapshotFields
    <3> HIDE DEF n
    <3>3. InFlight(s) /\ text \in seen
      BY <1>0, <1>7 DEF SnapshotDone, InFlight, CopyInv
    <3>4. SaveText(n)'
      BY <1>0, <1>1, <3>2, <3>3 DEF SaveText, Stands
    <3>5. SaveFile(n)'
      BY <3>2 DEF SaveFile
    <3> QED BY <1>2, <3>1, <3>4, <3>5 DEF SaveInv, n
  <2> QED BY <1>7, <2>1, <2>2 DEF SnapshotDone
<1>8. CASE Validate(s)
  <2>1. CASE To(s, "ended")
    BY <1>0, <1>2, <1>3, <2>1
  <2>2. CASE To(s, "writing") /\ (checked' = disk.mtime => ~ModifiedSince(s))
    <3> DEFINE n == At(s, "writing")
    <3>1. saves' = {n} /\ n.base = s.base /\ n.task = s.task /\ n.phase = "writing" /\ n.kind = s.kind
          /\ n.mtime = s.mtime
      BY <1>0, <2>2, AtFields DEF To, Phases
    <3> HIDE DEF n
    <3>2. InFlight(s)
      BY <1>8 DEF Validate, InFlight
    <3>3. SaveText(n)'
      BY <1>0, <1>1, <3>1, <3>2 DEF SaveText, Stands
    <3>4. s.kind # "overwrite" /\ checked' = disk.mtime => s.mtime >= disk.mtime \/ s.base = disk.text
      <4>1. s.mtime \in Nat /\ disk.mtime \in Nat
        BY <1>0, NewerStatBounds DEF SaveRecord
      <4> QED BY <2>2, <4>1 DEF ModifiedSince
    <3>5. SaveFile(n)'
      BY <1>1, <3>1, <3>4 DEF SaveFile, Stands
    <3> QED BY <1>2, <3>1, <3>3, <3>5 DEF SaveInv
  <2>3. checked' = None => checked' # disk.mtime
    BY <1>0, NewerStatBounds, WorkingCopyAssumption
  <2> QED BY <1>8, <2>1, <2>2, <2>3 DEF Validate, SaveFailed
<1>9. CASE Done(s)
  <2>1. CASE IsRunning(s) /\ QueuedRuns
    <3>1. queued \in Kinds /\ StartSave(queued, {}) /\ calls' = calls
      BY <1>0, <1>9, <2>1 DEF Done, QueuedRuns, saveUnchanged, TypeOK, SaveTypes
    <3>2. calls' \in 1..MaxSaves
      <4>1. s.id \in Nat /\ s.id >= 1 /\ s.id <= calls /\ calls \in 0..MaxSaves
        BY <1>0, StillOK DEF TypeOK, BoundTypes
      <4> QED BY <3>1, <4>1, WorkingCopyAssumption
    <3>3. PICK t \in SaveRecord :
             /\ saves' = {t} /\ t.task = versionId /\ t.base = text
             /\ t.phase \in {"delayed", "participants", "snapshot"}
      BY <1>0, <3>1, <3>2, StartBecomes DEF Becomes
    <3> QED BY <1>0, <1>1, <1>2, <3>3, SaveBegins DEF Stands
  <2>2. CASE ~(IsRunning(s) /\ QueuedRuns)
    BY <1>0, <1>2, <1>9, <2>2 DEF Done, SaveInv
  <2> QED BY <2>1, <2>2
<1> QED BY <1>4, <1>5, <1>6, <1>7, <1>8, <1>9

\* The write itself: the file has the text of the save.
LEMMA WriteKeepsInv ==
  ASSUME Inv, NEW s \in saves, Write(s)
  PROVE  SaveInv' /\ ReadInv' /\ CopyInv'
<1> DEFINE n == At(s, "written")
<1>0. /\ TypeOK /\ OneSave /\ ReadInv /\ CopyInv /\ s \in SaveRecord /\ saves = {s}
      /\ saves \ {s} = {} /\ saves # {} /\ "written" \in Phases /\ SaveText(s)
  BY TheSave DEF Inv, Types, SaveInv, Phases
<1>1. /\ saves' = {n} /\ n.base = s.base /\ n.task = s.task /\ n.phase = "written"
  BY <1>0, AtFields DEF Write, To
<1> HIDE DEF n
<1>2. /\ s.phase = "writing" /\ ChangeFile(s.base)
      /\ UNCHANGED <<text, versionId, saved, behind, seen, stat, resolving, reverting, dirty,
                    synced, misled>>
  BY DEF Write, saveUnchanged, resolveVars, history
<1>3. disk'.text = s.base /\ s.base \in onDisk' /\ InFlight(s)
  BY <1>0, <1>2, FileNewer DEF InFlight
<1>4. SaveText(n)' /\ SaveFile(n)'
  BY <1>0, <1>1, <1>2, <1>3 DEF SaveText, SaveFile
<1>5. ~Updating /\ ~(resolving # None /\ resolving.ver = versionId)
  BY <1>0, SaveStopsReads
<1>6. stat' # disk'.mtime /\ onDisk \subseteq onDisk' /\ ~Updating'
  BY <1>0, <1>2, <1>5, FileNewer DEF Updating
<1>7. ReadInv' /\ CopyInv'
  BY <1>0, <1>2, <1>3, <1>5, <1>6 DEF ReadInv, CopyInv
<1> QED BY <1>1, <1>4, <1>7 DEF SaveInv

\* A write that fails leaves a dirty copy, and maybe a torn file.
LEMMA WriteFailsKeepsInv ==
  ASSUME Inv, NEW s \in saves, WriteFails(s)
  PROVE  SaveInv' /\ ReadInv' /\ CopyInv'
<1> DEFINE n == At(s, "ended")
<1>0. /\ TypeOK /\ OneSave /\ SaveInv /\ ReadInv /\ CopyInv /\ s \in SaveRecord /\ saves = {s}
      /\ saves \ {s} = {} /\ "ended" \in Phases /\ saves # {} /\ dirty \in BOOLEAN
  BY TheSave DEF Inv, Types, Phases, TypeOK, CopyTypes
<1>1. /\ saves' = {n} /\ n.base = s.base /\ n.task = s.task /\ n.phase = "ended"
  BY <1>0, AtFields DEF WriteFails, SaveFailed, To
<1> HIDE DEF n
<1>2. /\ dirty' = TRUE
      /\ UNCHANGED <<text, versionId, saved, behind, seen, stat, resolving, reverting, synced,
                    misled>>
      /\ UNCHANGED <<disk, onDisk>> \/ ChangeFile(<<"torn", failures + 1>>)
  BY DEF WriteFails, SaveFailed, resolveVars, fileVars, history
<1>3. SaveInv'
  BY <1>0, <1>1, <1>2, SaveStands DEF InFlight
<1>4. ~Updating /\ ~(resolving # None /\ resolving.ver = versionId)
  BY <1>0, SaveStopsReads
<1>5. ReadInv' /\ CopyInv'
  <2>1. CASE UNCHANGED <<disk, onDisk>>
    BY <1>0, <1>2, <2>1, CopyStands
  <2>2. CASE ChangeFile(<<"torn", failures + 1>>)
    <3>1. stat' # disk'.mtime /\ onDisk \subseteq onDisk' /\ ~Updating'
      BY <1>0, <1>2, <1>4, <2>2, FileNewer DEF Updating
    <3> QED BY <1>0, <1>2, <1>4, <3>1 DEF ReadInv, CopyInv
  <2> QED BY <1>2, <2>1, <2>2
<1> QED BY <1>3, <1>5

\* The answer of the file service: the copy is clean unless it changed meanwhile.
LEMMA StatDoneKeepsInv ==
  ASSUME Inv, NEW s \in saves, StatDone(s)
  PROVE  SaveInv' /\ ReadInv' /\ CopyInv'
<1> DEFINE n == At(s, "ended")
<1>0. /\ TypeOK /\ OneSave /\ SaveInv /\ ReadInv /\ CopyInv /\ s \in SaveRecord /\ saves = {s}
      /\ saves \ {s} = {} /\ "ended" \in Phases /\ saves # {} /\ SaveText(s) /\ SaveFile(s)
  BY TheSave DEF Inv, Types, SaveInv, Phases
<1>1. saves' = {n} /\ n.phase = "ended"
  BY <1>0, AtFields DEF StatDone, To
<1> HIDE DEF n
<1>2. /\ s.phase = "written" /\ stat' = disk.mtime
      /\ synced' = s.base /\ (~misled' => disk.text = s.base)
      /\ UNCHANGED <<text, versionId, seen, resolving, reverting, disk, onDisk>>
  BY <1>0, NewerStatBounds DEF StatDone, resolveVars, fileVars
<1>3. ~Updating /\ ~(resolving # None /\ resolving.ver = versionId) /\ ~Updating'
  BY <1>0, <1>2, SaveStopsReads DEF Updating
<1>4. s.base \in seen /\ s.base \in onDisk /\ (s.task = versionId => s.base = text)
  BY <1>0, <1>2 DEF SaveText, SaveFile, InFlight
<1>5. SaveInv'
  BY <1>1 DEF SaveInv, SaveText, SaveFile, InFlight
<1>6. ReadInv'
  BY <1>0, <1>2, <1>3 DEF ReadInv
<1>7. CASE StillSameVersion(s)
  <2>1. dirty' = FALSE /\ saved' = text /\ behind' = FALSE /\ s.task = versionId
    BY <1>7 DEF StatDone, SetClean, StillSameVersion
  <2>2. CopyInv'
    BY <1>0, <1>2, <1>3, <1>4, <2>1 DEF CopyInv
  <2> QED BY <1>5, <1>6, <2>2
<1>8. CASE ~StillSameVersion(s)
  <2>1. (~behind' => saved = s.base) /\ dirty' = dirty /\ saved' = saved
    BY <1>8 DEF StatDone
  <2>3. ~dirty => text = saved
    BY <1>0, <1>3 DEF CopyInv
  <2>2. CopyInv'
    BY <1>0, <1>2, <1>3, <1>4, <2>1, <2>3 DEF CopyInv
  <2> QED BY <1>5, <1>6, <2>2
<1> QED BY <1>7, <1>8

\* A change of the text changes nothing of what is being written.
LEMMA TextChangeKeepsSaves ==
  ASSUME SaveInv, \A s \in saves : s.task # versionId', seen \subseteq seen',
         UNCHANGED <<saves, disk, onDisk, checked>>
  PROVE  SaveInv'
<1> SUFFICES ASSUME NEW s \in saves PROVE SaveText(s)' /\ SaveFile(s)'
  BY DEF SaveInv
<1>1. SaveText(s) /\ SaveFile(s)
  BY DEF SaveInv
<1>2. SaveText(s)'
  BY <1>1 DEF SaveText
<1>3. SaveFile(s)'
  BY <1>1 DEF SaveFile
<1> QED BY <1>2, <1>3

\* An edit makes the copy dirty, unless an update is under way.
LEMMA EditKeepsInv ==
  ASSUME Inv, Edit
  PROVE  SaveInv' /\ ReadInv' /\ CopyInv'
<1> DEFINE n == <<"edit", edits + 1>>
<1>0. /\ TypeOK /\ OneSave /\ SaveInv /\ ReadInv /\ CopyInv /\ Fresh
  BY DEF Inv, Types
<1>1. n # saved
  BY <1>0, NewEdit
<1> HIDE DEF n
<1>2. /\ text' = n /\ seen' = seen \cup {n} /\ versionId' = versionId + 1
      /\ UNCHANGED <<saves, resolving, reverting, stat, disk, onDisk, saved, behind, synced, misled,
                    checked>>
      /\ IF Updating THEN dirty' = dirty ELSE dirty' = TRUE
  BY <1>1 DEF Edit, ContentChanged, flags, saveVars, resolveVars, fileVars, history, n
<1>3. /\ \A s \in saves : s.task # versionId'
      /\ resolving # None => resolving.ver # versionId'
      /\ Updating' = Updating
  BY <1>0, <1>2, VersionNewer DEF Updating
<1>4. SaveInv'
  BY <1>0, <1>2, <1>3, TextChangeKeepsSaves
<1>5. ReadInv'
  BY <1>0, <1>2, <1>3 DEF ReadInv
<1>6. CopyInv'
  <2>1. CASE Updating
    BY <1>0, <1>2, <1>3, <2>1 DEF CopyInv, Updating
  <2>2. CASE ~Updating
    BY <1>0, <1>2, <1>3, <2>2 DEF CopyInv
  <2> QED BY <2>1, <2>2
<1> QED BY <1>4, <1>5, <1>6

\* Undoing to the saved version makes the copy clean.
LEMMA UndoKeepsInv ==
  ASSUME Inv, Undo
  PROVE  SaveInv' /\ ReadInv' /\ CopyInv'
<1>0. /\ TypeOK /\ OneSave /\ SaveInv /\ ReadInv /\ CopyInv
  BY DEF Inv, Types
<1>2. /\ text' = saved /\ seen' = seen \cup {saved} /\ versionId' = versionId + 1
      /\ UNCHANGED <<saves, resolving, reverting, stat, disk, onDisk, saved, behind, synced, misled,
                    checked>>
      /\ IF Updating THEN dirty' = dirty ELSE dirty' = FALSE
  BY DEF Undo, ContentChanged, SetClean, flags, saveVars, resolveVars, fileVars, history
<1>3. /\ \A s \in saves : s.task # versionId'
      /\ resolving # None => resolving.ver # versionId'
      /\ Updating' = Updating
  BY <1>0, <1>2, VersionNewer DEF Updating
<1>4. SaveInv'
  BY <1>0, <1>2, <1>3, TextChangeKeepsSaves
<1>5. ReadInv'
  BY <1>0, <1>2, <1>3 DEF ReadInv
<1>6. CopyInv'
  <2>1. CASE Updating
    BY <1>0, <1>2, <1>3, <2>1 DEF CopyInv
  <2>2. CASE ~Updating
    BY <1>0, <1>2, <1>3, <2>2 DEF CopyInv
  <2> QED BY <2>1, <2>2
<1> QED BY <1>4, <1>5, <1>6

\* Another program changes the file: its stat is newer than any a save compared.
LEMMA ExternalKeepsInv ==
  ASSUME Inv, External
  PROVE  SaveInv' /\ ReadInv' /\ CopyInv'
<1>0. /\ TypeOK /\ SaveInv /\ ReadInv /\ CopyInv
  BY DEF Inv, Types
<1>2. /\ ChangeFile(<<"ext", externals + 1>>)
      /\ UNCHANGED <<text, seen, versionId, saved, dirty, behind, saves, resolving, reverting, stat,
                    synced, misled, checked>>
  BY DEF External, copyVars, flags, saveVars, resolveVars, history
<1>3. /\ stat' # disk'.mtime /\ onDisk \subseteq onDisk' /\ Updating' = Updating
      /\ checked' # disk'.mtime
  BY <1>0, <1>2, FileNewer, CheckOlder DEF Updating
<1>4. SaveInv'
  <2> SUFFICES ASSUME NEW s \in saves PROVE SaveText(s)' /\ SaveFile(s)'
    BY <1>2 DEF SaveInv
  <2>1. SaveText(s) /\ SaveFile(s)
    BY <1>0 DEF SaveInv
  <2>2. SaveText(s)'
    BY <1>2, <2>1 DEF SaveText
  <2>3. SaveFile(s)'
    BY <1>2, <1>3, <2>1 DEF SaveFile
  <2> QED BY <2>2, <2>3
<1>5. ReadInv'
  BY <1>0, <1>2, <1>3 DEF ReadInv
<1>6. CopyInv'
  BY <1>0, <1>2, <1>3 DEF CopyInv
<1> QED BY <1>4, <1>5, <1>6

\* A revert clears the flags of a text that the saved version then names.
LEMMA RevertKeepsInv ==
  ASSUME Inv, NEW soft \in BOOLEAN, Revert(soft)
  PROVE  SaveInv' /\ ReadInv' /\ CopyInv'
<1>0. /\ TypeOK /\ OneSave /\ SaveInv /\ ReadInv /\ CopyInv
  BY DEF Inv, Types
<1>2. /\ dirty /\ dirty' = FALSE /\ saved' = text /\ (~behind' => text = synced)
      /\ UNCHANGED <<text, seen, versionId, saves, stat, disk, onDisk, synced, misled, checked>>
      /\ \/ resolving' = resolving
         \/ resolving = None /\ running = None /\ StartRead("revert")
  BY DEF Revert, SetClean, saveVars, fileVars, history, MayResolve
<1>3. ~Updating /\ ~Updating' /\ (resolving' # None /\ resolving'.ver = versionId' => saves = {})
  <2>1. CASE resolving' = resolving
    BY <1>0, <1>2, <2>1 DEF ReadInv, Updating
  <2>2. CASE resolving = None /\ running = None /\ StartRead("revert")
    BY <1>0, <2>2, StartReadTypes, TheSave DEF OneSave, Updating
  <2> QED BY <1>2, <2>1, <2>2
<1>4. SaveInv'
  BY <1>0, <1>2 DEF SaveInv, SaveText, SaveFile
<1>5. ReadInv'
  BY <1>0, <1>2, <1>3 DEF ReadInv
<1>6. CopyInv'
  BY <1>0, <1>2, <1>3 DEF CopyInv
<1> QED BY <1>4, <1>5, <1>6

\* An event, or a read that begins, on a copy that is clean and not saved.
LEMMA ReadsBeginKeepInv ==
  ASSUME Inv, FileEvent \/ Reload \/ RevertResumes
  PROVE  SaveInv' /\ ReadInv' /\ CopyInv'
<1>0. /\ TypeOK /\ OneSave /\ SaveInv /\ ReadInv /\ CopyInv
  BY DEF Inv, Types
<1>1. /\ UNCHANGED <<text, seen, versionId, dirty, saved, behind, saves, stat, disk, onDisk, synced,
                    misled, checked>>
      /\ \/ resolving' = resolving
         \/ resolving = None /\ ~dirty /\ running = None
            /\ \E by \in {"reload", "revert"} : StartRead(by)
      /\ reverting' \in {reverting, None}
  BY DEF FileEvent, Reload, RevertResumes, copyVars, flags, saveVars, fileVars, history, MayResolve
<1>2. SaveInv'
  BY <1>0, <1>1 DEF SaveInv, SaveText, SaveFile
<1>3. CASE resolving' = resolving
  BY <1>0, <1>1, <1>2, <1>3 DEF ReadInv, CopyInv, Updating
<1>4. ASSUME resolving = None, ~dirty, running = None, NEW by \in {"reload", "revert"}, StartRead(by)
      PROVE  ReadInv' /\ CopyInv'
  <2>1. ~Updating /\ ~Updating' /\ saves = {}
    BY <1>0, <1>1, <1>4, StartReadTypes, TheSave DEF OneSave, Updating
  <2> QED BY <1>0, <1>1, <1>4, <2>1 DEF ReadInv, CopyInv
<1> QED BY <1>1, <1>2, <1>3, <1>4

\* A read is over: dropped, or taken when the copy has not changed.
LEMMA ReadDoneKeepsInv ==
  ASSUME Inv, ReadDone
  PROVE  SaveInv' /\ ReadInv' /\ CopyInv'
<1>0. /\ TypeOK /\ OneSave /\ SaveInv /\ ReadInv /\ CopyInv
  BY DEF Inv, Types
<1>1. /\ UNCHANGED <<text, seen, versionId, dirty, saved, behind, saves, disk, onDisk, synced, misled,
                    checked>>
      /\ resolving # None /\ ~Updating
  BY DEF ReadDone, copyVars, flags, saveVars, fileVars, history, Updating
<1>2. SaveInv'
  BY <1>0, <1>1 DEF SaveInv, SaveText, SaveFile
<1>3. CASE disk.mtime = resolving.etag \/ ~Unchanged
  <2>1. resolving' = None /\ ~Updating' /\ stat' = stat /\ reverting' \in {reverting, None}
    BY <1>3 DEF ReadDone, EndResolve, Updating
  <2> QED BY <1>0, <1>1, <1>2, <2>1 DEF ReadInv, CopyInv
<1>4. CASE ~(disk.mtime = resolving.etag \/ ~Unchanged)
  <2>1. /\ resolving' # None /\ resolving'.ver = versionId /\ resolving'.text = disk.text
        /\ Updating' /\ reverting' = reverting /\ resolving.ver = versionId
    BY <1>0, <1>4, ReadTaken DEF Unchanged
  <2>2. ~dirty /\ saves = {}
    BY <1>0, <1>1, <2>1 DEF ReadInv
  <2>3. ReadInv'
    BY <1>0, <1>1, <2>1, <2>2 DEF ReadInv
  <2>4. CopyInv'
    BY <1>0, <1>1, <2>1, <2>2 DEF CopyInv
  <2> QED BY <1>2, <2>3, <2>4
<1> QED BY <1>3, <1>4

\* A read or an update fails: the stat misleads when it was taken over already.
LEMMA ResolveFailsKeepsInv ==
  ASSUME Inv, ResolveFails
  PROVE  SaveInv' /\ ReadInv' /\ CopyInv'
<1>0. /\ TypeOK /\ OneSave /\ SaveInv /\ ReadInv /\ CopyInv
  BY DEF Inv, Types
<1>1. /\ UNCHANGED <<text, seen, versionId, saves, disk, onDisk, stat, synced, checked>>
      /\ resolving # None /\ resolving' = None /\ reverting' \in {reverting, None} /\ ~Updating'
      /\ ~misled' => ~misled /\ ~Updating
  BY DEF ResolveFails, EndResolve, saveVars, fileVars, Updating
<1>3. SaveInv'
  BY <1>0, <1>1 DEF SaveInv, SaveText, SaveFile
<1>4. ReadInv'
  BY <1>1 DEF ReadInv
<1>5. CASE resolving.by = "revert"
  <2>1. dirty' /\ (~behind' => saved' = synced)
    BY <1>0, <1>5 DEF ResolveFails, TypeOK, ResolveTypes
  <2>2. CopyInv'
    BY <1>0, <1>1, <2>1 DEF CopyInv
  <2> QED BY <1>3, <1>4, <2>2
<1>6. CASE resolving.by # "revert"
  <2>1. /\ UNCHANGED <<dirty, saved>> /\ (behind => behind')
        /\ ~behind' => ~behind /\ (Updating => text = saved)
    BY <1>6 DEF ResolveFails
  <2>2. Updating => saves = {}
    BY <1>0 DEF ReadInv
  <2>3. CopyInv'
    BY <1>0, <1>1, <2>1, <2>2 DEF CopyInv
  <2> QED BY <1>3, <1>4, <2>3
<1> QED BY <1>5, <1>6

\* The update is over: the copy has the text of the file.
LEMMA UpdateDoneKeepsInv ==
  ASSUME Inv, UpdateDone
  PROVE  SaveInv' /\ ReadInv' /\ CopyInv'
<1>0. /\ TypeOK /\ OneSave /\ ReadInv /\ CopyInv /\ Updating /\ resolving.text \in onDisk
      /\ disk.text \in onDisk
  BY DEF Inv, Types, UpdateDone, TypeOK, ResolveTypes, FileTypes
<1>1. PICK t \in {resolving.text, disk.text} :
         text' = t /\ seen' = seen \cup {t} /\ SetClean(t) /\ synced' = t
  BY DEF UpdateDone
<1>2. /\ UNCHANGED <<saves, disk, onDisk, stat>>
      /\ resolving' = None /\ reverting' \in {reverting, None} /\ ~Updating'
      /\ saved' = t /\ dirty' = FALSE /\ behind' = FALSE /\ saves = {} /\ t \in onDisk
      /\ stat = disk.mtime => t = disk.text
  BY <1>0, <1>1 DEF UpdateDone, EndResolve, saveVars, fileVars, Updating, SetClean, ReadInv
<1>3. SaveInv'
  BY <1>2 DEF SaveInv
<1>4. ReadInv'
  BY <1>2 DEF ReadInv
<1>5. CopyInv'
  BY <1>0, <1>1, <1>2 DEF CopyInv
<1> QED BY <1>3, <1>4, <1>5

\* An old text stays old.
LEMMA OldStays ==
  ASSUME NEW t \in Texts, NEW n \in Nat, NEW m \in Nat, n <= m, t[1] = "edit" => t[2] <= n
  PROVE  t[1] = "edit" => t[2] <= m
<1>1. t[2] \in Nat
  BY DEF Texts
<1> QED BY <1>1

\* Where a text comes from.
Around ==
    {text, saved, disk.text} \cup {s.base : s \in saves}
      \cup (IF Updating THEN {resolving.text} ELSE {})
      \cup (IF reverting # None THEN {reverting.saved} ELSE {})

New(t) == t = <<"edit", edits'>> \/ t[1] # "edit"

\* Every text there is was there before, or is new.
LEMMA TextsMove ==
  ASSUME TypeOK, OneSave, Next
  PROVE  \A t \in Around' : t \in Around \/ New(t)
<1>1. CASE Quiet
  <2>1. CASE Edit
    <3>1. /\ text' = <<"edit", edits'>> /\ saved' \in {saved, text'}
          /\ UNCHANGED <<saves, disk, resolving, reverting>>
      BY <2>1 DEF Edit, ContentChanged, SetClean, flags, saveVars, resolveVars, fileVars
    <3> QED BY <3>1 DEF Around, Updating, New
  <2>2. CASE Undo
    <3>1. text' = saved /\ saved' = saved /\ UNCHANGED <<saves, disk, resolving, reverting>>
      BY <2>2 DEF Undo, ContentChanged, SetClean, flags, saveVars, resolveVars, fileVars
    <3> QED BY <3>1 DEF Around, Updating
  <2>3. CASE External
    <3>1. /\ disk'.text = <<"ext", externals + 1>>
          /\ UNCHANGED <<text, saved, saves, resolving, reverting>>
      BY <2>3 DEF External, ChangeFile, copyVars, flags, saveVars, resolveVars
    <3> QED BY <3>1 DEF Around, Updating, New
  <2>4. CASE ResolveFails
    <3>1. /\ UNCHANGED <<text, saves, disk>> /\ resolving' = None /\ reverting' \in {reverting, None}
          /\ saved' = saved \/ (reverting # None /\ saved' = reverting.saved)
      BY <2>4 DEF ResolveFails, EndResolve, flags, saveVars, fileVars, TypeOK, ResolveTypes
    <3> QED BY <3>1 DEF Around, Updating
  <2>5. ASSUME NEW soft \in BOOLEAN, Revert(soft) PROVE \A t \in Around' : t \in Around \/ New(t)
    <3> DEFINE f == [dirty |-> dirty, conflict |-> conflict, errorMode |-> errorMode, saved |-> saved]
    <3>0. f.saved = saved
      OBVIOUS
    <3>1. /\ UNCHANGED <<text, saves, disk>> /\ saved' = text
          /\ resolving' = resolving \/ (resolving = None /\ StartRead("revert"))
          /\ reverting' = reverting \/ reverting' = f
      BY <2>5, Zenon DEF Revert, SetClean, saveVars, fileVars
    <3> HIDE DEF f
    <3>2. Updating' => Updating /\ resolving' = resolving
      BY <3>1, StartReadTypes DEF Updating
    <3> QED BY <3>0, <3>1, <3>2 DEF Around
  <2>6. CASE FileEvent \/ Reload \/ RevertResumes
    <3>1. /\ UNCHANGED <<text, saved, saves, disk>> /\ reverting' \in {reverting, None}
          /\ resolving' = resolving \/ \E by \in {"reload", "revert"} : StartRead(by)
      BY <2>6 DEF FileEvent, Reload, RevertResumes, copyVars, flags, saveVars, fileVars
    <3>2. Updating' => Updating /\ resolving' = resolving
      BY <3>1, StartReadTypes DEF Updating
    <3> QED BY <3>1, <3>2 DEF Around
  <2>7. CASE ReadDone
    <3>1. /\ UNCHANGED <<text, saved, saves, disk>> /\ reverting' \in {reverting, None}
          /\ Updating' => resolving'.text = disk.text
      <4>1. CASE disk.mtime = resolving.etag \/ ~Unchanged
        BY <2>7, <4>1 DEF ReadDone, EndResolve, Updating, copyVars, flags, saveVars, fileVars
      <4>2. CASE ~(disk.mtime = resolving.etag \/ ~Unchanged)
        BY <2>7, <4>2, ReadTaken DEF copyVars, flags, saveVars, fileVars
      <4> QED BY <4>1, <4>2
    <3> QED BY <3>1 DEF Around
  <2>8. CASE UpdateDone
    <3>1. /\ UNCHANGED <<saves, disk>> /\ reverting' \in {reverting, None} /\ ~Updating' /\ Updating
          /\ text' \in {resolving.text, disk.text} /\ saved' = text'
      BY <2>8 DEF UpdateDone, SetClean, EndResolve, Updating, saveVars, fileVars
    <3> QED BY <3>1 DEF Around
  <2> QED BY <1>1, <2>1, <2>2, <2>3, <2>4, <2>5, <2>6, <2>7, <2>8 DEF Quiet
<1>2. ASSUME UNCHANGED <<text, saved, resolving, reverting>>, disk'.text \in Around \/ New(disk'.text),
             \A s \in saves' : s.base \in Around
      PROVE  \A t \in Around' : t \in Around \/ New(t)
  BY <1>2 DEF Around, Updating
<1>3. ASSUME NEW kind \in Kinds, Save(kind) PROVE \A t \in Around' : t \in Around \/ New(t)
  <2>1. UNCHANGED <<text, saved, resolving, reverting, disk>> /\ disk'.text \in Around /\ text \in Around
    BY <1>3 DEF Save, resolveVars, fileVars, Around
  <2>2. \A s \in saves' : s.base \in Around
    <3>1. CASE Kept
      BY <3>1 DEF Kept, Around
    <3>2. ASSUME NEW s \in saves, Becomes(CancelToken(s)) PROVE \A t \in saves' : t.base \in Around
      BY <3>2, TheSave, CancelFields DEF Becomes, Around
    <3>3. ASSUME NEW t \in SaveRecord, Becomes(t), t.base = text PROVE \A s \in saves' : s.base \in Around
      BY <2>1, <3>3 DEF Becomes
    <3> QED BY <1>3, <3>1, <3>2, <3>3, SaveCall
  <2> QED BY <1>2, <2>1, <2>2
<1>4. ASSUME NEW s \in saves, SaveStep(s) \/ Cancel(s) \/ WriteFails(s)
      PROVE  \A t \in Around' : t \in Around \/ New(t)
  <2>0. /\ s \in SaveRecord /\ saves = {s} /\ saves \ {s} = {} /\ s.base \in Around /\ text \in Around
        /\ disk.text \in Around /\ "ended" \in Phases
    BY TheSave DEF Around, Phases
  <2>1. UNCHANGED <<text, resolving, reverting>> /\ saved' \in {saved, text}
    <3>1. CASE StatDone(s)
      BY <3>1 DEF StatDone, SetClean, resolveVars
    <3>2. CASE Validate(s) \/ WriteFails(s)
      BY <3>2 DEF Validate, WriteFails, SaveFailed, saveUnchanged, resolveVars
    <3>3. CASE DelayDone(s) \/ ParticipantsDone(s) \/ SnapshotDone(s) \/ Write(s) \/ Done(s) \/ Cancel(s)
      <4>1. UNCHANGED saveUnchanged
        BY <3>3, Zenon DEF DelayDone, ParticipantsDone, SnapshotDone, Write, Done, Cancel
      <4> QED BY <4>1 DEF saveUnchanged, resolveVars
    <3> QED BY <1>4, <3>1, <3>2, <3>3 DEF SaveStep
  <2>2. disk'.text \in Around \/ New(disk'.text)
    <3>1. CASE UNCHANGED disk
      BY <2>0, <3>1
    <3>2. CASE ~UNCHANGED disk
      <4>1. ChangeFile(s.base) \/ ChangeFile(<<"torn", failures + 1>>)
        <5>1. CASE Write(s) \/ WriteFails(s)
          BY <3>2, <5>1 DEF Write, WriteFails, fileVars
        <5>2. CASE ~(Write(s) \/ WriteFails(s))
          BY <1>4, <3>2, <5>2 DEF SaveStep, DelayDone, ParticipantsDone, SnapshotDone, Validate, StatDone,
             Done, Cancel, fileVars
        <5> QED BY <5>1, <5>2
      <4> QED BY <2>0, <4>1 DEF ChangeFile, New
    <3> QED BY <3>1, <3>2
  <2>3. \A n \in saves' : n.base \in Around
    <3>1. ASSUME NEW p \in Phases, To(s, p) PROVE \A n \in saves' : n.base \in Around
      BY <2>0, <3>1, AtFields DEF To
    <3>2. CASE DelayDone(s) \/ Validate(s) \/ Write(s) \/ StatDone(s) \/ WriteFails(s)
      BY <3>1, <3>2 DEF DelayDone, Validate, Write, StatDone, WriteFails, SaveFailed, Phases
    <3>3. CASE ParticipantsDone(s)
      BY <2>0, <3>1, <3>3, SnapshottingFields, NewerStatBounds DEF ParticipantsDone, TypeOK, CopyTypes
    <3>4. CASE SnapshotDone(s)
      <4>1. CASE To(s, "ended")
        BY <2>0, <3>1, <4>1
      <4>2. ASSUME NEW t \in {s.base, text}, saves' = (saves \ {s}) \cup {WithSnapshot(s, t)}
            PROVE  \A n \in saves' : n.base \in Around
        <5>1. t \in Texts
          BY <2>0 DEF TypeOK, CopyTypes, SaveRecord
        <5> QED BY <2>0, <4>2, <5>1, WithSnapshotFields
      <4> QED BY <3>4, <4>1, <4>2 DEF SnapshotDone
    <3>5. CASE Cancel(s)
      BY <2>0, <3>5, CancelFields DEF Cancel
    <3>6. CASE Done(s)
      <4>1. CASE IsRunning(s) /\ QueuedRuns
        <5>1. queued \in Kinds /\ StartSave(queued, {}) /\ calls' = calls
          BY <2>0, <3>6, <4>1 DEF Done, QueuedRuns, saveUnchanged, TypeOK, SaveTypes
        <5>2. calls' \in 1..MaxSaves
          <6>1. s.id \in Nat /\ s.id >= 1 /\ s.id <= calls /\ calls \in 0..MaxSaves
            BY StillOK DEF TypeOK, BoundTypes
          <6> QED BY <5>1, <6>1, WorkingCopyAssumption
        <5>3. PICK t \in SaveRecord : saves' = {t} /\ t.base = text
          BY <5>1, <5>2, StartBecomes DEF Becomes
        <5> QED BY <2>0, <5>3
      <4>2. CASE ~(IsRunning(s) /\ QueuedRuns)
        BY <2>0, <3>6, <4>2 DEF Done
      <4> QED BY <4>1, <4>2
    <3> QED BY <1>4, <3>2, <3>3, <3>4, <3>5, <3>6 DEF SaveStep
  <2>4. saved' \in Around
    BY <2>1 DEF Around
  <2> QED BY <2>0, <2>1, <2>2, <2>3, <2>4 DEF Around, Updating
<1> QED BY <1>1, <1>3, <1>4, Steps

\* The texts stay those of edits that were made.
LEMMA FreshKept ==
  ASSUME TypeOK, OneSave, Fresh, TypeOK', Next
  PROVE  Fresh'
<1>1. /\ edits \in Nat /\ edits' \in Nat /\ edits <= edits'
  <2>1. edits \in Nat /\ edits' \in Nat
    BY WorkingCopyAssumption DEF TypeOK, BoundTypes
  <2>2. edits' \in {edits, edits + 1}
    <3>1. CASE Quiet
      BY <3>1 DEF Quiet, Edit, Undo, External, ResolveFails, Revert, FileEvent, Reload, RevertResumes,
         ReadDone, UpdateDone, boundVars
    <3>2. ASSUME NEW kind \in Kinds, Save(kind) PROVE edits' = edits
      BY <3>2 DEF Save
    <3>3. ASSUME NEW s \in saves, SaveStep(s) \/ Cancel(s) \/ WriteFails(s) PROVE edits' = edits
      BY <3>3 DEF SaveStep, DelayDone, ParticipantsDone, SnapshotDone, Validate, Write, StatDone, Done,
         Cancel, WriteFails, SaveFailed, saveUnchanged
    <3> QED BY <3>1, <3>2, <3>3, Steps
  <2> QED BY <2>1, <2>2
<1>2. \A t \in Around : t \in Texts /\ Old(t)
  BY DEF Around, Fresh, TypeOK, CopyTypes, FileTypes, SaveTypes, ResolveTypes, SaveRecord, Flags
<1>3. ASSUME NEW t \in Around' PROVE Old(t)'
  <2>1. CASE t \in Around
    BY <1>1, <1>2, <2>1, OldStays DEF Old
  <2>2. CASE New(t)
    BY <1>1, <2>2 DEF New, Old
  <2> QED BY <2>1, <2>2, TextsMove
<1> QED BY <1>3 DEF Around, Fresh

\* Every step keeps the invariant.
LEMMA InvKept == Unforced /\ Inv /\ [Next]_vars => Inv'
<1> SUFFICES ASSUME Unforced, Inv, [Next]_vars PROVE Inv'
  OBVIOUS
<1>1. CASE Next
  <2>1. Types'
    BY <1>1, TypesKept DEF Inv, Types
  <2>2. Fresh'
    BY <1>1, <2>1, FreshKept DEF Inv, Types
  <2>3. SaveInv' /\ ReadInv' /\ CopyInv'
    <3>1. ASSUME NEW s \in saves, SaveStep(s) \/ Cancel(s) \/ WriteFails(s)
          PROVE  SaveInv' /\ ReadInv' /\ CopyInv'
      BY <3>1, SavePhasesKeepInv, WriteKeepsInv, WriteFailsKeepsInv, StatDoneKeepsInv DEF SaveStep
    <3>2. CASE Quiet
      BY <3>2, EditKeepsInv, UndoKeepsInv, ExternalKeepsInv, RevertKeepsInv, ReadsBeginKeepInv,
         ReadDoneKeepsInv, ResolveFailsKeepsInv, UpdateDoneKeepsInv DEF Quiet
    <3> QED BY <1>1, <3>1, <3>2, Steps, SaveKeepsInv
  <2> QED BY <2>1, <2>2, <2>3 DEF Inv
<1>2. CASE UNCHANGED vars
  <2>1. UNCHANGED <<text, versionId, dirty, saved, behind, seen, stat, saves, resolving, reverting, disk,
                    onDisk, edits, synced, misled, checked>>
    BY <1>2 DEF vars, copyVars, flags, saveVars, resolveVars, fileVars, boundVars, history
  <2>2. Types'
    BY <1>2, TypesKept DEF Inv, Types
  <2>3. Updating' = Updating
    BY <2>1 DEF Updating
  <2>4. Fresh'
    BY <2>1, <2>3 DEF Inv, Fresh, Old
  <2>5. SaveInv'
    BY <2>1, <2>3 DEF Inv, SaveInv, SaveText, SaveFile
  <2>6. ReadInv' /\ CopyInv'
    BY <2>1, <2>3 DEF Inv, ReadInv, CopyInv
  <2> QED BY <2>2, <2>4, <2>5, <2>6 DEF Inv
<1> QED BY <1>1, <1>2

\* Without forced saves the invariant always holds.
LEMMA InvAlways == ASSUME Unforced PROVE Spec => []Inv
BY InitInv, InvKept, PTL DEF Spec

-----------------------------------------------------------------------------
(* What the invariant gives.                                                 *)

\* A clean copy at rest shows the text it last read or wrote, and the file when the
\* stat is the file's, in every order of edits, undos, saves, reloads, reverts and
\* failures (handleSaveSuccess, revert), while the saved version is not behind.
THEOREM CleanAlways == ASSUME Unforced PROVE Spec => []CleanMeansSaved
<1>1. Inv => CleanMeansSaved
  <2> SUFFICES ASSUME Inv, resolving = None, ~dirty, ~behind
               PROVE  text = synced /\ (stat = disk.mtime /\ ~misled => text = disk.text)
    BY DEF CleanMeansSaved
  <2>1. ~Updating /\ CopyInv
    BY DEF Inv, Updating
  <2> QED BY <2>1 DEF CopyInv
<1> QED BY <1>1, InvAlways, PTL

\* Dirty write prevention, end to end (validateWriteFile): a save that compared the
\* file, which is still the same, replaces what the copy has seen, while its stat
\* does not mislead it.
THEOREM NoBlindWrite == ASSUME Unforced PROVE Spec => NoBlindOverwrite
<1>1. Inv /\ [Next]_vars =>
        [\A s \in saves :
          (s.phase = "writing" /\ At(s, "written") \in saves' /\ s.kind # "overwrite"
           /\ checked = disk.mtime /\ ~misled) => disk.text \in seen]_vars
  <2> SUFFICES ASSUME Inv, NEW s \in saves, s.phase = "writing", s.kind # "overwrite",
                      checked = disk.mtime, ~misled
               PROVE  disk.text \in seen
    OBVIOUS
  <2>1. /\ TypeOK /\ OneSave /\ ReadInv /\ CopyInv /\ SaveFile(s) /\ SaveText(s) /\ InFlight(s)
    BY DEF Inv, Types, SaveInv, InFlight
  <2>2. CASE s.base = disk.text
    BY <2>1, <2>2 DEF SaveText
  <2>3. CASE s.base # disk.text
    <3>1. s.mtime >= disk.mtime
      BY <2>1, <2>3 DEF SaveFile
    <3>2. s.mtime \in Nat /\ stat \in Nat /\ disk.mtime \in Nat /\ s.mtime <= stat /\ stat <= disk.mtime
      BY <2>1, StillOK DEF TypeOK, FileTypes
    <3>3. stat = disk.mtime
      BY <3>1, <3>2
    <3>4. ~Updating
      BY <2>1, SaveStopsReads
    <3> QED BY <2>1, <3>3, <3>4 DEF CopyInv
  <2> QED BY <2>2, <2>3
<1> QED BY <1>1, InvAlways, PTL DEF Spec, NoBlindOverwrite

\* A reload takes no edit away that was made while the file was read
\* (resolveFromFile).
THEOREM ReloadsKeepEdits == ASSUME Unforced PROVE Spec => ReloadKeepsEdits
<1>1. Inv /\ [Next]_vars =>
        [(Updating /\ versionId = resolving.ver /\ versionId' # versionId /\ resolving' = None
          /\ ~behind) => text \in onDisk]_vars
  <2> SUFFICES ASSUME Inv, Updating, versionId = resolving.ver, ~behind
               PROVE  text \in onDisk
    OBVIOUS
  <2>1. CopyInv
    BY DEF Inv
  <2> QED BY <2>1 DEF CopyInv
<1> QED BY <1>1, InvAlways, PTL DEF Spec, ReloadKeepsEdits
=============================================================================
