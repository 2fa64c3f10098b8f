------------------------------ MODULE DualWrite ------------------------------
(***************************************************************************)
(* One device's write path: every edit goes to SQLite (the op-log and its  *)
(* projection) and is mirrored into the Automerge camp document, which is  *)
(* saved to a file after a debounce and merged with other devices.         *)
(*                                                                         *)
(*   electron/ops/operations.js          runAtomic, appendOp, bulk replace *)
(*   electron/sync/automerge/liveDoc.js  deferred queue, mirror, save      *)
(*   electron/atRestDisableRunner.js     flush, then suspend saves         *)
(*                                                                         *)
(* SQLite can roll back; the document cannot.  A value is the identity of  *)
(* the write that produced it.  A runAtomic body runs synchronously, so    *)
(* nothing but the body itself acts while a frame is open.                 *)
(***************************************************************************)
EXTENDS Integers, Sequences, FiniteSets

CONSTANTS
    Keys,            \* fields (and bulk-replace scopes) a write may touch
    Modeled,         \* those of MODELED_ENTITIES: the document carries them
    Remote,          \* values other devices wrote
    Blank,           \* the value of a field before any write below
    NoDoc, NoSave, NoOp,
    LedgerCanFail,   \* BOOLEAN: a failure record may itself fail to land
    MaxOps, MaxDepth, MaxCrashes    \* bounds

ASSUME KeysAssumption == Modeled \subseteq Keys
ASSUME BoundsAssumption == MaxOps \in Nat /\ MaxDepth \in Nat /\ MaxCrashes \in Nat
ASSUME ValueAssumption ==
    /\ Remote \cap Int = {}
    /\ Blank \notin Int
    /\ Blank \notin Remote
    /\ LedgerCanFail \in BOOLEAN

OpIds == 1..MaxOps
Ops == [id : OpIds, key : Keys]
Values == {Blank} \cup Remote \cup OpIds
Docs == [Modeled -> Values]

ASSUME NullAssumption == NoDoc \notin Docs /\ NoOp \notin Ops
ASSUME NoSaveAssumption == NoSave \notin [local : BOOLEAN, ops : SUBSET OpIds]

\* The ledger entry of a failed save that carried no local write
\* (device_health_events, DOCUMENT_SAVE_FAILED).
SaveEvent == 0

VARIABLES
    sql,        \* SQLite's projected rows, an open transaction included
    oplog,      \* the operations table, an open transaction included
    frames,     \* rollback points of the open runAtomic frames, outermost first
    queue,      \* liveDoc: document writes waiting for the outermost COMMIT
    marks,      \* liveDoc: length of the queue when each frame was opened
    direct,     \* a top-level write committed in SQLite and not yet mirrored
    doc,        \* liveDoc's registry: the document in memory
    file,       \* the document on disk
    pend,       \* pendingSaves: the debounce window, if one is open
    timer,      \* the debounce timer is running
    suspended,  \* saves are suspended until the restart
    unsent,     \* a local write in the document was not yet broadcast
    failed,     \* projection_failures (store = 'document') and health events
    stale,      \* the last projection of a merge threw: SQLite kept last-good
    outcome,    \* DOCUMENT_OUTCOME stamped on each op
    nextOp,     \* first op id not yet used
    unrecorded, \* history: failures whose record did not land (console only)
    lost,       \* history: what a crash took from memory before it was saved
    crashes     \* history: restarts so far

sqliteVars == <<sql, oplog, frames>>
deferVars == <<queue, marks, direct>>
saveVars == <<pend, timer, unsent>>
ledgerVars == <<failed, unrecorded>>
vars == <<sqliteVars, deferVars, doc, file, saveVars, suspended, ledgerVars,
          stale, outcome, nextOp, lost, crashes>>

Ids(s) == {s[i].id : i \in DOMAIN s}

\* The part of the op-log that no open frame can still roll back.
CommittedLen == IF frames = <<>> THEN Len(oplog) ELSE frames[1].len
CommittedIds == {oplog[i].id : i \in 1..CommittedLen}

InBody == frames # <<>>
FlushDue == frames = <<>> /\ marks # <<>>
Idle == frames = <<>> /\ marks = <<>> /\ direct = NoOp

Init ==
    /\ sql = [k \in Keys |-> Blank]
    /\ oplog = <<>> /\ frames = <<>>
    /\ queue = <<>> /\ marks = <<>> /\ direct = NoOp
    /\ doc = NoDoc /\ file = NoDoc
    /\ pend = NoSave /\ timer = FALSE /\ suspended = FALSE /\ unsent = FALSE
    /\ failed = {} /\ unrecorded = {} /\ stale = FALSE
    /\ outcome = [i \in OpIds |-> "none"]
    /\ nextOp = 1
    /\ lost = {} /\ crashes = 0

-----------------------------------------------------------------------------
(* runAtomic and appendOp: SQLite's side                                   *)

\* beginDeferredDocWrites, then BEGIN (or SAVEPOINT).
OpenFrame ==
    /\ frames' = Append(frames, [sql |-> sql, len |-> Len(oplog)])
    /\ marks' = Append(marks, Len(queue))

BeginAtomic ==
    /\ ~suspended
    /\ InBody \/ Idle
    /\ Len(frames) < MaxDepth
    /\ OpenFrame
    /\ UNCHANGED <<sql, oplog, queue, direct, doc, file, saveVars, suspended,
                   ledgerVars, stale, outcome, nextOp, lost, crashes>>

\* The op-log row and its projection land together.
InsertOp(k) ==
    /\ nextOp <= MaxOps
    /\ oplog' = Append(oplog, [id |-> nextOp, key |-> k])
    /\ sql' = [sql EXCEPT ![k] = nextOp]
    /\ nextOp' = nextOp + 1

\* Inside a body the document write is queued and the op says so.
AppendInBody(k) ==
    /\ InBody
    /\ InsertOp(k)
    /\ queue' = Append(queue, [id |-> nextOp, key |-> k])
    /\ outcome' = [outcome EXCEPT ![nextOp] =
                      IF k \in Modeled THEN "deferred" ELSE "not-modeled"]
    /\ UNCHANGED <<frames, marks, direct, doc, file, saveVars, suspended,
                   ledgerVars, stale, lost, crashes>>

\* At top level the op commits in a transaction of its own; its document
\* write follows in the same call (MirrorDirect).
AppendTopLevel(k) ==
    /\ ~suspended
    /\ Idle
    /\ InsertOp(k)
    /\ direct' = [id |-> nextOp, key |-> k]
    /\ UNCHANGED <<frames, queue, marks, doc, file, saveVars, suspended,
                   ledgerVars, stale, outcome, lost, crashes>>

\* Mutants: a rollback forgets the queued document writes; or drops them all.
KeepQueue == queue
DropQueue == <<>>

\* discardDeferredDocWrites: back to the length at the frame's opening.
CutQueue == SubSeq(queue, 1, marks[Len(marks)])

\* The innermost frame throws: SQLite rolls back to its savepoint and
\* discardDeferredDocWrites cuts the queue at the frame's mark.
Throw ==
    /\ InBody
    /\ sql' = frames[Len(frames)].sql
    /\ oplog' = SubSeq(oplog, 1, frames[Len(frames)].len)
    /\ queue' = CutQueue
    /\ frames' = SubSeq(frames, 1, Len(frames) - 1)
    /\ marks' = SubSeq(marks, 1, Len(marks) - 1)
    /\ UNCHANGED <<direct, doc, file, saveVars, suspended, ledgerVars, stale,
                   outcome, nextOp, lost, crashes>>

\* An inner frame returns: the savepoint releases, only the depth goes down.
CommitInner ==
    /\ Len(frames) > 1
    /\ frames' = SubSeq(frames, 1, Len(frames) - 1)
    /\ marks' = SubSeq(marks, 1, Len(marks) - 1)
    /\ UNCHANGED <<sql, oplog, queue, direct, doc, file, saveVars, suspended,
                   ledgerVars, stale, outcome, nextOp, lost, crashes>>

\* SQLite's COMMIT of the outermost frame.  The flush is still to come.
CommitOutermost ==
    /\ Len(frames) = 1
    /\ frames' = <<>>
    /\ UNCHANGED <<sql, oplog, deferVars, doc, file, saveVars, suspended,
                   ledgerVars, stale, outcome, nextOp, lost, crashes>>

-----------------------------------------------------------------------------
(* liveDoc: mirroring committed writes into the document                   *)

\* Where the last write of s on k that is not in F stands in s, 0 if none.
LastWrite(s, F, k) ==
    LET hits == {i \in DOMAIN s : s[i].key = k /\ s[i].id \notin F}
        last == {i \in hits : \A j \in hits : j <= i}
    IN  IF last = {} THEN 0 ELSE CHOOSE i \in last : TRUE

\* The document after the writes of s, in order, those of F failing.
Mirror(d, s, F) ==
    [k \in Modeled |-> IF LastWrite(s, F, k) = 0 THEN d[k]
                       ELSE s[LastWrite(s, F, k)].id]

\* Mutant: a cache miss starts from an empty document.
LoadOrEmpty == [k \in Modeled |-> Blank]

\* Mutant: the seed takes every row, not those of the modeled entities.
SeedEverything == IF file # NoDoc THEN file ELSE sql

\* getDoc on a cache miss: the file, or a seed taken from SQLite's rows.
LoadOrSeed == IF file # NoDoc THEN file ELSE [k \in Modeled |-> sql[k]]

Modeling(s) == {s[i].id : i \in {j \in DOMAIN s : s[j].key \in Modeled}}

\* Mutant of ScheduleSave: a merge forgets that the window held a local write.
ScheduleSaveNotSticky(ids, local) ==
    /\ pend' = [local |-> local, ops |-> ids \cup (IF pend = NoSave THEN {} ELSE pend.ops)]
    /\ timer' = TRUE

\* scheduleSave, once per mirrored op: the window remembers the ops and,
\* stickily, that one of them was local.
ScheduleSave(ids, local) ==
    /\ pend' = [local |-> local \/ (pend # NoSave /\ pend.local),
                ops |-> ids \cup (IF pend = NoSave THEN {} ELSE pend.ops)]
    /\ timer' = TRUE

\* Mutant: a contained failure leaves no trace.
RecordNothing(F) == UNCHANGED ledgerVars

\* recordDocumentWriteFailure and recordDeviceHealthEvent never throw; when
\* their own insert fails, a console line is the only trace.
Record(F) ==
    \E R \in SUBSET F :
        /\ LedgerCanFail \/ R = F
        /\ failed' = failed \cup R
        /\ unrecorded' = unrecorded \cup (F \ R)

\* Mirror the committed writes s.  The ones in F fail all three attempts.
\* published is how many of them a batch, failing later, had already put in
\* the registry before the writes were retried one by one.  A document first
\* loaded or seeded here is saved at once with the first n writes: a batch, a
\* single write, or none when a bulk replace comes first.
MirrorAll(s, F, published) ==
    LET done == Modeling(s) \ F
        base == IF doc = NoDoc THEN LoadOrSeed
                ELSE Mirror(doc, SubSeq(s, 1, published), {})
    IN  /\ published > 0 => doc # NoDoc /\ Len(s) > 1
        /\ doc' = IF doc = NoDoc /\ done = {} THEN NoDoc ELSE Mirror(base, s, F)
        /\ IF doc # NoDoc \/ done = {} THEN UNCHANGED file
           ELSE \E n \in 0..Len(s) : file' = Mirror(LoadOrSeed, SubSeq(s, 1, n), F)
        /\ IF done = {} THEN UNCHANGED saveVars
           ELSE ScheduleSave(done, TRUE) /\ unsent' = TRUE
        /\ Record(F)

\* Mutant: only a failure is stamped.
StampFailures(F) == [i \in OpIds |-> IF i \in F THEN "failed" ELSE outcome[i]]

\* The flush replaces 'deferred' on every op it carried, modeled or not.
Stamped(F) ==
    [i \in OpIds |-> IF i \in F THEN "failed"
                     ELSE IF i \in Ids(queue) THEN "applied"
                     ELSE outcome[i]]

\* commitDeferredDocWrites at the outermost boundary.  It never throws, and
\* stamps every queued op with what happened to it.
FlushQueue ==
    /\ FlushDue
    /\ \E F \in SUBSET Modeling(queue), published \in 0..Len(queue) :
          /\ MirrorAll(queue, F, published)
          /\ outcome' = Stamped(F)
    /\ queue' = <<>> /\ marks' = <<>>
    /\ UNCHANGED <<sqliteVars, direct, suspended, stale, nextOp, lost, crashes>>

\* Mutant: the mirror waits for a document somebody else has to load.
DirectDueLoaded == direct # NoOp /\ doc # NoDoc

\* A top-level write is waiting for its document half.
DirectDue == direct # NoOp

\* recordLocalWrite outside any boundary; appendOp contains its throw.
MirrorDirect ==
    /\ DirectDue
    /\ \E F \in SUBSET Modeling(<<direct>>) :
          /\ MirrorAll(<<direct>>, F, 0)
          /\ outcome' = [outcome EXCEPT ![direct.id] =
                            IF direct.key \notin Modeled THEN "not-modeled"
                            ELSE IF F = {} THEN "applied" ELSE "failed"]
    /\ direct' = NoOp
    /\ UNCHANGED <<sqliteVars, queue, marks, suspended, stale, nextOp, lost, crashes>>

\* ensureSeeded, at startup: load the file, or seed from SQLite and save.
EnsureSeeded ==
    /\ Idle /\ ~suspended
    /\ doc = NoDoc
    /\ doc' = LoadOrSeed
    /\ file' = LoadOrSeed
    /\ UNCHANGED <<sqliteVars, deferVars, saveVars, suspended, ledgerVars,
                   stale, outcome, nextOp, lost, crashes>>

\* Mutant: a failed save keeps its window open, and nothing re-arms it.
SaveWindowKept ==
    /\ timer' = FALSE
    /\ \/ /\ pend' = NoSave
          /\ file' = IF pend = NoSave \/ doc = NoDoc THEN file ELSE doc
          /\ unsent' = (unsent /\ ~(pend # NoSave /\ pend.local))
          /\ UNCHANGED ledgerVars
       \/ /\ pend # NoSave
          /\ UNCHANGED <<pend, file, unsent, ledgerVars>>

\* flushPendingWrites: save the document, then broadcast it if the window
\* held a local write.  A failed save is recorded and ends the window too.
SaveWindow ==
    /\ timer' = FALSE
    /\ pend' = NoSave
    /\ \/ /\ pend = NoSave \/ doc = NoDoc
          /\ UNCHANGED <<file, unsent, ledgerVars>>
       \/ /\ pend # NoSave /\ doc # NoDoc
          /\ file' = doc
          /\ unsent' = (unsent /\ ~pend.local)
          /\ UNCHANGED ledgerVars
       \/ /\ pend # NoSave /\ doc # NoDoc
          /\ Record(pend.ops \cup {SaveEvent})
          /\ UNCHANGED <<file, unsent>>

\* The debounce timer fires.
TimerFires ==
    /\ timer /\ Idle /\ ~suspended
    /\ SaveWindow
    /\ UNCHANGED <<sqliteVars, deferVars, doc, suspended, stale, outcome,
                   nextOp, lost, crashes>>

\* The T345 runner, after sync has stopped: flush, then suspend every later
\* save, then close the database, with no await in between.
FlushAndSuspend ==
    /\ Idle /\ ~suspended
    /\ SaveWindow
    /\ suspended' = TRUE
    /\ UNCHANGED <<sqliteVars, deferVars, doc, stale, outcome, nextOp, lost, crashes>>

\* syncNode merges a peer's document: on the keys of S the remote write wins.
\* The merge is published, its save scheduled, and the result projected; a
\* projection that throws leaves SQLite at its last good state.
RemoteMerge(r, S) ==
    /\ Idle /\ ~suspended
    /\ doc # NoDoc
    /\ doc' = [k \in Modeled |-> IF k \in S THEN r ELSE doc[k]]
    /\ ScheduleSave({}, FALSE)
    /\ \/ /\ sql' = [k \in Keys |-> IF k \in Modeled THEN doc'[k] ELSE sql[k]]
          /\ stale' = FALSE
       \/ /\ stale' = TRUE
          /\ UNCHANGED sql
    /\ UNCHANGED <<oplog, frames, deferVars, file, unsent, suspended, ledgerVars,
                   outcome, nextOp, lost, crashes>>

\* The process dies, or relaunches.  SQLite rolls an open transaction back;
\* everything in memory is gone, and startup projects nothing.
Restart ==
    /\ crashes < MaxCrashes
    /\ crashes' = crashes + 1
    /\ sql' = IF InBody THEN frames[1].sql ELSE sql
    /\ oplog' = SubSeq(oplog, 1, CommittedLen)
    /\ frames' = <<>> /\ queue' = <<>> /\ marks' = <<>> /\ direct' = NoOp
    /\ doc' = NoDoc
    /\ pend' = NoSave /\ timer' = FALSE /\ suspended' = FALSE /\ unsent' = FALSE
    /\ lost' = lost \cup (IF pend = NoSave THEN {} ELSE pend.ops \cup {SaveEvent})
                    \cup (IF FlushDue THEN Ids(queue) ELSE {})
                    \cup (IF direct = NoOp THEN {} ELSE {direct.id})
    /\ UNCHANGED <<file, ledgerVars, stale, outcome, nextOp>>

Next ==
    \/ BeginAtomic \/ Throw \/ CommitInner \/ CommitOutermost
    \/ \E k \in Keys : AppendInBody(k) \/ AppendTopLevel(k)
    \/ FlushQueue \/ MirrorDirect \/ EnsureSeeded
    \/ TimerFires \/ FlushAndSuspend
    \/ \E r \in Remote, S \in SUBSET Modeled : S # {} /\ RemoteMerge(r, S)
    \/ Restart

Spec == Init /\ [][Next]_vars

\* The event loop gets to a due timer however many calls come between it,
\* every call returns, and a runAtomic body is finite synchronous code: its
\* outermost frame ends.
Fairness ==
    /\ SF_vars(TimerFires)
    /\ WF_vars(FlushQueue) /\ WF_vars(MirrorDirect)
    /\ WF_vars(CommitInner \/ Throw)
    /\ SF_vars(CommitOutermost \/ (Len(frames) = 1 /\ Throw))

FairSpec == Spec /\ Fairness

-----------------------------------------------------------------------------
(* Properties                                                              *)

TypeOK ==
    /\ sql \in [Keys -> Values]
    /\ oplog \in Seq(Ops)
    /\ frames \in Seq([sql : [Keys -> Values], len : Nat])
    /\ queue \in Seq(Ops)
    /\ marks \in Seq(Nat)
    /\ direct \in Ops \cup {NoOp}
    /\ doc \in Docs \cup {NoDoc}
    /\ file \in Docs \cup {NoDoc}
    /\ pend \in [local : BOOLEAN, ops : SUBSET OpIds] \cup {NoSave}
    /\ timer \in BOOLEAN /\ suspended \in BOOLEAN
    /\ unsent \in BOOLEAN /\ stale \in BOOLEAN
    /\ failed \subseteq OpIds \cup {SaveEvent}
    /\ unrecorded \subseteq OpIds \cup {SaveEvent}
    /\ lost \subseteq OpIds \cup {SaveEvent}
    /\ outcome \in [OpIds -> {"none", "deferred", "not-modeled", "applied", "failed"}]
    /\ nextOp \in 1..(MaxOps + 1)
    /\ crashes \in 0..MaxCrashes

\* A write a rollback may still undo, or has undone, is in no document: what
\* the memory and the file hold of this device's writes is committed in the
\* op-log.  (The defect runAtomic exists for: a failed import reappearing.)
OnlyCommittedReplicates ==
    \A d \in {doc, file} \ {NoDoc} : \A k \in Modeled :
        d[k] \in OpIds => d[k] \in CommittedIds

\* Writes whose absence from the document is accounted for.
Accounted == failed \cup unrecorded \cup lost

\* When nothing is in flight SQLite and the document agree on every field,
\* except where SQLite holds a write whose document failure was recorded (or
\* could not be), one a crash took within its debounce window, or a merge
\* that could not be projected.  (liveDoc.js: the divergence is "bounded to
\* the window".)
StoresAgree ==
    Idle /\ doc # NoDoc /\ ~stale =>
        \A k \in Modeled :
            \/ sql[k] = doc[k]
            \/ sql[k] \in Accounted
            \/ sql[k] \in Remote /\ SaveEvent \in Accounted

\* Nothing in memory is forgotten: a field the file does not have yet is in
\* the open debounce window by name, or its loss is on record.
UnsavedIsScheduled ==
    doc # NoDoc => \A k \in Modeled :
        \/ file # NoDoc /\ doc[k] = file[k]
        \/ doc[k] \in failed \cup unrecorded
        \/ pend # NoSave /\ (doc[k] \in OpIds => doc[k] \in pend.ops)
        \/ doc[k] \notin OpIds /\ SaveEvent \in failed \cup unrecorded

\* The timer and the window go together, and the window has a document to
\* save: a timer that was not restarted would leave the window open for ever.
WindowIsArmed == (pend # NoSave <=> timer) /\ (pend # NoSave => doc # NoDoc)

\* A local write not yet broadcast has a window that will broadcast it, or a
\* failure on record (a merge joining the window must not clear the flag).
UnsentIsScheduled ==
    unsent => (pend # NoSave /\ pend.local) \/ SaveEvent \in failed \cup unrecorded

\* What memory holds and the file or the peers do not is due: the window that
\* is open names it, will send it, and has a timer that will close it (liveDoc.js
\* scheduleSave, where local writes and merges share one window).
SaveIsDue == UnsavedIsScheduled /\ WindowIsArmed /\ UnsentIsScheduled

\* When a call has returned, no committed write still reads 'deferred'
\* (documentOutcome.js: "a caller holding the op after runAtomic never sees
\* 'deferred'"), unless a crash ended the call.
NoneReadsDeferred ==
    Idle => \A i \in CommittedIds : outcome[i] \in {"none", "deferred"} => i \in lost

\* Memory is lost only by a restart, and only what was waiting: a write that
\* reached the file stays in it until a later write or merge replaces it (or
\* it was there by the seed alone, and its own document write failed).
FileKeepsCommitted ==
    [][\A k \in Modeled : file # NoDoc /\ file[k] \in OpIds =>
           /\ file' # NoDoc
           /\ \/ file'[k] \in Remote
              \/ file'[k] \in OpIds /\ file'[k] >= file[k]
              \/ file[k] \in failed \cup unrecorded]_vars

\* documentOutcome.js:11: 'applied' means the document has the write.
AppliedIsInDocument ==
    \A i \in DOMAIN oplog : outcome[oplog[i].id] = "applied" => oplog[i].key \in Modeled

\* atRestDisableRunner.js: when the latest changes could not be saved first,
\* encryption is not changed; so saves are only ever suspended for good once
\* the file holds what memory holds.
SuspendedIsSaved == suspended /\ doc # NoDoc => file = doc

\* An open debounce window closes: its writes reach the file or the ledger,
\* or the process ends.
WindowCloses == \A i \in OpIds : (pend # NoSave /\ i \in pend.ops) ~>
                    (\/ pend = NoSave
                     \/ i \notin pend.ops)

\* The refinement: the life of each write under DocumentBoundary.
OpStatus(i) ==
    IF i >= nextOp THEN "unborn"
    ELSE IF i \notin Ids(oplog) THEN "discarded"
    ELSE IF i \notin CommittedIds THEN "open"
    ELSE IF (FlushDue /\ i \in Ids(queue)) \/ (direct # NoOp /\ i = direct.id) THEN "committed"
    ELSE IF outcome[i] \in {"applied", "not-modeled"} THEN "mirrored"
    ELSE "excused"

Boundary == INSTANCE DocumentBoundary WITH status <- [i \in OpIds |-> OpStatus(i)]

\* SQLite and the document share one rollback boundary.
ImplementsBoundary == Boundary!Spec

\* And every committed write is settled.
SettlesEveryWrite == Boundary!FairSpec
=============================================================================
