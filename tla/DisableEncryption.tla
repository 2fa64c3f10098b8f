-------------------------- MODULE DisableEncryption --------------------------
(***************************************************************************)
(* Turning at-rest encryption off, one file-system step at a time, with a  *)
(* kill or an I/O error at any of them, and the recovery of the next boot. *)
(*                                                                         *)
(*   electron/db/disableAtRestEncryption.js  the disable                   *)
(*   electron/db/disableRecovery.js          swap, roll back, finish, boot *)
(*   electron/db/atRestEncryption.js, sqliteCipher.js, main.js  the boot   *)
(*                                                                         *)
(*   backup -> stage -> commit -> swap -> check -> marker -> key           *)
(*      any error -> roll back            finish: zero key, drop backups   *)
(*   boot: staging -> roll back    committing -> swap, check, finish       *)
(*                                                                         *)
(* A step is one durable change (a write and its rename, a rename, an      *)
(* unlink); -wal and -shm files go with their database.  A file's bytes    *)
(* are a form and the version of the camp they hold.                       *)
(***************************************************************************)
EXTENDS Integers, Sequences, FiniteSets, SequencesExt, FiniteSetsExt

CONSTANTS
    Db, Doc,         \* the open camp database and its document
    RestoreTears,    \* BOOLEAN: a kill may leave a restored file half copied
    JournalUnread,   \* BOOLEAN: a boot may fail to read the journal
    MaxErrors, MaxKills, MaxSaves, MaxAttempts      \* bounds

ASSUME SwitchAssumption == {RestoreTears, JournalUnread} \subseteq BOOLEAN
ASSUME BoundAssumption == {MaxErrors, MaxKills, MaxSaves, MaxAttempts} \subseteq Nat
ASSUME FileAssumption == Db # Doc

Files == {Db, Doc}
FileOrder == <<Db, Doc>>

VARIABLES
    disk,     \* what a kill leaves: a record of
              \*   live     each file at its own path
              \*   staged   <file>.disable-staged
              \*   bak      <file>.pre-disable-<stamp>.bak, by attempt
              \*   journal  encryption.disable-journal
              \*   key      db.key.enc: at its "path", "held" as .disabling,
              \*            "zeroed" there, or "gone"
              \*   marker   encryption.disabled exists
    pc,       \* the next step of the program
    left,     \* files the current loop has still to visit
    mem,      \* the journal the running code holds in memory
    caller,   \* "disable" or "boot": who runs swap, rollback and finish
    outcome,  \* what the last recovery of a boot reported
    latest,   \* history: the version last saved to each file
    errors, kills, attempts     \* history, bounded

spent == <<errors, kills, attempts>>
vars == <<disk, pc, left, mem, caller, outcome, latest, spent>>

-----------------------------------------------------------------------------
(* Files                                                                   *)

Forms == {"none", "empty", "enc", "plain", "tornEnc", "tornPlain"}
None == [form |-> "none", ver |-> 0]
Empty == [form |-> "empty", ver |-> 0]
Enc(v) == [form |-> "enc", ver |-> v]
Plain(v) == [form |-> "plain", ver |-> v]

\* Faulty isEncryptedNow, its size check dropped: an empty file passes.
NotPlain(c) == c.form \notin {"none", "plain", "tornPlain"}

\* isEncryptedNow and isPlainNow read only the head of a file.
LooksEncrypted(c) == c.form \in {"enc", "tornEnc"}
LooksPlain(c) == c.form \in {"plain", "tornPlain"}

\* What a kill in the middle of writing content c leaves.
Torn(c) ==
    {Empty, [form |-> IF c.form = "enc" THEN "tornEnc" ELSE "tornPlain", ver |-> 0]}

NoJournal == [state |-> "none", stamp |-> 0, files |-> <<>>,
              expect |-> [f \in Files |-> 0]]
Covered(j) == Range(j.files)
BackupOf(j, f) == disk.bak[j.stamp][f]

KeyOpens == disk.key = "path"
AllPlain == \A f \in Covered(mem) : LooksPlain(disk.live[f])

\* Faulty verifyPlainContent, which checks the document only.
DocumentAsRecorded == disk.live[Doc] = Plain(mem.expect[Doc])

\* verifyPlainContent: the content recorded before the swap.
PlainAsRecorded == \A f \in Covered(mem) : disk.live[f] = Plain(mem.expect[f])

Init ==
    /\ disk = [live |-> [f \in Files |-> Enc(1)],
               staged |-> [f \in Files |-> None],
               bak |-> [i \in 0..MaxAttempts |-> [f \in Files |-> None]],
               journal |-> NoJournal, key |-> "path", marker |-> FALSE]
    /\ pc = "running" /\ left = <<>>
    /\ mem = NoJournal /\ caller = "boot" /\ outcome = "none"
    /\ latest = [f \in Files |-> 1]
    /\ errors = 0 /\ kills = 0 /\ attempts = 0

\* Control goes to a step, or to a loop over files.
Goto(p) == pc' = p /\ left' = <<>>
Loop(p, files) == pc' = p /\ left' = files

\* The loop at p is at file f; it goes on; it has visited every file.
At(p, f) == pc = p /\ left # <<>> /\ f = Head(left)
Rest(p) == Loop(p, Tail(left))
Over(p) == pc = p /\ left = <<>>

\* The process ends: a relaunch, a start that failed, a quit or a kill.
Leave == Goto("down") /\ mem' = NoJournal /\ caller' = "boot"

Inside == UNCHANGED <<mem, caller>>
Unseen == UNCHANGED <<outcome, latest>>
Quiet == Inside /\ Unseen /\ UNCHANGED spent
Spend == errors < MaxErrors /\ errors' = errors + 1 /\ UNCHANGED <<kills, attempts>>

-----------------------------------------------------------------------------
(* A session                                                               *)

\* The app saves a file: encrypted while it holds the key, plain after.
Save(f) ==
    /\ pc = "running"
    /\ latest[f] <= MaxSaves
    /\ latest' = [latest EXCEPT ![f] = @ + 1]
    /\ disk' = [disk EXCEPT !.live[f] =
                    IF KeyOpens THEN Enc(latest'[f]) ELSE Plain(latest'[f])]
    /\ UNCHANGED <<pc, left, mem, caller, outcome, spent>>

Quit == pc = "running" /\ Leave /\ UNCHANGED <<disk, outcome, latest, spent>>

-----------------------------------------------------------------------------
(* disableAtRestEncryption                                                 *)

\* The runner has flushed, stopped sync, suspended saves and closed the
\* database.  The database must be keyed and every document readable; a file
\* already plain is left alone.  The journal write may fail.
StartDisable ==
    /\ pc = "running" /\ attempts < MaxAttempts
    /\ KeyOpens
    /\ disk.live[Db].form = "enc" /\ disk.live[Doc].form \in {"enc", "plain"}
    /\ mem' = [state |-> "staging", stamp |-> attempts + 1,
               files |-> IF disk.live[Doc].form = "enc" THEN FileOrder ELSE <<Db>>,
               expect |-> [f \in Files |-> disk.live[f].ver]]
    /\ caller' = "disable"
    /\ attempts' = attempts + 1 /\ UNCHANGED kills
    /\ \/ /\ disk' = [disk EXCEPT !.journal = mem'] /\ Loop("backup", mem'.files)
          /\ UNCHANGED errors
       \/ UNCHANGED disk /\ Goto("rbKey") /\ errors < MaxErrors /\ errors' = errors + 1
    /\ Unseen

Backup(f) ==
    /\ At("backup", f)
    /\ disk' = [disk EXCEPT !.bak[mem.stamp][f] = disk.live[f]]
    /\ Rest("backup") /\ Quiet

\* Documents first, then databases, each verified against its original.
Stage(f) ==
    /\ At("stage", f)
    /\ disk' = [disk EXCEPT !.staged[f] = Plain(disk.live[f].ver)]
    /\ Rest("stage") /\ Quiet

Commit ==
    /\ pc = "commit"
    /\ mem' = [mem EXCEPT !.state = "committing"]
    /\ disk' = [disk EXCEPT !.journal = mem']
    /\ Loop("swap", mem.files)
    /\ UNCHANGED <<caller, spent>> /\ Unseen

SwapStaged(f) ==
    /\ At("swap", f)
    /\ disk' = IF disk.staged[f] = None THEN disk
               ELSE [disk EXCEPT !.live[f] = disk.staged[f], !.staged[f] = None]
    /\ Rest("swap") /\ Quiet

\* allPlain, then verifyPlainContent.  With the key gone and the content in
\* doubt a boot keeps every file; otherwise doubt rolls back.
Check ==
    /\ pc = "check"
    /\ Goto(CASE PlainAsRecorded -> IF caller = "disable" THEN "marker" ELSE "fMarker"
              [] ~PlainAsRecorded /\ AllPlain /\ caller = "boot" /\ ~KeyOpens -> "uMarker"
              [] OTHER -> "rbKey")
    /\ UNCHANGED disk /\ Quiet

\* Faulty disable, which leaves the marker to finishDisable.
MarkerLater == pc = "marker" /\ Goto("key") /\ UNCHANGED disk /\ Quiet

WriteMarker ==
    /\ pc = "marker"
    /\ disk' = [disk EXCEPT !.marker = TRUE]
    /\ Goto("key") /\ Quiet

HoldKey ==
    /\ pc = "key"
    /\ disk' = [disk EXCEPT !.key = "held"]
    /\ Goto("fMarker") /\ Quiet

\* Any throw before the key has moved is answered by rollbackDisable.  A
\* failed journal write still leaves "committing" in memory.
BodyFails ==
    /\ caller = "disable"
    /\ pc \in {"backup", "stage", "commit", "swap", "check", "marker", "key"}
    /\ mem' = IF pc = "commit" THEN [mem EXCEPT !.state = "committing"] ELSE mem
    /\ Goto("rbKey")
    /\ Spend /\ UNCHANGED <<disk, caller>> /\ Unseen

-----------------------------------------------------------------------------
(* rollbackDisable                                                         *)

\* Legal only while the key is at its own path; it throws otherwise.
RollbackNeedsKey ==
    /\ pc = "rbKey"
    /\ IF KeyOpens THEN Loop("rbUnstage", mem.files) /\ Inside ELSE Leave
    /\ UNCHANGED <<disk, spent>> /\ Unseen

Unstage(f) ==
    /\ At("rbUnstage", f)
    /\ disk' = [disk EXCEPT !.staged[f] = None]
    /\ Loop("rbRestore", left) /\ Quiet

\* Faulty rollback, which restores only what looks plain.
RestorablePlain(f) ==
    mem.state = "committing" /\ BackupOf(mem, f) # None /\ LooksPlain(disk.live[f])

Restorable(f) ==
    mem.state = "committing" /\ BackupOf(mem, f) # None /\ ~LooksEncrypted(disk.live[f])

Restore(f) ==
    /\ At("rbRestore", f)
    /\ disk' = IF Restorable(f) THEN [disk EXCEPT !.live[f] = BackupOf(mem, f)] ELSE disk
    /\ Rest("rbUnstage") /\ Quiet

\* Nothing is deleted unless every file looks encrypted again.
RollbackCheck ==
    /\ Over("rbUnstage")
    /\ IF \A f \in Covered(mem) : LooksEncrypted(disk.live[f])
       THEN Goto("rbMarker") /\ Inside
       ELSE Leave
    /\ UNCHANGED <<disk, spent>> /\ Unseen

DropMarker ==
    /\ pc = "rbMarker"
    /\ disk' = [disk EXCEPT !.marker = FALSE]
    /\ Loop("rbBaks", mem.files) /\ Quiet

\* Shared by the tails of rollback and finish.
DropBackup(p, f) ==
    /\ At(p, f)
    /\ disk' = [disk EXCEPT !.bak[mem.stamp][f] = None]
    /\ Rest(p) /\ Quiet

\* The disable ends in a relaunch; a boot goes on and reports.
Return(what) ==
    /\ IF caller = "disable" THEN Leave /\ UNCHANGED outcome
       ELSE Goto("open") /\ Inside /\ outcome' = what
    /\ UNCHANGED latest

DropJournal(p, what) ==
    /\ pc = p
    /\ disk' = [disk EXCEPT !.journal = NoJournal]
    /\ Return(what) /\ UNCHANGED spent

\* A throw here reaches the runner (relaunch) or main.js (failed start).  A
\* copy that fails leaves its target as it was, or removed.
RollbackFails ==
    /\ pc \in {"rbUnstage", "rbRestore", "rbMarker", "rbBaks", "rbJournal"}
    /\ disk' \in {disk} \cup
         {[disk EXCEPT !.live[f] = None] :
             f \in {g \in Files : At("rbRestore", g) /\ Restorable(g)}}
    /\ Leave /\ Spend /\ Unseen

-----------------------------------------------------------------------------
(* finishDisable: every step skips what is already done                    *)

FinishMarker ==
    /\ pc = "fMarker"
    /\ disk' = [disk EXCEPT !.marker = TRUE]
    /\ Goto("fKey") /\ Quiet

FinishKey ==
    /\ pc = "fKey"
    /\ disk' = [disk EXCEPT !.key = IF KeyOpens THEN "held" ELSE @]
    /\ Goto("fZero") /\ Quiet

ZeroKey ==
    /\ pc = "fZero"
    /\ disk' = [disk EXCEPT !.key = IF @ = "held" THEN "zeroed" ELSE @]
    /\ Goto("fHeld") /\ Quiet

UnlinkKey ==
    /\ pc = "fHeld"
    /\ disk' = [disk EXCEPT !.key = "gone"]
    /\ Loop("fBaks", mem.files) /\ Quiet

\* The marker and the key's rename throw; what follows only warns, and the
\* journal stays for the next boot.  A failed overwrite may have truncated.
FinishThrows ==
    /\ \/ pc = "fMarker" /\ ~disk.marker
       \/ pc = "fKey" /\ KeyOpens
    /\ Leave /\ Spend /\ UNCHANGED disk /\ Unseen

FinishWarns ==
    /\ \/ /\ pc = "fZero" /\ disk.key \in {"held", "zeroed"}
          /\ disk' \in {disk, [disk EXCEPT !.key = "zeroed"]}
       \/ pc = "fHeld" /\ disk.key = "zeroed" /\ UNCHANGED disk
       \/ (\E f \in Files : At("fBaks", f) /\ BackupOf(mem, f) # None) /\ UNCHANGED disk
       \/ pc = "fJournal" /\ UNCHANGED disk
    /\ Return("completed") /\ Spend

-----------------------------------------------------------------------------
(* recoverInterruptedDisable, then the boot opens the camp                 *)

\* A genuine commit left a backup of every file: while the key is there, a
\* committing journal without them is not trusted.
Untrusted ==
    /\ disk.journal.state = "committing" /\ KeyOpens
    /\ \E f \in Covered(disk.journal) : BackupOf(disk.journal, f) = None

Boot ==
    /\ pc = "down"
    /\ \/ /\ JournalUnread /\ disk.journal # NoJournal
          /\ Spend /\ Goto("open") /\ outcome' = "unreadable_journal" /\ UNCHANGED mem
       \/ /\ UNCHANGED spent /\ outcome' = "none"
          /\ \/ disk.journal = NoJournal /\ Goto("open") /\ UNCHANGED mem
             \/ Untrusted /\ Loop("discard", FileOrder) /\ UNCHANGED mem
             \/ disk.journal.state = "staging" /\ Goto("rbKey") /\ mem' = disk.journal
             \/ /\ disk.journal.state = "committing" /\ ~Untrusted
                /\ Loop("swap", disk.journal.files) /\ mem' = disk.journal
    /\ UNCHANGED <<disk, caller, latest>>

\* Best effort: each unlink may fail and is swallowed.
Discard(f) ==
    /\ At("discard", f)
    /\ \/ disk' = [disk EXCEPT !.staged[f] = None] /\ UNCHANGED spent
       \/ UNCHANGED disk /\ Spend
    /\ Rest("discard") /\ Inside /\ Unseen

SetJournalAside ==
    /\ pc = "aside"
    /\ \/ disk' = [disk EXCEPT !.journal = NoJournal] /\ UNCHANGED spent
       \/ UNCHANGED disk /\ Spend
    /\ Goto("open") /\ outcome' = "unreadable_journal"
    /\ UNCHANGED latest /\ Inside

\* The swap and its check are caught; an unreadable file fails the check.
BootFails ==
    /\ caller = "boot"
    /\ \/ pc = "swap" /\ left # <<>> /\ Goto("rbKey")
       \/ pc = "check" /\ Goto(IF KeyOpens THEN "rbKey" ELSE "uMarker")
    /\ Spend /\ UNCHANGED disk /\ Inside /\ Unseen

KeepUnverified ==
    /\ pc = "uMarker"
    /\ disk' = [disk EXCEPT !.marker = TRUE]
    /\ Goto("open") /\ outcome' = "unverified_plain"
    /\ UNCHANGED <<latest, spent>> /\ Inside

\* With the key the database opens keyed: a plain one is encrypted first and
\* an absent or empty one is created.  Without it the marker keeps encryption
\* off.  Any other database does not open.
OpenCamp ==
    /\ pc = "open"
    /\ \/ KeyOpens /\ disk.live[Db].form = "enc" /\ UNCHANGED disk
       \/ /\ KeyOpens /\ disk.live[Db].form = "plain"
          /\ disk' = [disk EXCEPT !.live[Db].form = "enc"]
       \/ /\ KeyOpens /\ disk.live[Db].form \in {"none", "empty"}
          /\ disk' = [disk EXCEPT !.live[Db] = Enc(0)]
       \/ ~KeyOpens /\ disk.marker /\ disk.live[Db].form = "plain" /\ UNCHANGED disk
    /\ Goto("running") /\ mem' = NoJournal
    /\ UNCHANGED <<caller, spent>> /\ Unseen

-----------------------------------------------------------------------------
\* A loop with no file left goes to what follows it.
LoopEnds ==
    /\ \/ Over("backup") /\ Loop("stage", Reverse(mem.files))
       \/ Over("stage") /\ Goto("commit")
       \/ Over("swap") /\ Goto("check")
       \/ Over("rbBaks") /\ Goto("rbJournal")
       \/ Over("fBaks") /\ Goto("fJournal")
       \/ Over("discard") /\ Goto("aside")
    /\ UNCHANGED disk /\ Quiet

\* What a write cut short leaves on the disk.
HalfWritten ==
    UNION {
        {[disk EXCEPT !.bak[mem.stamp][f] = c] :
            c \in IF At("backup", f) THEN Torn(disk.live[f]) ELSE {}}
        \cup {[disk EXCEPT !.staged[f] = c] :
            c \in IF At("stage", f)
                  THEN {disk.live[f]} \cup Torn(disk.live[f]) \cup Torn(Plain(0)) ELSE {}}
        \cup {[disk EXCEPT !.live[f] = c] :
            c \in IF ~(At("rbRestore", f) /\ Restorable(f)) THEN {}
                  ELSE IF RestoreTears THEN Torn(BackupOf(mem, f)) ELSE {Empty}}
      : f \in Files}

\* The process is killed between two steps, or half way through a copy.
Kill ==
    /\ pc \notin {"running", "down"}
    /\ kills < MaxKills /\ kills' = kills + 1 /\ UNCHANGED <<errors, attempts>>
    /\ disk' \in {disk} \cup HalfWritten
    /\ Leave /\ Unseen

\* What the program does next when nothing fails.
Proceed ==
    \/ \E f \in Files :
          \/ Backup(f) \/ Stage(f) \/ SwapStaged(f)
          \/ Unstage(f) \/ Restore(f) \/ DropBackup("rbBaks", f)
          \/ DropBackup("fBaks", f) \/ Discard(f)
    \/ Commit \/ Check \/ WriteMarker \/ HoldKey
    \/ RollbackNeedsKey \/ RollbackCheck \/ DropMarker
    \/ DropJournal("rbJournal", "rolled_back")
    \/ FinishMarker \/ FinishKey \/ ZeroKey \/ UnlinkKey
    \/ DropJournal("fJournal", "completed")
    \/ Boot \/ SetJournalAside \/ KeepUnverified \/ OpenCamp
    \/ LoopEnds

Next ==
    \/ Proceed
    \/ StartDisable \/ Quit \/ \E f \in Files : Save(f)
    \/ BodyFails \/ RollbackFails \/ FinishThrows \/ FinishWarns \/ BootFails
    \/ Kill

Spec == Init /\ [][Next]_vars

\* The program runs on, and a device that went down is started again.
FairSpec == Spec /\ WF_vars(Proceed)

-----------------------------------------------------------------------------
Contents == [form : Forms, ver : 0..MaxSaves + 1]
Journals == [state : {"none", "staging", "committing"}, stamp : 0..MaxAttempts,
             files : {<<>>, <<Db>>, <<Db, Doc>>},
             expect : [Files -> 0..MaxSaves + 1]]

\* Every variable has its type: the journal's state is one parseJournal knows.
TypeOK ==
    /\ disk \in [live : [Files -> Contents], staged : [Files -> Contents],
                 bak : [0..MaxAttempts -> [Files -> Contents]],
                 journal : Journals, marker : BOOLEAN,
                 key : {"path", "held", "zeroed", "gone"}]
    /\ mem \in Journals
    /\ Range(left) \subseteq Files
    /\ caller \in {"disable", "boot"}
    /\ outcome \in {"none", "rolled_back", "completed", "unreadable_journal",
                    "unverified_plain"}
    /\ latest \in [Files -> 1..MaxSaves + 1]
    /\ errors \in 0..MaxErrors /\ kills \in 0..MaxKills /\ attempts \in 0..MaxAttempts

\* The copies of f that recovery looks at and that the disk lets it open.
Openable(f) ==
    {c \in {disk.live[f], disk.staged[f], BackupOf(disk.journal, f)} :
        c.form = "plain" \/ (c.form = "enc" /\ disk.key \in {"path", "held"})}
Newest(f) == Max({0} \cup {c.ver : c \in Openable(f)})

\* At every instant, killed or not, the last version saved of each file is in
\* a copy that can be opened (disableRecovery.js 1-12).
NothingLost == \A f \in Files : Newest(f) = latest[f]

\* Whatever a session of the app opens is the last version saved.
OpensLatest ==
    pc = "running" => \A f \in Files : /\ disk.live[f].form \in {"enc", "plain"}
                                       /\ disk.live[f].ver = latest[f]

\* The key leaves its path only once every file is whole, plain and at its own
\* path, and the marker is written: no boot can mint another key over the camp.
KeyGoesLast ==
    ~KeyOpens => disk.marker /\ \A f \in Files : disk.live[f].form = "plain"

\* However often it is killed or fails, a device gets back to running.
ComesBack == []<>(pc = "running")

\* A boot that can read every file finds the content in doubt only when it is
\* not what was last saved: otherwise it runs a half-done finish again
\* (disableRecovery.js 188).
UnverifiedIsReal ==
    [][Check => (pc' = "uMarker" =>
                    \E f \in Files : disk.live[f] # Plain(latest[f]))]_vars

Abstract == INSTANCE AtRest WITH
    protection <- IF KeyOpens THEN "on" ELSE "off",
    saved <- [f \in Files |-> Newest(f)]

\* The detailed steps implement AtRest: off once, nothing lost on the way.
ImplementsAtRest == Abstract!Spec
=============================================================================
