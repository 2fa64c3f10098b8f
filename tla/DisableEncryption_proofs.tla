----------------------- MODULE DisableEncryption_proofs -----------------------
(***************************************************************************)
(* Turning encryption off for whatever number of kills, errors, attempts   *)
(* and saves, as long as the journal can be read: the key goes last, also  *)
(* when a kill tears a restored file; and, when a restore is not torn,     *)
(* nothing is lost, sessions open what was last saved, and the steps       *)
(* implement AtRest.                                                       *)
(*                                                                         *)
(* All of it depends on what the journal on the disk may still make a boot *)
(* do.  The first invariant, IInv, says of a journal that will be followed *)
(* that the files it does not cover are plain, that no session begins      *)
(* while it stands, and that once the key is gone it has nothing left to   *)
(* swap in.  The second, SavedInv, says which bytes are where: while       *)
(* nobody follows the journal every file is whole at its own path; while   *)
(* it is followed every file it covers has a backup that is.               *)
(***************************************************************************)
EXTENDS DisableEncryption, TLAPS

AllLivePlain == \A f \in Files : disk.live[f].form = "plain"
UncoveredPlain(j) == \A f \in Files \ Covered(j) : disk.live[f].form = "plain"
NothingStaged(j) == \A f \in Covered(j) : disk.staged[f] = None

\* A boot with the key will follow the journal through to the end.
Followed == /\ disk.journal.state = "committing" /\ KeyOpens
            /\ \A f \in Covered(disk.journal) : BackupOf(disk.journal, f) # None

Preparing == {"backup", "stage", "commit"}
Swapping == {"swap", "check"}
Leaving == {"marker", "key", "fMarker", "fKey"}
Undoing == {"rbUnstage", "rbRestore", "rbMarker", "rbBaks", "rbJournal"}
Cleaning == {"fZero", "fHeld", "fBaks", "fJournal"}
Opening == {"running", "open", "discard", "aside"}

\* Which steps run with the key at its path, and which only without.
KeyByStep ==
    /\ pc \in Preparing \cup Undoing \cup {"marker", "key"} => KeyOpens
    /\ pc \in Swapping /\ caller = "disable" => KeyOpens
    /\ pc \in Cleaning \cup {"uMarker"} => ~KeyOpens
    /\ pc = "down" => caller = "boot"

\* The journal the code holds is the one on the disk, or the one it would be.
JournalHeld ==
    /\ pc \in Preparing => mem = disk.journal /\ mem.state = "staging"
    /\ pc \in Swapping \cup Leaving => mem = disk.journal /\ mem.state = "committing"
    /\ pc \in Undoing \cup {"rbKey"} /\ mem.state = "committing"
          => disk.journal = NoJournal \/ disk.journal.files = mem.files

\* What the disk alone promises, to whoever boots from it.
FollowedCovers == Followed => UncoveredPlain(disk.journal)
GoneIsSwapped == ~KeyOpens => NothingStaged(disk.journal)

PlanCovers == pc \in Preparing \cup Swapping /\ KeyOpens => UncoveredPlain(mem)

NoSessionFollowed == pc \in Opening => ~Followed

\* What a loop has passed is done.
LoopsCover ==
    /\ pc \in {"swap", "rbUnstage", "rbRestore"} => Range(left) \subseteq Covered(mem)
    /\ pc = "swap" => \A f \in Covered(mem) \ Range(left) : disk.staged[f] = None
    /\ pc \in {"check"} \cup Leaving => NothingStaged(mem)

LeavesPlain ==
    /\ pc \in Leaving => AllLivePlain
    /\ pc \in {"key", "fKey"} => disk.marker

DiskInv == KeyGoesLast /\ FollowedCovers /\ GoneIsSwapped
StepInv == KeyByStep /\ JournalHeld /\ PlanCovers /\ NoSessionFollowed /\ LoopsCover /\ LeavesPlain

IInv == TypeOK /\ left \in Seq(Files) /\ DiskInv /\ StepInv

-----------------------------------------------------------------------------
(* Files, journals and loops.                                              *)

Disks == [live : [Files -> Contents], staged : [Files -> Contents],
          bak : [0..MaxAttempts -> [Files -> Contents]],
          journal : Journals, marker : BOOLEAN,
          key : {"path", "held", "zeroed", "gone"}]

LEMMA FormsOfContents ==
    /\ None \in Contents /\ Empty \in Contents
    /\ \A v \in 0..MaxSaves + 1 : Enc(v) \in Contents /\ Plain(v) \in Contents
BY BoundAssumption DEF None, Empty, Enc, Plain, Contents, Forms

LEMMA TornContents ==
    ASSUME NEW c \in Contents PROVE Torn(c) \subseteq Contents
BY BoundAssumption, FormsOfContents DEF Torn, Contents, Forms

LEMMA RangesOfFiles ==
    /\ Range(<<>>) = {} /\ Range(<<Db>>) = {Db} /\ Range(<<Db, Doc>>) = {Db, Doc}
BY DEF Range

LEMMA JournalFiles ==
    /\ NoJournal \in Journals /\ Covered(NoJournal) = {}
    /\ \A j \in Journals : /\ Covered(j) \subseteq Files /\ j.files \in Seq(Files)
                           /\ Range(Reverse(j.files)) \subseteq Files
                           /\ Reverse(j.files) \in Seq(Files)
<1>1. NoJournal \in Journals /\ NoJournal.files = <<>>
  BY BoundAssumption DEF NoJournal, Journals
<1>2. Covered(NoJournal) = {}
  BY <1>1, RangesOfFiles DEF Covered
<1>3. ASSUME NEW j \in Journals
      PROVE  /\ Covered(j) \subseteq Files /\ j.files \in Seq(Files)
             /\ Range(Reverse(j.files)) \subseteq Files
             /\ Reverse(j.files) \in Seq(Files)
  <2>1. j.files \in {<<>>, <<Db>>, <<Db, Doc>>}
    BY DEF Journals
  <2>2. Covered(j) \subseteq Files /\ j.files \in Seq(Files)
    <3>1. <<>> \in Seq(Files) /\ <<Db>> \in Seq(Files) /\ <<Db, Doc>> \in Seq(Files)
      BY DEF Files
    <3>2. Range(j.files) \subseteq Files
      BY <2>1, RangesOfFiles DEF Files
    <3> QED
      BY <2>1, <3>1, <3>2 DEF Covered
  <2>3. Reverse(j.files) \in Seq(Files)
    BY <2>2 DEF Reverse
  <2>4. Range(Reverse(j.files)) \subseteq Files
    BY <2>3 DEF Range
  <2> QED
    BY <2>2, <2>3, <2>4
<1> QED
  BY <1>1, <1>2, <1>3

LEMMA EmptyLoop == <<>> \in Seq(Files) /\ Range(<<>>) = {}
BY RangesOfFiles

\* A loop goes on with the rest of its files.
LEMMA RestOfLoop ==
    ASSUME left \in Seq(Files), left # <<>>
    PROVE  /\ Head(left) \in Files /\ Tail(left) \in Seq(Files)
           /\ Head(left) \in Range(left)
           /\ Range(Tail(left)) \subseteq Range(left)
           /\ Range(left) \subseteq Range(Tail(left)) \cup {Head(left)}
<1>1. Len(left) \in Nat \ {0} /\ left \in [1..Len(left) -> Files]
  BY DEF Range
<1>2. Tail(left) \in Seq(Files) /\ Len(Tail(left)) = Len(left) - 1
      /\ \A i \in 1..Len(left) - 1 : Tail(left)[i] = left[i + 1]
  BY <1>1
<1>3. Head(left) = left[1] /\ Head(left) \in Files /\ Head(left) \in Range(left)
  BY <1>1 DEF Range
<1>4. Range(Tail(left)) \subseteq Range(left)
  <2>1. \A i \in 1..Len(left) - 1 : i + 1 \in 1..Len(left)
    BY <1>1
  <2> QED
    BY <1>1, <1>2, <2>1 DEF Range
<1>5. Range(left) \subseteq Range(Tail(left)) \cup {Head(left)}
  <2>1. \A i \in 1..Len(left) : i = 1 \/ (i - 1 \in 1..Len(left) - 1 /\ left[i] = Tail(left)[i - 1])
    BY <1>1, <1>2
  <2>2. DOMAIN Tail(left) = 1..Len(left) - 1
    BY <1>2
  <2> SUFFICES ASSUME NEW i \in 1..Len(left)
               PROVE  left[i] \in Range(Tail(left)) \cup {Head(left)}
    BY <1>1 DEF Range
  <2>3. CASE i = 1
    BY <1>3, <2>3
  <2>4. CASE i # 1
    <3>1. i - 1 \in DOMAIN Tail(left) /\ left[i] = Tail(left)[i - 1]
      BY <2>1, <2>2, <2>4
    <3> QED
      BY <3>1 DEF Range
  <2> QED
    BY <2>3, <2>4
<1> QED
  BY <1>2, <1>3, <1>4, <1>5

-----------------------------------------------------------------------------
(* One change of the disk.                                                 *)

SameLive == disk'.live = disk.live
SameStaged == disk'.staged = disk.staged
SameBak == disk'.bak = disk.bak
SameJournal == disk'.journal = disk.journal
SameKey == disk'.key = disk.key
SameMarker == disk'.marker = disk.marker

LEMMA LiveChanges ==
    ASSUME disk \in Disks, NEW f \in Files, NEW c \in Contents,
           disk' = [disk EXCEPT !.live[f] = c]
    PROVE  /\ disk' \in Disks /\ disk'.live = [disk.live EXCEPT ![f] = c]
           /\ SameStaged /\ SameBak /\ SameJournal /\ SameKey /\ SameMarker
BY DEF Disks, SameStaged, SameBak, SameJournal, SameKey, SameMarker

LEMMA StagedChanges ==
    ASSUME disk \in Disks, NEW f \in Files, NEW c \in Contents,
           disk' = [disk EXCEPT !.staged[f] = c]
    PROVE  /\ disk' \in Disks /\ disk'.staged = [disk.staged EXCEPT ![f] = c]
           /\ SameLive /\ SameBak /\ SameJournal /\ SameKey /\ SameMarker
BY DEF Disks, SameLive, SameBak, SameJournal, SameKey, SameMarker

LEMMA BakChanges ==
    ASSUME disk \in Disks, NEW i \in 0..MaxAttempts, NEW f \in Files, NEW c \in Contents,
           disk' = [disk EXCEPT !.bak[i][f] = c]
    PROVE  /\ disk' \in Disks
           /\ \A k \in 0..MaxAttempts : \A g \in Files :
                 disk'.bak[k][g] = IF k = i /\ g = f THEN c ELSE disk.bak[k][g]
           /\ SameLive /\ SameStaged /\ SameJournal /\ SameKey /\ SameMarker
<1>1. disk'.bak = [disk.bak EXCEPT ![i] = [disk.bak[i] EXCEPT ![f] = c]]
  BY DEF Disks
<1> QED
  BY <1>1 DEF Disks, SameLive, SameStaged, SameJournal, SameKey, SameMarker

LEMMA JournalChanges ==
    ASSUME disk \in Disks, NEW j \in Journals, disk' = [disk EXCEPT !.journal = j]
    PROVE  /\ disk' \in Disks /\ disk'.journal = j
           /\ SameLive /\ SameStaged /\ SameBak /\ SameKey /\ SameMarker
BY DEF Disks, SameLive, SameStaged, SameBak, SameKey, SameMarker

LEMMA KeyChanges ==
    ASSUME disk \in Disks, NEW k \in {"path", "held", "zeroed", "gone"},
           disk' = [disk EXCEPT !.key = k]
    PROVE  /\ disk' \in Disks /\ disk'.key = k
           /\ SameLive /\ SameStaged /\ SameBak /\ SameJournal /\ SameMarker
BY DEF Disks, SameLive, SameStaged, SameBak, SameJournal, SameMarker

LEMMA MarkerChanges ==
    ASSUME disk \in Disks, NEW b \in BOOLEAN, disk' = [disk EXCEPT !.marker = b]
    PROVE  /\ disk' \in Disks /\ disk'.marker = b
           /\ SameLive /\ SameStaged /\ SameBak /\ SameJournal /\ SameKey
BY DEF Disks, SameLive, SameStaged, SameBak, SameJournal, SameKey

LEMMA TypesAsRecord == TypeOK => disk \in Disks
BY DEF TypeOK, Disks

-----------------------------------------------------------------------------
(* What each change leaves of the promise of the disk.                     *)

LEMMA SameDisk ==
    ASSUME DiskInv, disk' = disk
    PROVE  DiskInv' /\ Followed' = Followed
BY DEF DiskInv, KeyGoesLast, FollowedCovers, GoneIsSwapped, Followed, UncoveredPlain,
       NothingStaged, KeyOpens, BackupOf

\* With the key, only what the journal covers is written in place, or nobody
\* will follow the journal.
LEMMA LiveKeeps ==
    ASSUME disk \in Disks, DiskInv, NEW f \in Files, NEW c \in Contents, KeyOpens,
           disk' = [disk EXCEPT !.live[f] = c],
           ~Followed \/ f \in Covered(disk.journal)
    PROVE  DiskInv' /\ Followed' = Followed
<1>1. /\ disk'.live = [disk.live EXCEPT ![f] = c] /\ disk.live \in [Files -> Contents]
      /\ SameStaged /\ SameBak /\ SameJournal /\ SameKey /\ SameMarker
  BY LiveChanges DEF Disks
<1>2. Followed' = Followed /\ KeyOpens'
  BY <1>1 DEF Followed, KeyOpens, BackupOf, SameBak, SameJournal, SameKey
<1>3. FollowedCovers'
  BY <1>1, <1>2 DEF DiskInv, FollowedCovers, UncoveredPlain, SameJournal
<1> QED
  BY <1>2, <1>3 DEF DiskInv, KeyGoesLast, GoneIsSwapped

LEMMA StagedKeeps ==
    ASSUME disk \in Disks, DiskInv, NEW f \in Files, NEW c \in Contents, KeyOpens \/ c = None,
           disk' = [disk EXCEPT !.staged[f] = c]
    PROVE  DiskInv' /\ Followed' = Followed
<1>1. /\ disk'.staged = [disk.staged EXCEPT ![f] = c] /\ disk.staged \in [Files -> Contents]
      /\ SameLive /\ SameBak /\ SameJournal /\ SameKey /\ SameMarker
      /\ Covered(disk.journal) \subseteq Files
  BY StagedChanges, JournalFiles DEF Disks
<1>2. Followed' = Followed /\ KeyOpens' = KeyOpens
  BY <1>1 DEF Followed, KeyOpens, BackupOf, SameBak, SameJournal, SameKey
<1>3. GoneIsSwapped'
  BY <1>1, <1>2 DEF DiskInv, GoneIsSwapped, NothingStaged, SameJournal
<1> QED
  BY <1>1, <1>2, <1>3
  DEF DiskInv, KeyGoesLast, FollowedCovers, UncoveredPlain, SameLive, SameJournal, SameMarker

\* A backup is written under a journal nobody follows yet, or dropped.
LEMMA BakKeeps ==
    ASSUME disk \in Disks, DiskInv, NEW i \in 0..MaxAttempts, NEW f \in Files, NEW c \in Contents,
           disk.journal.state = "staging" \/ c = None,
           disk' = [disk EXCEPT !.bak[i][f] = c]
    PROVE  DiskInv' /\ (Followed' => Followed)
<1>1. /\ \A k \in 0..MaxAttempts : \A g \in Files :
            disk'.bak[k][g] = IF k = i /\ g = f THEN c ELSE disk.bak[k][g]
      /\ SameLive /\ SameStaged /\ SameJournal /\ SameKey /\ SameMarker
      /\ Covered(disk.journal) \subseteq Files /\ disk.journal.stamp \in 0..MaxAttempts
  <2>1. disk.journal \in Journals
    BY DEF Disks
  <2>2. Covered(disk.journal) \subseteq Files /\ disk.journal.stamp \in 0..MaxAttempts
    BY <2>1, JournalFiles DEF Journals
  <2> QED
    BY <2>2, BakChanges
<1>2. KeyOpens' = KeyOpens /\ (Followed' => Followed)
  BY <1>1 DEF Followed, KeyOpens, BackupOf, SameJournal, SameKey
<1> QED
  BY <1>1, <1>2
  DEF DiskInv, KeyGoesLast, FollowedCovers, GoneIsSwapped, NothingStaged, UncoveredPlain,
      SameLive, SameStaged, SameJournal, SameMarker

LEMMA JournalKeeps ==
    ASSUME disk \in Disks, DiskInv, NEW j \in Journals, disk' = [disk EXCEPT !.journal = j],
           \/ j = NoJournal
           \/ KeyOpens /\ (j.state = "staging" \/ UncoveredPlain(j))
    PROVE  DiskInv' /\ (j.state # "committing" => ~Followed')
<1>1. disk'.journal = j /\ SameLive /\ SameStaged /\ SameBak /\ SameKey /\ SameMarker
  BY JournalChanges
<1>2. KeyOpens' = KeyOpens /\ (Followed' => j.state = "committing")
  BY <1>1 DEF Followed, KeyOpens, SameKey
<1>3. NoJournal.state = "none" /\ Covered(NoJournal) = {}
  BY JournalFiles DEF NoJournal
<1>4. FollowedCovers'
  BY <1>1, <1>2, <1>3 DEF FollowedCovers, UncoveredPlain, SameLive
<1>5. GoneIsSwapped'
  BY <1>1, <1>2, <1>3 DEF GoneIsSwapped, NothingStaged
<1> QED
  BY <1>1, <1>2, <1>4, <1>5 DEF DiskInv, KeyGoesLast, SameLive, SameMarker

LEMMA KeyKeeps ==
    ASSUME disk \in Disks, DiskInv, NEW k \in {"held", "zeroed", "gone"},
           disk' = [disk EXCEPT !.key = k],
           KeyOpens => AllLivePlain /\ disk.marker /\ NothingStaged(disk.journal)
    PROVE  DiskInv' /\ ~Followed' /\ ~KeyOpens'
<1>1. disk'.key = k /\ SameLive /\ SameStaged /\ SameBak /\ SameJournal /\ SameMarker
  BY KeyChanges
<1>2. ~KeyOpens' /\ ~Followed'
  BY <1>1 DEF Followed, KeyOpens
<1> QED
  BY <1>1, <1>2
  DEF DiskInv, KeyGoesLast, FollowedCovers, GoneIsSwapped, NothingStaged, AllLivePlain,
      SameLive, SameStaged, SameJournal, SameMarker

LEMMA MarkerKeeps ==
    ASSUME disk \in Disks, DiskInv, NEW b \in BOOLEAN, disk' = [disk EXCEPT !.marker = b],
           KeyOpens \/ b
    PROVE  DiskInv' /\ Followed' = Followed
<1>1. disk'.marker = b /\ SameLive /\ SameStaged /\ SameBak /\ SameJournal /\ SameKey
  BY MarkerChanges
<1>2. KeyOpens' = KeyOpens /\ Followed' = Followed
  BY <1>1 DEF Followed, KeyOpens, BackupOf, SameBak, SameJournal, SameKey
<1> QED
  BY <1>1, <1>2
  DEF DiskInv, KeyGoesLast, FollowedCovers, GoneIsSwapped, NothingStaged, UncoveredPlain,
      SameLive, SameStaged, SameJournal

-----------------------------------------------------------------------------
(* The steps.                                                              *)

LEMMA Typed ==
    ASSUME TypeOK, disk' \in Disks, left' \in Seq(Files), mem' \in Journals,
           caller' \in {"disable", "boot"},
           outcome' \in {"none", "rolled_back", "completed", "unreadable_journal",
                         "unverified_plain"},
           latest' \in [Files -> 1..MaxSaves + 1],
           errors' \in 0..MaxErrors, kills' \in 0..MaxKills, attempts' \in 0..MaxAttempts
    PROVE  TypeOK'
<1>1. Range(left') \subseteq Files
  BY DEF Range
<1> QED
  BY <1>1 DEF TypeOK, Disks

\* A step that only changes the disk and goes on.
LEMMA QuietTyped ==
    ASSUME TypeOK, disk' \in Disks, left' \in Seq(Files), Quiet
    PROVE  TypeOK'
BY Typed DEF TypeOK, Quiet, Inside, Unseen, spent

LEMMA SpendTyped ==
    ASSUME TypeOK, Spend
    PROVE  errors' \in 0..MaxErrors /\ kills' \in 0..MaxKills /\ attempts' \in 0..MaxAttempts
BY BoundAssumption DEF TypeOK, Spend

\* The process is gone: the promise of the disk is all there is.
LEMMA LeaveInv ==
    ASSUME TypeOK, Leave, disk' \in Disks, DiskInv', UNCHANGED <<outcome, latest>>,
           errors' \in 0..MaxErrors, kills' \in 0..MaxKills, attempts' \in 0..MaxAttempts
    PROVE  IInv'
<1>1. pc' = "down" /\ left' = <<>> /\ mem' = NoJournal /\ caller' = "boot"
  BY DEF Leave, Goto
<1>2. TypeOK'
  BY <1>1, Typed, EmptyLoop, JournalFiles DEF TypeOK
<1>3. StepInv'
  BY <1>1
  DEF StepInv, KeyByStep, JournalHeld, PlanCovers, NoSessionFollowed, LoopsCover, LeavesPlain,
      Preparing, Swapping, Leaving, Undoing, Cleaning, Opening
<1> QED
  BY <1>1, <1>2, <1>3, EmptyLoop DEF IInv

LEMMA InitInv ==
    ASSUME Init PROVE IInv
<1>1. /\ disk.live = [f \in Files |-> Enc(1)] /\ disk.staged = [f \in Files |-> None]
      /\ disk.bak = [i \in 0..MaxAttempts |-> [f \in Files |-> None]]
      /\ disk.journal = NoJournal /\ disk.key = "path" /\ disk.marker = FALSE
      /\ disk \in Disks
  <2>1. Enc(1) \in Contents /\ None \in Contents /\ NoJournal \in Journals
    BY FormsOfContents, JournalFiles, BoundAssumption
  <2> QED
    BY <2>1 DEF Init, Disks
<1>2. TypeOK
  BY <1>1, JournalFiles, RangesOfFiles, BoundAssumption DEF Init, TypeOK, Disks
<1>3. KeyOpens /\ ~Followed
  BY <1>1 DEF KeyOpens, Followed, NoJournal
<1>4. DiskInv
  BY <1>3 DEF DiskInv, KeyGoesLast, FollowedCovers, GoneIsSwapped
<1>5. StepInv
  BY <1>3
  DEF Init, StepInv, KeyByStep, JournalHeld, PlanCovers, NoSessionFollowed, LoopsCover, LeavesPlain,
      Preparing, Swapping, Leaving, Undoing, Cleaning, Opening
<1> QED
  BY <1>2, <1>4, <1>5, EmptyLoop DEF IInv, Init

\* A session saves; nobody follows the journal.
LEMMA SaveInv ==
    ASSUME NEW f \in Files, IInv, Save(f) PROVE IInv'
<1> DEFINE c == IF KeyOpens THEN Enc(latest[f] + 1) ELSE Plain(latest[f] + 1)
<1>1. /\ disk \in Disks /\ TypeOK /\ DiskInv /\ pc = "running" /\ ~Followed
      /\ UNCHANGED <<pc, left, mem, caller, outcome, spent>>
  BY TypesAsRecord DEF IInv, StepInv, NoSessionFollowed, Opening, Save
<1>2. /\ latest' \in [Files -> 1..MaxSaves + 1]
      /\ latest'[f] = latest[f] + 1 /\ latest[f] + 1 \in 0..MaxSaves + 1
  BY <1>1, BoundAssumption DEF Save, TypeOK
<1>3. c \in Contents /\ disk' = [disk EXCEPT !.live[f] = c]
  BY <1>2, FormsOfContents DEF Save
<1>4. disk' \in Disks /\ KeyOpens' = KeyOpens /\ disk'.live = [disk.live EXCEPT ![f] = c]
      /\ disk'.marker = disk.marker /\ disk'.journal = disk.journal /\ disk'.staged = disk.staged
  BY <1>1, <1>3, LiveChanges DEF KeyOpens, SameKey, SameMarker, SameJournal, SameStaged
<1>5. DiskInv' /\ ~Followed'
  <2>1. CASE KeyOpens
    BY <1>1, <1>3, <2>1, LiveKeeps
  <2>2. CASE ~KeyOpens
    <3>1. c.form = "plain"
      BY <2>2 DEF Plain
    <3>2. ~Followed'
      BY <1>4, <2>2 DEF Followed
    <3> QED
      BY <1>1, <1>4, <2>2, <3>1, <3>2
      DEF DiskInv, KeyGoesLast, FollowedCovers, GoneIsSwapped, NothingStaged, Disks
  <2> QED
    BY <2>1, <2>2
<1>6. TypeOK'
  BY <1>1, <1>2, <1>4, Typed DEF TypeOK, spent, IInv
<1>7. StepInv'
  BY <1>1, <1>4, <1>5
  DEF StepInv, KeyByStep, JournalHeld, PlanCovers, NoSessionFollowed, LoopsCover, LeavesPlain,
      Preparing, Swapping, Leaving, Undoing, Cleaning, Opening
<1> QED
  BY <1>1, <1>5, <1>6, <1>7 DEF IInv

LEMMA QuitInv ==
    ASSUME IInv, Quit PROVE IInv'
<1>1. TypeOK /\ disk' = disk /\ Leave /\ DiskInv /\ disk \in Disks
      /\ UNCHANGED <<outcome, latest>>
  BY TypesAsRecord DEF IInv, Quit
<1>2. DiskInv'
  BY <1>1, SameDisk
<1> QED
  BY <1>1, <1>2, LeaveInv DEF Quit, spent, TypeOK

\* The disable begins: its journal covers every file that is not plain.
LEMMA StartInv ==
    ASSUME IInv, StartDisable PROVE IInv'
<1>1. /\ disk \in Disks /\ TypeOK /\ DiskInv /\ pc = "running" /\ ~Followed /\ KeyOpens
      /\ caller' = "disable" /\ UNCHANGED <<outcome, latest, kills>>
      /\ attempts' \in 0..MaxAttempts /\ attempts' = attempts + 1 /\ errors' \in 0..MaxErrors
  BY TypesAsRecord, BoundAssumption
  DEF IInv, StepInv, NoSessionFollowed, Opening, StartDisable, Unseen, TypeOK
<1>2. /\ mem' \in Journals /\ mem'.state = "staging"
      /\ UncoveredPlain(mem')
      /\ mem'.files \in Seq(Files)
  <2> DEFINE F == IF disk.live[Doc].form = "enc" THEN FileOrder ELSE <<Db>>
             X == [f \in Files |-> disk.live[f].ver]
  <2>1. mem' = [state |-> "staging", stamp |-> attempts + 1, files |-> F, expect |-> X]
    BY DEF StartDisable
  <2>2. F \in {<<>>, <<Db>>, <<Db, Doc>>}
    BY DEF FileOrder
  <2>3. X \in [Files -> 0..MaxSaves + 1]
    BY <1>1 DEF Disks, Contents
  <2>4. \A f \in Files \ Range(F) : disk.live[f].form = "plain"
    BY RangesOfFiles DEF FileOrder, Files, StartDisable
  <2> HIDE DEF F, X
  <2>5. mem' \in Journals /\ mem'.files = F
    BY <1>1, <2>1, <2>2, <2>3 DEF Journals
  <2> QED
    BY <2>1, <2>4, <2>5, JournalFiles DEF UncoveredPlain, Covered
<1>3. CASE /\ disk' = [disk EXCEPT !.journal = mem'] /\ Loop("backup", mem'.files)
           /\ UNCHANGED errors
  <2>1. pc' = "backup" /\ left' = mem'.files
    BY <1>3 DEF Loop
  <2>2. /\ disk' \in Disks /\ disk'.journal = mem' /\ KeyOpens' /\ disk'.live = disk.live
    BY <1>1, <1>2, <1>3, JournalChanges DEF KeyOpens, SameKey, SameLive
  <2>3. DiskInv' /\ ~Followed'
    BY <1>1, <1>2, <1>3, JournalKeeps
  <2>4. UncoveredPlain(mem)'
    BY <1>2, <2>2 DEF UncoveredPlain
  <2>5. StepInv'
    BY <1>2, <2>1, <2>2, <2>3, <2>4
    DEF StepInv, KeyByStep, JournalHeld, PlanCovers, NoSessionFollowed, LoopsCover, LeavesPlain,
        Preparing, Swapping, Leaving, Undoing, Cleaning, Opening
  <2>6. TypeOK'
    BY <1>1, <1>2, <2>1, <2>2, Typed DEF TypeOK
  <2> QED
    BY <1>2, <2>1, <2>3, <2>5, <2>6 DEF IInv
<1>4. CASE UNCHANGED disk /\ Goto("rbKey")
  <2>1. pc' = "rbKey" /\ left' = <<>> /\ disk' = disk
    BY <1>4 DEF Goto
  <2>2. DiskInv' /\ ~Followed'
    BY <1>1, <2>1, SameDisk
  <2>3. StepInv'
    BY <1>2, <2>1, <2>2
    DEF StepInv, KeyByStep, JournalHeld, PlanCovers, NoSessionFollowed, LoopsCover, LeavesPlain,
        Preparing, Swapping, Leaving, Undoing, Cleaning, Opening
  <2>4. TypeOK'
    BY <1>1, <1>2, <2>1, Typed, EmptyLoop DEF TypeOK
  <2> QED
    BY <2>1, <2>2, <2>3, <2>4, EmptyLoop DEF IInv
<1> QED
  BY <1>3, <1>4 DEF StartDisable

LEMMA BackupInv ==
    ASSUME NEW f \in Files, IInv, Backup(f) PROVE IInv'
<1>1. /\ disk \in Disks /\ TypeOK /\ DiskInv /\ pc = "backup" /\ pc' = "backup" /\ Quiet
      /\ KeyOpens /\ mem = disk.journal /\ mem.state = "staging" /\ UncoveredPlain(mem)
      /\ mem.stamp \in 0..MaxAttempts /\ disk.live[f] \in Contents
      /\ left \in Seq(Files) /\ left # <<>> /\ left' = Tail(left) /\ mem' = mem
      /\ disk' = [disk EXCEPT !.bak[mem.stamp][f] = disk.live[f]]
  BY TypesAsRecord
  DEF IInv, StepInv, KeyByStep, JournalHeld, PlanCovers, Preparing, Backup, At, Rest, Loop,
      Disks, TypeOK, Journals, Quiet, Inside
<1>2. /\ disk' \in Disks /\ disk'.journal = disk.journal /\ KeyOpens' /\ disk'.live = disk.live
  BY <1>1, BakChanges DEF KeyOpens, SameKey, SameLive, SameJournal
<1>3. DiskInv'
  BY <1>1, BakKeeps
<1>4. left' \in Seq(Files)
  BY <1>1, RestOfLoop
<1>5. UncoveredPlain(mem)'
  BY <1>1, <1>2 DEF UncoveredPlain
<1>6. StepInv'
  BY <1>1, <1>2, <1>5
  DEF StepInv, KeyByStep, JournalHeld, PlanCovers, NoSessionFollowed, LoopsCover, LeavesPlain,
      Preparing, Swapping, Leaving, Undoing, Cleaning, Opening
<1> QED
  BY <1>1, <1>2, <1>3, <1>4, <1>6, QuietTyped DEF IInv

LEMMA StageInv ==
    ASSUME NEW f \in Files, IInv, Stage(f) PROVE IInv'
<1>1. /\ disk \in Disks /\ TypeOK /\ DiskInv /\ pc = "stage" /\ pc' = "stage" /\ Quiet
      /\ KeyOpens /\ mem = disk.journal /\ mem.state = "staging" /\ UncoveredPlain(mem)
      /\ Plain(disk.live[f].ver) \in Contents
      /\ left \in Seq(Files) /\ left # <<>> /\ left' = Tail(left) /\ mem' = mem
      /\ disk' = [disk EXCEPT !.staged[f] = Plain(disk.live[f].ver)]
  BY TypesAsRecord, FormsOfContents
  DEF IInv, StepInv, KeyByStep, JournalHeld, PlanCovers, Preparing, Stage, At, Rest, Loop,
      Disks, Contents, Quiet, Inside
<1>2. /\ disk' \in Disks /\ disk'.journal = disk.journal /\ KeyOpens' /\ disk'.live = disk.live
  BY <1>1, StagedChanges DEF KeyOpens, SameKey, SameLive, SameJournal
<1>3. DiskInv'
  BY <1>1, StagedKeeps
<1>4. left' \in Seq(Files)
  BY <1>1, RestOfLoop
<1>5. UncoveredPlain(mem)'
  BY <1>1, <1>2 DEF UncoveredPlain
<1>6. StepInv'
  BY <1>1, <1>2, <1>5
  DEF StepInv, KeyByStep, JournalHeld, PlanCovers, NoSessionFollowed, LoopsCover, LeavesPlain,
      Preparing, Swapping, Leaving, Undoing, Cleaning, Opening
<1> QED
  BY <1>1, <1>2, <1>3, <1>4, <1>6, QuietTyped DEF IInv

\* The plan is committed while it covers every file that is not plain.
LEMMA CommitInv ==
    ASSUME IInv, Commit PROVE IInv'
<1>1. /\ disk \in Disks /\ TypeOK /\ DiskInv /\ pc = "commit" /\ pc' = "swap"
      /\ KeyOpens /\ mem \in Journals /\ UncoveredPlain(mem)
      /\ mem' = [mem EXCEPT !.state = "committing"] /\ left' = mem.files
      /\ disk' = [disk EXCEPT !.journal = mem']
      /\ UNCHANGED <<caller, spent, outcome, latest>>
  BY TypesAsRecord
  DEF IInv, StepInv, KeyByStep, PlanCovers, Preparing, Commit, Loop, TypeOK, Unseen
<1>2. /\ mem' \in Journals /\ mem'.state = "committing" /\ mem'.files = mem.files
      /\ Covered(mem') = Range(mem.files) /\ mem.files \in Seq(Files)
  <2>1. mem' \in Journals /\ mem'.state = "committing" /\ mem'.files = mem.files
    BY <1>1 DEF Journals
  <2> QED
    BY <1>1, <2>1, JournalFiles DEF Covered
<1>3. UncoveredPlain(mem')
  BY <1>1, <1>2 DEF UncoveredPlain, Covered
<1>4. /\ disk' \in Disks /\ disk'.journal = mem' /\ KeyOpens' /\ disk'.live = disk.live
      /\ disk'.staged = disk.staged
  BY <1>1, <1>2, JournalChanges DEF KeyOpens, SameKey, SameLive, SameStaged
<1>5. DiskInv'
  BY <1>1, <1>2, <1>3, JournalKeeps
<1>6. UncoveredPlain(mem)'
  BY <1>3, <1>4 DEF UncoveredPlain
<1>7. Range(left)' = Covered(mem)'
  BY <1>1, <1>2
<1>8. StepInv'
  BY <1>1, <1>2, <1>4, <1>6, <1>7
  DEF StepInv, KeyByStep, JournalHeld, PlanCovers, NoSessionFollowed, LoopsCover, LeavesPlain,
      Preparing, Swapping, Leaving, Undoing, Cleaning, Opening
<1>9. TypeOK'
  BY <1>1, <1>2, <1>4, Typed DEF TypeOK, spent
<1> QED
  BY <1>1, <1>2, <1>5, <1>8, <1>9 DEF IInv

\* A staged file is there to be swapped only while the key is.
LEMMA SwapInv ==
    ASSUME NEW f \in Files, IInv, SwapStaged(f) PROVE IInv'
<1>1. /\ disk \in Disks /\ TypeOK /\ DiskInv /\ pc = "swap" /\ pc' = "swap" /\ Quiet
      /\ mem = disk.journal /\ mem.state = "committing"
      /\ (caller = "disable" => KeyOpens) /\ (KeyOpens => UncoveredPlain(mem))
      /\ Range(left) \subseteq Covered(mem)
      /\ (\A g \in Covered(mem) \ Range(left) : disk.staged[g] = None)
      /\ left \in Seq(Files) /\ left # <<>> /\ f = Head(left) /\ left' = Tail(left)
      /\ mem' = mem /\ caller' = caller /\ Covered(mem) \subseteq Files
  BY TypesAsRecord, JournalFiles
  DEF IInv, StepInv, KeyByStep, JournalHeld, PlanCovers, LoopsCover, Preparing, Swapping,
      SwapStaged, At, Rest, Loop, Quiet, Inside, TypeOK
<1>2. /\ left' \in Seq(Files) /\ f \in Covered(mem) /\ Range(left') \subseteq Covered(mem)
      /\ Range(left) \subseteq Range(left') \cup {f}
  BY <1>1, RestOfLoop
<1>3. /\ disk' \in Disks /\ DiskInv' /\ KeyOpens' = KeyOpens /\ disk'.journal = disk.journal
      /\ (KeyOpens => UncoveredPlain(mem)')
      /\ disk'.staged[f] = None /\ \A g \in Files \ {f} : disk'.staged[g] = disk.staged[g]
  <2>1. CASE disk.staged[f] = None
    <3>1. disk' = disk
      BY <2>1 DEF SwapStaged
    <3> QED
      BY <1>1, <2>1, <3>1, SameDisk DEF KeyOpens, UncoveredPlain
  <2>2. CASE disk.staged[f] # None
    <3>1. KeyOpens
      BY <1>1, <1>2, <2>2 DEF DiskInv, GoneIsSwapped, NothingStaged
    <3>2. disk' = [disk EXCEPT !.live[f] = disk.staged[f], !.staged[f] = None]
      BY <2>2 DEF SwapStaged
    <3>3. disk.staged[f] \in Contents /\ None \in Contents
      BY <1>1, FormsOfContents DEF Disks
    <3>4. /\ disk' \in Disks /\ disk'.live = [disk.live EXCEPT ![f] = disk.staged[f]]
          /\ disk'.staged = [disk.staged EXCEPT ![f] = None]
          /\ SameBak /\ SameJournal /\ SameKey /\ SameMarker
      BY <1>1, <3>2, <3>3 DEF Disks, SameBak, SameJournal, SameKey, SameMarker
    <3>5. /\ disk.live \in [Files -> Contents] /\ disk.staged \in [Files -> Contents]
      BY <1>1 DEF Disks
    <3>6. KeyOpens' /\ Followed' = Followed
      BY <3>1, <3>4 DEF Followed, KeyOpens, BackupOf, SameBak, SameJournal, SameKey
    <3>7. UncoveredPlain(mem)'
      BY <1>1, <1>2, <3>1, <3>4, <3>5 DEF UncoveredPlain
    <3>8. DiskInv'
      BY <1>1, <3>4, <3>6, <3>7
      DEF DiskInv, KeyGoesLast, FollowedCovers, GoneIsSwapped, SameJournal
    <3> QED
      BY <1>1, <3>1, <3>4, <3>5, <3>6, <3>7, <3>8 DEF SameJournal
  <2> QED
    BY <2>1, <2>2
<1>4. \A g \in Covered(mem)' \ Range(left') : disk'.staged[g] = None
  BY <1>1, <1>2, <1>3
<1>5. StepInv'
  BY <1>1, <1>2, <1>3, <1>4
  DEF StepInv, KeyByStep, JournalHeld, PlanCovers, NoSessionFollowed, LoopsCover, LeavesPlain,
      Preparing, Swapping, Leaving, Undoing, Cleaning, Opening
<1> QED
  BY <1>1, <1>2, <1>3, <1>5, QuietTyped DEF IInv

\* What is as recorded is plain, and so is what the plan does not cover.
LEMMA CheckInv ==
    ASSUME IInv, Check PROVE IInv'
<1>1. /\ disk \in Disks /\ TypeOK /\ DiskInv /\ pc = "check" /\ Quiet /\ disk' = disk
      /\ mem = disk.journal /\ mem.state = "committing" /\ NothingStaged(mem)
      /\ (caller = "disable" => KeyOpens) /\ (KeyOpens => UncoveredPlain(mem))
      /\ left' = <<>> /\ mem' = mem /\ caller' = caller /\ caller \in {"disable", "boot"}
  BY TypesAsRecord
  DEF IInv, StepInv, KeyByStep, JournalHeld, PlanCovers, LoopsCover, Swapping,
      Check, Goto, Quiet, Inside, TypeOK
<1>2. DiskInv' /\ KeyOpens' = KeyOpens
  BY <1>1, SameDisk DEF KeyOpens
<1>3. PlainAsRecorded => AllLivePlain
  <2> SUFFICES ASSUME PlainAsRecorded, NEW f \in Files PROVE disk.live[f].form = "plain"
    BY DEF AllLivePlain
  <2>1. CASE f \in Covered(mem)
    <3>1. disk.live[f] = Plain(mem.expect[f])
      BY <2>1 DEF PlainAsRecorded
    <3>2. Plain(mem.expect[f]).form = "plain"
      BY DEF Plain
    <3> QED
      BY <3>1, <3>2
  <2>2. CASE f \notin Covered(mem)
    BY <1>1, <2>2 DEF DiskInv, KeyGoesLast, UncoveredPlain
  <2> QED
    BY <2>1, <2>2
<1>4. \/ pc' = "marker" /\ caller = "disable" /\ AllLivePlain
      \/ pc' = "fMarker" /\ AllLivePlain
      \/ pc' = "uMarker" /\ ~KeyOpens
      \/ pc' = "rbKey"
  <2>1. pc' = (CASE PlainAsRecorded -> IF caller = "disable" THEN "marker" ELSE "fMarker"
                 [] ~PlainAsRecorded /\ AllPlain /\ caller = "boot" /\ ~KeyOpens -> "uMarker"
                 [] OTHER -> "rbKey")
    BY DEF Check, Goto
  <2>2. CASE PlainAsRecorded
    BY <1>3, <2>1, <2>2
  <2>3. CASE ~PlainAsRecorded /\ AllPlain /\ caller = "boot" /\ ~KeyOpens
    BY <2>1, <2>3
  <2>4. CASE ~PlainAsRecorded /\ ~(AllPlain /\ caller = "boot" /\ ~KeyOpens)
    BY <2>1, <2>4
  <2> QED
    BY <2>2, <2>3, <2>4
<1>5. AllLivePlain' = AllLivePlain /\ NothingStaged(mem)'
  BY <1>1 DEF AllLivePlain, NothingStaged
<1>6. StepInv'
  BY <1>1, <1>2, <1>4, <1>5
  DEF StepInv, KeyByStep, JournalHeld, PlanCovers, NoSessionFollowed, LoopsCover, LeavesPlain,
      Preparing, Swapping, Leaving, Undoing, Cleaning, Opening
<1> QED
  BY <1>1, <1>2, <1>6, QuietTyped, EmptyLoop DEF IInv

LEMMA WriteMarkerInv ==
    ASSUME IInv, WriteMarker PROVE IInv'
<1>1. /\ disk \in Disks /\ TypeOK /\ DiskInv /\ pc = "marker" /\ pc' = "key" /\ Quiet
      /\ mem = disk.journal /\ mem.state = "committing" /\ NothingStaged(mem)
      /\ KeyOpens /\ AllLivePlain /\ left' = <<>> /\ mem' = mem
      /\ disk' = [disk EXCEPT !.marker = TRUE]
  BY TypesAsRecord
  DEF IInv, StepInv, KeyByStep, JournalHeld, LeavesPlain, LoopsCover, Leaving,
      WriteMarker, Goto, Quiet, Inside
<1>2. /\ disk' \in Disks /\ disk'.marker /\ disk'.journal = disk.journal
      /\ disk'.live = disk.live /\ disk'.staged = disk.staged /\ KeyOpens'
  BY <1>1, MarkerChanges DEF SameJournal, SameLive, SameStaged, SameKey, KeyOpens
<1>3. DiskInv'
  BY <1>1, MarkerKeeps
<1>4. AllLivePlain' /\ NothingStaged(mem)'
  BY <1>1, <1>2 DEF AllLivePlain, NothingStaged
<1>5. StepInv'
  BY <1>1, <1>2, <1>4
  DEF StepInv, KeyByStep, JournalHeld, PlanCovers, NoSessionFollowed, LoopsCover, LeavesPlain,
      Preparing, Swapping, Leaving, Undoing, Cleaning, Opening
<1> QED
  BY <1>1, <1>2, <1>3, <1>5, QuietTyped, EmptyLoop DEF IInv

LEMMA HoldKeyInv ==
    ASSUME IInv, HoldKey PROVE IInv'
<1>1. /\ disk \in Disks /\ TypeOK /\ DiskInv /\ pc = "key" /\ pc' = "fMarker" /\ Quiet
      /\ mem = disk.journal /\ mem.state = "committing" /\ NothingStaged(mem)
      /\ AllLivePlain /\ disk.marker /\ left' = <<>> /\ mem' = mem
      /\ disk' = [disk EXCEPT !.key = "held"]
  BY TypesAsRecord
  DEF IInv, StepInv, KeyByStep, JournalHeld, LeavesPlain, LoopsCover, Leaving,
      HoldKey, Goto, Quiet, Inside
<1>2. /\ disk' \in Disks /\ disk'.journal = disk.journal
      /\ disk'.live = disk.live /\ disk'.staged = disk.staged
  BY <1>1, KeyChanges DEF SameJournal, SameLive, SameStaged
<1>3. DiskInv'
  BY <1>1, KeyKeeps
<1>4. AllLivePlain' /\ NothingStaged(mem)'
  BY <1>1, <1>2 DEF AllLivePlain, NothingStaged
<1>5. StepInv'
  BY <1>1, <1>2, <1>4
  DEF StepInv, KeyByStep, JournalHeld, PlanCovers, NoSessionFollowed, LoopsCover, LeavesPlain,
      Preparing, Swapping, Leaving, Undoing, Cleaning, Opening
<1> QED
  BY <1>1, <1>2, <1>3, <1>5, QuietTyped, EmptyLoop DEF IInv

LEMMA BodyFailsInv ==
    ASSUME IInv, BodyFails PROVE IInv'
<1>1. /\ disk \in Disks /\ TypeOK /\ DiskInv /\ pc' = "rbKey" /\ left' = <<>>
      /\ mem = disk.journal /\ mem \in Journals /\ disk' = disk
      /\ UNCHANGED <<caller, outcome, latest>>
  BY TypesAsRecord
  DEF IInv, StepInv, JournalHeld, Preparing, Swapping, Leaving, BodyFails, Goto, Unseen, TypeOK
<1>2. mem' \in Journals /\ mem'.files = mem.files
  BY <1>1 DEF BodyFails, Journals
<1>3. DiskInv'
  BY <1>1, SameDisk
<1>4. StepInv'
  BY <1>1, <1>2
  DEF StepInv, KeyByStep, JournalHeld, PlanCovers, NoSessionFollowed, LoopsCover, LeavesPlain,
      Preparing, Swapping, Leaving, Undoing, Cleaning, Opening
<1>5. TypeOK'
  BY <1>1, <1>2, Typed, SpendTyped, EmptyLoop DEF TypeOK, BodyFails
<1> QED
  BY <1>1, <1>3, <1>4, <1>5, EmptyLoop DEF IInv

LEMMA RollbackNeedsKeyInv ==
    ASSUME IInv, RollbackNeedsKey PROVE IInv'
<1>1. /\ disk \in Disks /\ TypeOK /\ DiskInv /\ pc = "rbKey" /\ disk' = disk /\ mem \in Journals
      /\ (mem.state = "committing" =>
             disk.journal = NoJournal \/ disk.journal.files = mem.files)
      /\ UNCHANGED <<errors, kills, attempts, outcome, latest>>
  BY TypesAsRecord
  DEF IInv, StepInv, JournalHeld, RollbackNeedsKey, Unseen, TypeOK, spent
<1>2. DiskInv' /\ KeyOpens' = KeyOpens
  BY <1>1, SameDisk DEF KeyOpens
<1>3. CASE KeyOpens
  <2>1. pc' = "rbUnstage" /\ left' = mem.files /\ mem' = mem /\ caller' = caller
    BY <1>3 DEF RollbackNeedsKey, Loop, Inside
  <2>2. mem.files \in Seq(Files) /\ Range(mem.files) = Covered(mem)
    BY <1>1, JournalFiles DEF Covered
  <2>3. Range(left)' \subseteq Covered(mem)'
    BY <2>1, <2>2
  <2>4. StepInv'
    BY <1>1, <1>2, <1>3, <2>1, <2>3
    DEF StepInv, KeyByStep, JournalHeld, PlanCovers, NoSessionFollowed, LoopsCover, LeavesPlain,
      Preparing, Swapping, Leaving, Undoing, Cleaning, Opening
  <2>5. TypeOK'
    BY <1>1, <2>1, <2>2, Typed DEF TypeOK
  <2> QED
    BY <1>2, <2>1, <2>2, <2>4, <2>5 DEF IInv
<1>4. CASE ~KeyOpens
  BY <1>1, <1>2, <1>4, LeaveInv DEF RollbackNeedsKey, TypeOK
<1> QED
  BY <1>3, <1>4

LEMMA UnstageInv ==
    ASSUME NEW f \in Files, IInv, Unstage(f) PROVE IInv'
<1>1. /\ disk \in Disks /\ TypeOK /\ DiskInv /\ pc = "rbUnstage" /\ pc' = "rbRestore" /\ Quiet
      /\ KeyOpens /\ left \in Seq(Files) /\ left' = left /\ mem' = mem
      /\ Range(left) \subseteq Covered(mem) /\ None \in Contents
      /\ (mem.state = "committing" =>
             disk.journal = NoJournal \/ disk.journal.files = mem.files)
      /\ disk' = [disk EXCEPT !.staged[f] = None]
  BY TypesAsRecord, FormsOfContents
  DEF IInv, StepInv, KeyByStep, JournalHeld, LoopsCover, Undoing, Unstage, At, Loop, Quiet, Inside
<1>2. /\ disk' \in Disks /\ disk'.journal = disk.journal /\ KeyOpens'
  BY <1>1, StagedChanges DEF KeyOpens, SameKey, SameJournal
<1>3. DiskInv'
  BY <1>1, StagedKeeps
<1>4. Range(left)' \subseteq Covered(mem)'
  BY <1>1
<1>5. StepInv'
  BY <1>1, <1>2, <1>4
  DEF StepInv, KeyByStep, JournalHeld, PlanCovers, NoSessionFollowed, LoopsCover, LeavesPlain,
      Preparing, Swapping, Leaving, Undoing, Cleaning, Opening
<1> QED
  BY <1>1, <1>2, <1>3, <1>5, QuietTyped DEF IInv

LEMMA BackupTyped ==
    ASSUME disk \in Disks, NEW j \in Journals, NEW f \in Files
    PROVE  BackupOf(j, f) \in Contents
<1>1. disk.bak \in [0..MaxAttempts -> [Files -> Contents]]
  BY DEF Disks
<1>2. j.stamp \in 0..MaxAttempts
  BY DEF Journals
<1> QED
  BY <1>1, <1>2 DEF BackupOf

\* Rollback writes in place only what a journal still followed covers.
LEMMA RestoreKeeps ==
    ASSUME IInv, pc = "rbRestore", NEW f \in Files, At("rbRestore", f), Restorable(f),
           NEW c \in Contents, disk' = [disk EXCEPT !.live[f] = c]
    PROVE  DiskInv' /\ disk' \in Disks /\ disk'.journal = disk.journal /\ KeyOpens /\ KeyOpens'
<1>1. /\ disk \in Disks /\ DiskInv /\ KeyOpens /\ f \in Covered(mem)
      /\ (disk.journal = NoJournal \/ disk.journal.files = mem.files)
  <2>1. left \in Seq(Files) /\ left # <<>> /\ f = Head(left) /\ Range(left) \subseteq Covered(mem)
    BY DEF IInv, StepInv, LoopsCover, At
  <2> QED
    BY <2>1, TypesAsRecord, RestOfLoop
    DEF IInv, StepInv, KeyByStep, JournalHeld, Undoing, Restorable
<1>2. ~Followed \/ f \in Covered(disk.journal)
  BY <1>1 DEF Followed, NoJournal, Covered
<1>3. DiskInv'
  BY <1>1, <1>2, LiveKeeps
<1>4. /\ disk' \in Disks /\ disk'.journal = disk.journal /\ KeyOpens'
  BY <1>1, LiveChanges DEF KeyOpens, SameKey, SameJournal
<1> QED
  BY <1>1, <1>3, <1>4

LEMMA RestoreInv ==
    ASSUME NEW f \in Files, IInv, Restore(f) PROVE IInv'
<1>1. /\ disk \in Disks /\ TypeOK /\ DiskInv /\ pc = "rbRestore" /\ pc' = "rbUnstage" /\ Quiet
      /\ KeyOpens /\ left \in Seq(Files) /\ left # <<>> /\ left' = Tail(left) /\ mem' = mem
      /\ Range(left) \subseteq Covered(mem) /\ At("rbRestore", f) /\ mem \in Journals
      /\ (mem.state = "committing" =>
             disk.journal = NoJournal \/ disk.journal.files = mem.files)
      /\ disk' = IF Restorable(f) THEN [disk EXCEPT !.live[f] = BackupOf(mem, f)] ELSE disk
  BY TypesAsRecord
  DEF IInv, StepInv, KeyByStep, JournalHeld, LoopsCover, Undoing, Restore, At, Rest, Loop,
      Quiet, Inside, TypeOK
<1>2. BackupOf(mem, f) \in Contents
  BY <1>1, BackupTyped
<1>3. /\ DiskInv' /\ disk' \in Disks /\ disk'.journal = disk.journal /\ KeyOpens'
  <2>1. CASE Restorable(f)
    BY <1>1, <1>2, <2>1, RestoreKeeps
  <2>2. CASE ~Restorable(f)
    BY <1>1, <2>2, SameDisk DEF KeyOpens
  <2> QED
    BY <2>1, <2>2
<1>4. left' \in Seq(Files) /\ Range(left)' \subseteq Covered(mem)'
  BY <1>1, RestOfLoop
<1>5. StepInv'
  BY <1>1, <1>3, <1>4
  DEF StepInv, KeyByStep, JournalHeld, PlanCovers, NoSessionFollowed, LoopsCover, LeavesPlain,
      Preparing, Swapping, Leaving, Undoing, Cleaning, Opening
<1> QED
  BY <1>1, <1>3, <1>4, <1>5, QuietTyped DEF IInv

LEMMA RollbackCheckInv ==
    ASSUME IInv, RollbackCheck PROVE IInv'
<1>1. /\ disk \in Disks /\ TypeOK /\ DiskInv /\ pc = "rbUnstage" /\ disk' = disk /\ KeyOpens
      /\ (mem.state = "committing" =>
             disk.journal = NoJournal \/ disk.journal.files = mem.files)
      /\ UNCHANGED <<errors, kills, attempts, outcome, latest>>
  BY TypesAsRecord
  DEF IInv, StepInv, KeyByStep, JournalHeld, Undoing, RollbackCheck, Over, Unseen, spent
<1>2. DiskInv' /\ KeyOpens'
  BY <1>1, SameDisk DEF KeyOpens
<1>3. CASE Goto("rbMarker") /\ Inside
  <2>1. pc' = "rbMarker" /\ left' = <<>> /\ mem' = mem /\ caller' = caller
    BY <1>3 DEF Goto, Inside
  <2>2. StepInv'
    BY <1>1, <1>2, <2>1
    DEF StepInv, KeyByStep, JournalHeld, PlanCovers, NoSessionFollowed, LoopsCover, LeavesPlain,
      Preparing, Swapping, Leaving, Undoing, Cleaning, Opening
  <2>3. TypeOK'
    BY <1>1, <2>1, Typed, EmptyLoop DEF TypeOK
  <2> QED
    BY <1>2, <2>1, <2>2, <2>3, EmptyLoop DEF IInv
<1>4. CASE Leave
  BY <1>1, <1>2, <1>4, LeaveInv DEF TypeOK
<1> QED
  BY <1>3, <1>4 DEF RollbackCheck

LEMMA DropMarkerInv ==
    ASSUME IInv, DropMarker PROVE IInv'
<1>1. /\ disk \in Disks /\ TypeOK /\ DiskInv /\ pc = "rbMarker" /\ pc' = "rbBaks" /\ Quiet
      /\ KeyOpens /\ left' = mem.files /\ mem' = mem /\ mem \in Journals
      /\ (mem.state = "committing" =>
             disk.journal = NoJournal \/ disk.journal.files = mem.files)
      /\ disk' = [disk EXCEPT !.marker = FALSE]
  BY TypesAsRecord
  DEF IInv, StepInv, KeyByStep, JournalHeld, Undoing, DropMarker, Loop, Quiet, Inside, TypeOK
<1>2. /\ disk' \in Disks /\ disk'.journal = disk.journal /\ KeyOpens'
  BY <1>1, MarkerChanges DEF SameJournal, SameKey, KeyOpens
<1>3. DiskInv' /\ left' \in Seq(Files)
  BY <1>1, MarkerKeeps, JournalFiles
<1>4. StepInv'
  BY <1>1, <1>2
  DEF StepInv, KeyByStep, JournalHeld, PlanCovers, NoSessionFollowed, LoopsCover, LeavesPlain,
      Preparing, Swapping, Leaving, Undoing, Cleaning, Opening
<1> QED
  BY <1>1, <1>2, <1>3, <1>4, QuietTyped DEF IInv

LEMMA DropBackupInv ==
    ASSUME NEW p \in {"rbBaks", "fBaks"}, NEW f \in Files, IInv, DropBackup(p, f) PROVE IInv'
<1>1. /\ disk \in Disks /\ TypeOK /\ DiskInv /\ pc = p /\ pc' = p /\ Quiet
      /\ (p = "rbBaks" => KeyOpens) /\ (p = "fBaks" => ~KeyOpens)
      /\ left \in Seq(Files) /\ left # <<>> /\ left' = Tail(left) /\ mem' = mem
      /\ mem.stamp \in 0..MaxAttempts /\ None \in Contents
      /\ (p = "rbBaks" /\ mem.state = "committing" =>
             disk.journal = NoJournal \/ disk.journal.files = mem.files)
      /\ disk' = [disk EXCEPT !.bak[mem.stamp][f] = None]
  BY TypesAsRecord, FormsOfContents
  DEF IInv, StepInv, KeyByStep, JournalHeld, Undoing, Cleaning, DropBackup, At, Rest, Loop,
      Quiet, Inside, TypeOK, Journals
<1>2. /\ disk' \in Disks /\ disk'.journal = disk.journal /\ KeyOpens' = KeyOpens
  BY <1>1, BakChanges DEF SameJournal, SameKey, KeyOpens
<1>3. DiskInv' /\ left' \in Seq(Files)
  BY <1>1, BakKeeps, RestOfLoop
<1>4. StepInv'
  BY <1>1, <1>2
  DEF StepInv, KeyByStep, JournalHeld, PlanCovers, NoSessionFollowed, LoopsCover, LeavesPlain,
      Preparing, Swapping, Leaving, Undoing, Cleaning, Opening
<1> QED
  BY <1>1, <1>2, <1>3, <1>4, QuietTyped DEF IInv

\* Rollback and finish end alike: a relaunch, or the boot goes on to open the
\* camp, with nobody to follow the journal.
LEMMA ReturnInv ==
    ASSUME IInv, NEW what \in {"rolled_back", "completed"}, Return(what),
           disk' \in Disks, DiskInv', ~Followed',
           errors' \in 0..MaxErrors, kills' \in 0..MaxKills, attempts' \in 0..MaxAttempts
    PROVE  IInv'
<1>1. CASE caller = "disable"
  BY <1>1, LeaveInv DEF Return, IInv
<1>2. CASE caller # "disable"
  <2>1. pc' = "open" /\ left' = <<>> /\ mem' = mem /\ caller' = caller /\ outcome' = what
        /\ latest' = latest
    BY <1>2 DEF Return, Goto, Inside
  <2>2. StepInv'
    BY <2>1
    DEF StepInv, KeyByStep, JournalHeld, PlanCovers, NoSessionFollowed, LoopsCover, LeavesPlain,
      Preparing, Swapping, Leaving, Undoing, Cleaning, Opening
  <2>3. TypeOK'
    BY <2>1, Typed, EmptyLoop DEF TypeOK, IInv
  <2> QED
    BY <2>1, <2>2, <2>3, EmptyLoop DEF IInv
<1> QED
  BY <1>1, <1>2

LEMMA DropJournalInv ==
    ASSUME NEW p \in {"rbJournal", "fJournal"}, NEW what \in {"rolled_back", "completed"},
           IInv, DropJournal(p, what)
    PROVE  IInv'
<1>1. /\ disk \in Disks /\ TypeOK /\ DiskInv /\ disk' = [disk EXCEPT !.journal = NoJournal]
      /\ Return(what) /\ UNCHANGED <<errors, kills, attempts>> /\ NoJournal \in Journals
  BY TypesAsRecord, JournalFiles DEF IInv, DropJournal, spent
<1>2. disk' \in Disks /\ DiskInv' /\ ~Followed'
  BY <1>1, JournalChanges, JournalKeeps DEF NoJournal
<1> QED
  BY <1>1, <1>2, ReturnInv DEF TypeOK

LEMMA RollbackFailsInv ==
    ASSUME IInv, RollbackFails PROVE IInv'
<1>1. /\ disk \in Disks /\ TypeOK /\ DiskInv /\ Leave /\ UNCHANGED <<outcome, latest>>
      /\ errors' \in 0..MaxErrors /\ kills' \in 0..MaxKills /\ attempts' \in 0..MaxAttempts
  BY TypesAsRecord, SpendTyped DEF IInv, RollbackFails, Unseen
<1>2. DiskInv' /\ disk' \in Disks
  <2>1. CASE disk' = disk
    BY <1>1, <2>1, SameDisk
  <2>2. CASE \E f \in Files : /\ At("rbRestore", f) /\ Restorable(f)
                              /\ disk' = [disk EXCEPT !.live[f] = None]
    BY <2>2, RestoreKeeps, FormsOfContents DEF At
  <2> QED
    BY <2>1, <2>2 DEF RollbackFails
<1> QED
  BY <1>1, <1>2, LeaveInv

LEMMA FinishMarkerInv ==
    ASSUME IInv, FinishMarker PROVE IInv'
<1>1. /\ disk \in Disks /\ TypeOK /\ DiskInv /\ pc = "fMarker" /\ pc' = "fKey" /\ Quiet
      /\ mem = disk.journal /\ mem.state = "committing" /\ NothingStaged(mem)
      /\ AllLivePlain /\ left' = <<>> /\ mem' = mem
      /\ disk' = [disk EXCEPT !.marker = TRUE]
  BY TypesAsRecord
  DEF IInv, StepInv, JournalHeld, LeavesPlain, LoopsCover, Leaving,
      FinishMarker, Goto, Quiet, Inside
<1>2. /\ disk' \in Disks /\ disk'.marker /\ disk'.journal = disk.journal
      /\ disk'.live = disk.live /\ disk'.staged = disk.staged
  BY <1>1, MarkerChanges DEF SameJournal, SameLive, SameStaged
<1>3. DiskInv'
  BY <1>1, MarkerKeeps
<1>4. AllLivePlain' /\ NothingStaged(mem)'
  BY <1>1, <1>2 DEF AllLivePlain, NothingStaged
<1>5. StepInv'
  BY <1>1, <1>2, <1>4
  DEF StepInv, KeyByStep, JournalHeld, PlanCovers, NoSessionFollowed, LoopsCover, LeavesPlain,
      Preparing, Swapping, Leaving, Undoing, Cleaning, Opening
<1> QED
  BY <1>1, <1>2, <1>3, <1>5, QuietTyped, EmptyLoop DEF IInv

LEMMA FinishKeyInv ==
    ASSUME IInv, FinishKey PROVE IInv'
<1>1. /\ disk \in Disks /\ TypeOK /\ DiskInv /\ pc = "fKey" /\ pc' = "fZero" /\ Quiet
      /\ mem = disk.journal /\ NothingStaged(mem)
      /\ AllLivePlain /\ disk.marker /\ left' = <<>> /\ mem' = mem
      /\ disk' = [disk EXCEPT !.key = IF KeyOpens THEN "held" ELSE @]
  BY TypesAsRecord
  DEF IInv, StepInv, JournalHeld, LeavesPlain, LoopsCover, Leaving,
      FinishKey, Goto, Quiet, Inside
<1>2. \E k \in {"held", "zeroed", "gone"} : disk' = [disk EXCEPT !.key = k]
  BY <1>1 DEF KeyOpens, Disks
<1>3. disk' \in Disks /\ DiskInv' /\ ~KeyOpens'
  BY <1>1, <1>2, KeyChanges, KeyKeeps
<1>4. StepInv'
  BY <1>1, <1>3
  DEF StepInv, KeyByStep, JournalHeld, PlanCovers, NoSessionFollowed, LoopsCover, LeavesPlain,
      Preparing, Swapping, Leaving, Undoing, Cleaning, Opening
<1> QED
  BY <1>1, <1>3, <1>4, QuietTyped, EmptyLoop DEF IInv

\* Once the key is off its path, zeroing and unlinking it change nothing else.
LEMMA KeyStaysGone ==
    ASSUME disk \in Disks, DiskInv, ~KeyOpens, NEW k \in {"held", "zeroed", "gone"},
           disk' = [disk EXCEPT !.key = k]
    PROVE  disk' \in Disks /\ DiskInv' /\ ~KeyOpens' /\ ~Followed'
BY KeyChanges, KeyKeeps

LEMMA ZeroKeyInv ==
    ASSUME IInv, ZeroKey PROVE IInv'
<1>1. /\ disk \in Disks /\ TypeOK /\ DiskInv /\ pc = "fZero" /\ pc' = "fHeld" /\ Quiet
      /\ ~KeyOpens /\ left' = <<>> /\ mem' = mem
      /\ disk' = [disk EXCEPT !.key = IF @ = "held" THEN "zeroed" ELSE @]
  BY TypesAsRecord
  DEF IInv, StepInv, KeyByStep, Cleaning, ZeroKey, Goto, Quiet, Inside
<1>2. \E k \in {"held", "zeroed", "gone"} : disk' = [disk EXCEPT !.key = k]
  BY <1>1 DEF KeyOpens, Disks
<1>3. disk' \in Disks /\ DiskInv' /\ ~KeyOpens'
  BY <1>1, <1>2, KeyStaysGone
<1>4. StepInv'
  BY <1>1, <1>3
  DEF StepInv, KeyByStep, JournalHeld, PlanCovers, NoSessionFollowed, LoopsCover, LeavesPlain,
      Preparing, Swapping, Leaving, Undoing, Cleaning, Opening
<1> QED
  BY <1>1, <1>3, <1>4, QuietTyped, EmptyLoop DEF IInv

LEMMA UnlinkKeyInv ==
    ASSUME IInv, UnlinkKey PROVE IInv'
<1>1. /\ disk \in Disks /\ TypeOK /\ DiskInv /\ pc = "fHeld" /\ pc' = "fBaks" /\ Quiet
      /\ ~KeyOpens /\ left' = mem.files /\ mem' = mem /\ mem \in Journals
      /\ disk' = [disk EXCEPT !.key = "gone"]
  BY TypesAsRecord
  DEF IInv, StepInv, KeyByStep, Cleaning, UnlinkKey, Loop, Quiet, Inside, TypeOK
<1>2. disk' \in Disks /\ DiskInv' /\ ~KeyOpens' /\ left' \in Seq(Files)
  BY <1>1, KeyStaysGone, JournalFiles
<1>3. StepInv'
  BY <1>1, <1>2
  DEF StepInv, KeyByStep, JournalHeld, PlanCovers, NoSessionFollowed, LoopsCover, LeavesPlain,
      Preparing, Swapping, Leaving, Undoing, Cleaning, Opening
<1> QED
  BY <1>1, <1>2, <1>3, QuietTyped DEF IInv

LEMMA FinishThrowsInv ==
    ASSUME IInv, FinishThrows PROVE IInv'
<1>1. /\ disk \in Disks /\ TypeOK /\ DiskInv /\ Leave /\ UNCHANGED <<outcome, latest>>
      /\ disk' = disk
      /\ errors' \in 0..MaxErrors /\ kills' \in 0..MaxKills /\ attempts' \in 0..MaxAttempts
  BY TypesAsRecord, SpendTyped DEF IInv, FinishThrows, Unseen
<1> QED
  BY <1>1, SameDisk, LeaveInv

LEMMA FinishWarnsInv ==
    ASSUME IInv, FinishWarns PROVE IInv'
<1>1. /\ disk \in Disks /\ TypeOK /\ DiskInv /\ Return("completed") /\ ~KeyOpens
      /\ (disk' = disk \/ disk' = [disk EXCEPT !.key = "zeroed"])
      /\ errors' \in 0..MaxErrors /\ kills' \in 0..MaxKills /\ attempts' \in 0..MaxAttempts
  BY TypesAsRecord, SpendTyped
  DEF IInv, StepInv, KeyByStep, Cleaning, FinishWarns, At
<1>2. disk' \in Disks /\ DiskInv' /\ ~Followed'
  BY <1>1, SameDisk, KeyStaysGone DEF Followed
<1> QED
  BY <1>1, <1>2, ReturnInv

\* The boot that reads its journal takes it up only where it can be followed.
LEMMA BootInv ==
    ASSUME JournalUnread = FALSE, IInv, Boot PROVE IInv'
<1>1. /\ disk \in Disks /\ TypeOK /\ DiskInv /\ disk' = disk /\ caller = "boot" /\ mem \in Journals
      /\ disk.journal \in Journals /\ outcome' = "none"
      /\ UNCHANGED <<caller, latest, errors, kills, attempts>>
  BY TypesAsRecord DEF IInv, StepInv, KeyByStep, Boot, spent, TypeOK, Disks
<1>2. DiskInv' /\ Followed' = Followed /\ KeyOpens' = KeyOpens
  BY <1>1, SameDisk DEF KeyOpens
<1>3. Followed => disk.journal # NoJournal /\ ~Untrusted /\ disk.journal.state = "committing"
  BY DEF Followed, Untrusted, NoJournal
<1>4. /\ mem' \in Journals /\ left' \in Seq(Files) /\ StepInv'
  <2>1. CASE disk.journal = NoJournal /\ Goto("open") /\ UNCHANGED mem
    BY <1>1, <1>2, <1>3, <2>1, EmptyLoop
    DEF Goto, StepInv, KeyByStep, JournalHeld, PlanCovers, NoSessionFollowed, LoopsCover,
        LeavesPlain, Preparing, Swapping, Leaving, Undoing, Cleaning, Opening
  <2>2. CASE Untrusted /\ Loop("discard", FileOrder) /\ UNCHANGED mem
    <3>1. FileOrder \in Seq(Files)
      BY DEF FileOrder, Files
    <3> QED
      BY <1>1, <1>2, <1>3, <2>2, <3>1
      DEF Loop, StepInv, KeyByStep, JournalHeld, PlanCovers, NoSessionFollowed, LoopsCover,
          LeavesPlain, Preparing, Swapping, Leaving, Undoing, Cleaning, Opening
  <2>3. CASE Goto("rbKey") /\ mem' = disk.journal
    BY <1>1, <1>2, <2>3, EmptyLoop
    DEF Goto, StepInv, KeyByStep, JournalHeld, PlanCovers, NoSessionFollowed, LoopsCover,
        LeavesPlain, Preparing, Swapping, Leaving, Undoing, Cleaning, Opening
  <2>4. CASE /\ disk.journal.state = "committing" /\ ~Untrusted
             /\ Loop("swap", disk.journal.files) /\ mem' = disk.journal
    <3>1. /\ pc' = "swap" /\ left' = disk.journal.files /\ mem' = disk'.journal
          /\ mem'.state = "committing" /\ left' \in Seq(Files)
      BY <1>1, <2>4, JournalFiles DEF Loop
    <3>2. Range(left)' = Covered(mem)'
      BY <1>1, <3>1 DEF Covered
    <3>3. KeyOpens => Followed
      BY <2>4 DEF Followed, Untrusted
    <3>4. KeyOpens' => UncoveredPlain(mem)'
      BY <1>1, <1>2, <3>1, <3>3 DEF DiskInv, FollowedCovers
    <3>5. StepInv'
      BY <1>1, <1>2, <3>1, <3>2, <3>4
      DEF StepInv, KeyByStep, JournalHeld, PlanCovers, NoSessionFollowed, LoopsCover,
          LeavesPlain, Preparing, Swapping, Leaving, Undoing, Cleaning, Opening
    <3> QED
      BY <1>1, <3>1, <3>5
  <2> QED
    BY <2>1, <2>2, <2>3, <2>4 DEF Boot
<1>5. TypeOK'
  BY <1>1, <1>4, Typed DEF TypeOK
<1> QED
  BY <1>2, <1>4, <1>5 DEF IInv

LEMMA DiscardInv ==
    ASSUME NEW f \in Files, IInv, Discard(f) PROVE IInv'
<1>1. /\ disk \in Disks /\ TypeOK /\ DiskInv /\ pc = "discard" /\ pc' = "discard" /\ ~Followed
      /\ left \in Seq(Files) /\ left # <<>> /\ left' = Tail(left)
      /\ (disk' = disk \/ disk' = [disk EXCEPT !.staged[f] = None]) /\ None \in Contents
      /\ UNCHANGED <<mem, caller, outcome, latest>>
      /\ errors' \in 0..MaxErrors /\ kills' \in 0..MaxKills /\ attempts' \in 0..MaxAttempts
  BY TypesAsRecord, SpendTyped, FormsOfContents
  DEF IInv, StepInv, NoSessionFollowed, Opening, Discard, At, Rest, Loop, Inside, Unseen,
      spent, TypeOK
<1>2. disk' \in Disks /\ DiskInv' /\ ~Followed'
  <2>1. CASE disk' = disk
    BY <1>1, <2>1, SameDisk
  <2>2. CASE disk' = [disk EXCEPT !.staged[f] = None]
    BY <1>1, <2>2, StagedChanges, StagedKeeps
  <2> QED
    BY <1>1, <2>1, <2>2
<1>3. left' \in Seq(Files)
  BY <1>1, RestOfLoop
<1>4. StepInv'
  BY <1>1, <1>2
  DEF StepInv, KeyByStep, JournalHeld, PlanCovers, NoSessionFollowed, LoopsCover, LeavesPlain,
      Preparing, Swapping, Leaving, Undoing, Cleaning, Opening
<1>5. TypeOK'
  BY <1>1, <1>2, <1>3, Typed DEF TypeOK
<1> QED
  BY <1>2, <1>3, <1>4, <1>5 DEF IInv

LEMMA SetJournalAsideInv ==
    ASSUME IInv, SetJournalAside PROVE IInv'
<1>1. /\ disk \in Disks /\ TypeOK /\ DiskInv /\ pc = "aside" /\ pc' = "open" /\ ~Followed
      /\ left' = <<>> /\ NoJournal \in Journals
      /\ (disk' = disk \/ disk' = [disk EXCEPT !.journal = NoJournal])
      /\ UNCHANGED <<mem, caller, latest>> /\ outcome' = "unreadable_journal"
      /\ errors' \in 0..MaxErrors /\ kills' \in 0..MaxKills /\ attempts' \in 0..MaxAttempts
  BY TypesAsRecord, SpendTyped, JournalFiles
  DEF IInv, StepInv, NoSessionFollowed, Opening, SetJournalAside, Goto, Inside, spent, TypeOK
<1>2. disk' \in Disks /\ DiskInv' /\ ~Followed'
  BY <1>1, SameDisk, JournalChanges, JournalKeeps DEF NoJournal
<1>3. StepInv'
  BY <1>1, <1>2
  DEF StepInv, KeyByStep, JournalHeld, PlanCovers, NoSessionFollowed, LoopsCover, LeavesPlain,
      Preparing, Swapping, Leaving, Undoing, Cleaning, Opening
<1>4. TypeOK'
  BY <1>1, <1>2, Typed, EmptyLoop DEF TypeOK
<1> QED
  BY <1>1, <1>2, <1>3, <1>4, EmptyLoop DEF IInv

LEMMA BootFailsInv ==
    ASSUME IInv, BootFails PROVE IInv'
<1>1. /\ disk \in Disks /\ TypeOK /\ DiskInv /\ disk' = disk /\ mem = disk.journal
      /\ (pc' = "rbKey" \/ (pc' = "uMarker" /\ ~KeyOpens)) /\ left' = <<>>
      /\ UNCHANGED <<mem, caller, outcome, latest>>
      /\ errors' \in 0..MaxErrors /\ kills' \in 0..MaxKills /\ attempts' \in 0..MaxAttempts
  BY TypesAsRecord, SpendTyped
  DEF IInv, StepInv, JournalHeld, Swapping, BootFails, Goto, Inside, Unseen
<1>2. DiskInv' /\ KeyOpens' = KeyOpens
  BY <1>1, SameDisk DEF KeyOpens
<1>3. StepInv'
  BY <1>1, <1>2
  DEF StepInv, KeyByStep, JournalHeld, PlanCovers, NoSessionFollowed, LoopsCover, LeavesPlain,
      Preparing, Swapping, Leaving, Undoing, Cleaning, Opening
<1>4. TypeOK'
  BY <1>1, Typed, EmptyLoop DEF TypeOK
<1> QED
  BY <1>1, <1>2, <1>3, <1>4, EmptyLoop DEF IInv

LEMMA KeepUnverifiedInv ==
    ASSUME IInv, KeepUnverified PROVE IInv'
<1>1. /\ disk \in Disks /\ TypeOK /\ DiskInv /\ pc = "uMarker" /\ pc' = "open" /\ ~KeyOpens
      /\ left' = <<>> /\ disk' = [disk EXCEPT !.marker = TRUE]
      /\ UNCHANGED <<mem, caller, latest, errors, kills, attempts>>
      /\ outcome' = "unverified_plain"
  BY TypesAsRecord
  DEF IInv, StepInv, KeyByStep, KeepUnverified, Goto, Inside, spent
<1>2. disk' \in Disks /\ DiskInv' /\ ~Followed'
  BY <1>1, MarkerChanges, MarkerKeeps DEF Followed
<1>3. StepInv'
  BY <1>1, <1>2
  DEF StepInv, KeyByStep, JournalHeld, PlanCovers, NoSessionFollowed, LoopsCover, LeavesPlain,
      Preparing, Swapping, Leaving, Undoing, Cleaning, Opening
<1>4. TypeOK'
  BY <1>1, <1>2, Typed, EmptyLoop DEF TypeOK
<1> QED
  BY <1>1, <1>2, <1>3, <1>4, EmptyLoop DEF IInv

LEMMA OpenCampInv ==
    ASSUME IInv, OpenCamp PROVE IInv'
<1>1. /\ disk \in Disks /\ TypeOK /\ DiskInv /\ pc = "open" /\ pc' = "running" /\ ~Followed
      /\ left' = <<>> /\ mem' = NoJournal /\ NoJournal \in Journals /\ Db \in Files
      /\ UNCHANGED <<caller, outcome, latest, errors, kills, attempts>>
  BY TypesAsRecord, JournalFiles
  DEF IInv, StepInv, NoSessionFollowed, Opening, OpenCamp, Goto, Unseen, spent, Files
<1>2. \/ disk' = disk
      \/ KeyOpens /\ \E c \in Contents : disk' = [disk EXCEPT !.live[Db] = c]
  <2> DEFINE c == [disk.live[Db] EXCEPT !.form = "enc"]
  <2>1. c \in Contents /\ Enc(0) \in Contents
    <3>1. disk.live[Db] \in Contents
      BY <1>1 DEF Disks
    <3>2. c \in Contents
      BY <3>1 DEF Contents, Forms
    <3>3. 0 \in 0..MaxSaves + 1
      BY BoundAssumption
    <3> QED
      BY <3>2, <3>3, FormsOfContents
  <2>2. [disk EXCEPT !.live[Db].form = "enc"] = [disk EXCEPT !.live[Db] = c]
    OBVIOUS
  <2> HIDE DEF c
  <2> QED
    BY <2>1, <2>2 DEF OpenCamp
<1>3. disk' \in Disks /\ DiskInv' /\ ~Followed'
  <2>1. CASE disk' = disk
    BY <1>1, <2>1, SameDisk
  <2>2. ASSUME KeyOpens, NEW c \in Contents, disk' = [disk EXCEPT !.live[Db] = c]
        PROVE  disk' \in Disks /\ DiskInv' /\ ~Followed'
    BY <1>1, <2>2, LiveChanges, LiveKeeps
  <2> QED
    BY <1>2, <2>1, <2>2
<1>4. StepInv'
  BY <1>1, <1>3
  DEF StepInv, KeyByStep, JournalHeld, PlanCovers, NoSessionFollowed, LoopsCover, LeavesPlain,
      Preparing, Swapping, Leaving, Undoing, Cleaning, Opening
<1>5. TypeOK'
  BY <1>1, <1>3, Typed, EmptyLoop DEF TypeOK
<1> QED
  BY <1>1, <1>3, <1>4, <1>5, EmptyLoop DEF IInv

LEMMA LoopEndsInv ==
    ASSUME IInv, LoopEnds PROVE IInv'
<1>1. /\ disk \in Disks /\ TypeOK /\ DiskInv /\ disk' = disk /\ Quiet /\ left = <<>>
      /\ UNCHANGED <<mem, caller>> /\ mem \in Journals /\ StepInv
  BY TypesAsRecord DEF IInv, LoopEnds, Over, Quiet, Inside, TypeOK
<1>2. DiskInv' /\ Followed' = Followed /\ KeyOpens' = KeyOpens
  BY <1>1, SameDisk DEF KeyOpens
<1>3. /\ left' \in Seq(Files)
      /\ \/ pc = "backup" /\ pc' = "stage"
         \/ pc = "stage" /\ pc' = "commit"
         \/ pc = "swap" /\ pc' = "check"
         \/ pc = "rbBaks" /\ pc' = "rbJournal"
         \/ pc = "fBaks" /\ pc' = "fJournal"
         \/ pc = "discard" /\ pc' = "aside"
  BY <1>1, JournalFiles, EmptyLoop DEF LoopEnds, Over, Loop, Goto
<1>4. UncoveredPlain(mem)' = UncoveredPlain(mem) /\ NothingStaged(mem)' = NothingStaged(mem)
  BY <1>1 DEF UncoveredPlain, NothingStaged
<1>5. pc = "swap" => NothingStaged(mem)
  BY <1>1, EmptyLoop DEF StepInv, LoopsCover, NothingStaged
<1>6. StepInv'
  BY <1>1, <1>2, <1>3, <1>4, <1>5
  DEF StepInv, KeyByStep, JournalHeld, PlanCovers, NoSessionFollowed, LoopsCover, LeavesPlain,
      Preparing, Swapping, Leaving, Undoing, Cleaning, Opening
<1> QED
  BY <1>1, <1>2, <1>3, <1>6, QuietTyped DEF IInv

\* A kill leaves a promise as good as the one it found: what was half written
\* is a copy nobody relies on yet, or a file that rollback restores again.
LEMMA KillInv ==
    ASSUME IInv, Kill PROVE IInv'
<1>1. /\ disk \in Disks /\ TypeOK /\ DiskInv /\ Leave /\ UNCHANGED <<outcome, latest>>
      /\ errors' \in 0..MaxErrors /\ kills' \in 0..MaxKills /\ attempts' \in 0..MaxAttempts
      /\ mem \in Journals /\ mem.stamp \in 0..MaxAttempts
      /\ disk' \in {disk} \cup HalfWritten
  <2>1. kills' \in 0..MaxKills /\ errors' \in 0..MaxErrors /\ attempts' \in 0..MaxAttempts
    BY BoundAssumption DEF IInv, Kill, TypeOK
  <2>2. mem \in Journals /\ mem.stamp \in 0..MaxAttempts
    BY DEF IInv, TypeOK, Journals
  <2> QED
    BY <2>1, <2>2, TypesAsRecord DEF IInv, Kill, Unseen
<1>2. ASSUME NEW f \in Files
      PROVE  /\ disk.live[f] \in Contents /\ Torn(disk.live[f]) \subseteq Contents
             /\ Torn(Plain(0)) \subseteq Contents
             /\ BackupOf(mem, f) \in Contents /\ Torn(BackupOf(mem, f)) \subseteq Contents
  <2>1. disk.live[f] \in Contents /\ BackupOf(mem, f) \in Contents
    BY <1>1, BackupTyped DEF Disks
  <2>2. Plain(0) \in Contents
    BY FormsOfContents, BoundAssumption
  <2> QED
    BY <2>1, <2>2, TornContents
<1>3. DiskInv' /\ disk' \in Disks
  <2>1. CASE disk' = disk
    BY <1>1, <2>1, SameDisk
  <2>2. ASSUME NEW f \in Files, At("backup", f), NEW c \in Contents,
               disk' = [disk EXCEPT !.bak[mem.stamp][f] = c]
        PROVE  DiskInv' /\ disk' \in Disks
    <3>1. disk.journal.state = "staging"
      BY <2>2 DEF IInv, StepInv, JournalHeld, Preparing, At
    <3> QED
      BY <1>1, <2>2, <3>1, BakKeeps, BakChanges
  <2>3. ASSUME NEW f \in Files, At("stage", f), NEW c \in Contents,
               disk' = [disk EXCEPT !.staged[f] = c]
        PROVE  DiskInv' /\ disk' \in Disks
    <3>1. KeyOpens
      BY <2>3 DEF IInv, StepInv, KeyByStep, Preparing, At
    <3> QED
      BY <1>1, <2>3, <3>1, StagedKeeps, StagedChanges
  <2>4. ASSUME NEW f \in Files, At("rbRestore", f), Restorable(f), NEW c \in Contents,
               disk' = [disk EXCEPT !.live[f] = c]
        PROVE  DiskInv' /\ disk' \in Disks
    BY <2>4, RestoreKeeps DEF At
  <2>5. CASE disk' \in HalfWritten
    <3> DEFINE B(f) == IF At("backup", f) THEN Torn(disk.live[f]) ELSE {}
               S(f) == IF At("stage", f)
                       THEN {disk.live[f]} \cup Torn(disk.live[f]) \cup Torn(Plain(0)) ELSE {}
               L(f) == IF ~(At("rbRestore", f) /\ Restorable(f)) THEN {}
                       ELSE IF RestoreTears THEN Torn(BackupOf(mem, f)) ELSE {Empty}
    <3>1. HalfWritten = UNION {
              {[disk EXCEPT !.bak[mem.stamp][f] = c] : c \in B(f)}
              \cup {[disk EXCEPT !.staged[f] = c] : c \in S(f)}
              \cup {[disk EXCEPT !.live[f] = c] : c \in L(f)} : f \in Files}
      BY DEF HalfWritten
    <3>2. \A f \in Files : /\ B(f) # {} => At("backup", f)
                           /\ S(f) # {} => At("stage", f)
                           /\ L(f) # {} => At("rbRestore", f) /\ Restorable(f)
                           /\ B(f) \cup S(f) \cup L(f) \subseteq Contents
      BY <1>2, FormsOfContents
    <3> HIDE DEF B, S, L
    <3>3. PICK f \in Files :
             \/ \E c \in B(f) : disk' = [disk EXCEPT !.bak[mem.stamp][f] = c]
             \/ \E c \in S(f) : disk' = [disk EXCEPT !.staged[f] = c]
             \/ \E c \in L(f) : disk' = [disk EXCEPT !.live[f] = c]
      BY <2>5, <3>1
    <3> QED
      BY <2>2, <2>3, <2>4, <3>2, <3>3
  <2> QED
    BY <1>1, <2>1, <2>5
<1> QED
  BY <1>1, <1>3, LeaveInv

-----------------------------------------------------------------------------
(* The theorems.                                                           *)

LEMMA ProceedInv ==
    ASSUME JournalUnread = FALSE, IInv, Proceed PROVE IInv'
<1>1. CASE \E f \in Files :
             \/ Backup(f) \/ Stage(f) \/ SwapStaged(f)
             \/ Unstage(f) \/ Restore(f) \/ DropBackup("rbBaks", f)
             \/ DropBackup("fBaks", f) \/ Discard(f)
  BY <1>1, BackupInv, StageInv, SwapInv, UnstageInv, RestoreInv, DropBackupInv, DiscardInv
<1>2. CASE \/ Commit \/ Check \/ WriteMarker \/ HoldKey
           \/ RollbackNeedsKey \/ RollbackCheck \/ DropMarker
           \/ DropJournal("rbJournal", "rolled_back")
  BY <1>2, CommitInv, CheckInv, WriteMarkerInv, HoldKeyInv, RollbackNeedsKeyInv,
     RollbackCheckInv, DropMarkerInv, DropJournalInv
<1>3. CASE \/ FinishMarker \/ FinishKey \/ ZeroKey \/ UnlinkKey
           \/ DropJournal("fJournal", "completed")
           \/ Boot \/ SetJournalAside \/ KeepUnverified \/ OpenCamp
           \/ LoopEnds
  BY <1>3, FinishMarkerInv, FinishKeyInv, ZeroKeyInv, UnlinkKeyInv, DropJournalInv, BootInv,
     SetJournalAsideInv, KeepUnverifiedInv, OpenCampInv, LoopEndsInv
<1> QED
  BY <1>1, <1>2, <1>3 DEF Proceed

LEMMA Inductive ==
    ASSUME JournalUnread = FALSE, IInv, [Next]_vars PROVE IInv'
<1>1. CASE UNCHANGED vars
  <2>1. /\ disk' = disk /\ pc' = pc /\ left' = left /\ mem' = mem /\ caller' = caller
        /\ outcome' = outcome /\ latest' = latest /\ errors' = errors /\ kills' = kills
        /\ attempts' = attempts
    BY <1>1 DEF vars, spent
  <2>2. TypeOK' /\ DiskInv'
    BY <2>1, SameDisk DEF IInv, TypeOK
  <2>3. StepInv'
    BY <2>1
    DEF IInv, StepInv, KeyByStep, JournalHeld, PlanCovers, NoSessionFollowed, LoopsCover,
        LeavesPlain, Preparing, Swapping, Leaving, Undoing, Cleaning, Opening, KeyOpens, Followed,
        BackupOf, UncoveredPlain, NothingStaged, AllLivePlain, Covered
  <2> QED
    BY <2>1, <2>2, <2>3 DEF IInv
<1>2. CASE Proceed
  BY <1>2, ProceedInv
<1>3. CASE StartDisable \/ Quit \/ \E f \in Files : Save(f)
  BY <1>3, StartInv, QuitInv, SaveInv
<1>4. CASE BodyFails \/ RollbackFails \/ FinishThrows \/ FinishWarns \/ BootFails \/ Kill
  BY <1>4, BodyFailsInv, RollbackFailsInv, FinishThrowsInv, FinishWarnsInv, BootFailsInv, KillInv
<1> QED
  BY <1>1, <1>2, <1>3, <1>4 DEF Next

\* Every variable keeps its type while the journal can be read.
THEOREM TypeCorrect == JournalUnread = FALSE => (Spec => []TypeOK)
<1> SUFFICES ASSUME JournalUnread = FALSE PROVE Spec => []TypeOK
  OBVIOUS
<1>1. Init => IInv
  BY InitInv
<1>2. IInv /\ [Next]_vars => IInv'
  BY Inductive
<1>3. IInv => TypeOK
  BY DEF IInv
<1> QED
  BY <1>1, <1>2, <1>3, PTL DEF Spec

\* However often it is killed, fails, starts again and saves in between, a
\* device whose journal can be read moves the key off its path only when every
\* file is plain and the marker is there (disableRecovery.js finishDisable).
THEOREM KeyLast == JournalUnread = FALSE => (Spec => []KeyGoesLast)
<1> SUFFICES ASSUME JournalUnread = FALSE PROVE Spec => []KeyGoesLast
  OBVIOUS
<1>1. Init => IInv
  BY InitInv
<1>2. IInv /\ [Next]_vars => IInv'
  BY Inductive
<1>3. IInv => KeyGoesLast
  BY DEF IInv, DiskInv
<1> QED
  BY <1>1, <1>2, <1>3, PTL DEF Spec

-----------------------------------------------------------------------------
(* What was last saved, through the switch.                                *)

\* Content c is the whole of version v, in a form some session opens.
Whole(c, v) == c \in {Enc(v), Plain(v)}
LiveWhole == \A f \in Files : Whole(disk.live[f], latest[f])

NoNewer ==
    \A f \in Files :
        /\ disk.live[f].ver <= latest[f] /\ disk.staged[f].ver <= latest[f]
        /\ \A i \in 0..MaxAttempts : disk.bak[i][f].ver <= latest[f]

UnfollowedWhole == ~Followed => LiveWhole

\* A covered file, while the journal is followed: whatever is at its path, its
\* backup is what was last saved, and what is staged or recorded is the same.
Covering(f) ==
    /\ BackupOf(disk.journal, f) = Enc(latest[f])
    /\ disk.staged[f] \in {None, Plain(latest[f])}
    /\ disk.live[f] \in {None, Empty, Enc(latest[f]), Plain(latest[f])}
    /\ disk.journal.expect[f] = latest[f]

FollowedCopies ==
    Followed => /\ \A f \in Files \ Covered(disk.journal) : Whole(disk.live[f], latest[f])
                /\ \A f \in Covered(disk.journal) : Covering(f)

StagingEncrypted ==
    disk.journal.state = "staging" =>
        \A f \in Covered(disk.journal) : /\ disk.live[f] = Enc(latest[f])
                                         /\ disk.journal.expect[f] = latest[f]

DiskSaved == NoNewer /\ UnfollowedWhole /\ FollowedCopies /\ StagingEncrypted

\* What the preparing loops have passed holds what was last saved.
BackedUp(f) == BackupOf(mem, f) = Enc(latest[f])
StagedPlain(f) == disk.staged[f] = Plain(latest[f])
CopiesMade ==
    /\ pc = "backup" => \A f \in Covered(mem) \ Range(left) : BackedUp(f)
    /\ pc \in {"stage", "commit"} => \A f \in Covered(mem) : BackedUp(f)
    /\ pc = "stage" => \A f \in Covered(mem) \ Range(left) : StagedPlain(f)
    /\ pc = "commit" => \A f \in Covered(mem) : StagedPlain(f)

\* No backup is dropped, and no key, before every file is whole.
Keeping == {"rbMarker", "rbBaks", "rbJournal"}
WholeByStep == pc \in Leaving \cup Keeping => LiveWhole

\* A swap follows the journal, and a rollback that restores undoes one that is
\* followed, or one that was about to be.
FollowedByStep ==
    /\ pc \in Swapping \cup {"marker", "key"} /\ KeyOpens => Followed
    /\ pc \in {"rbKey", "rbUnstage", "rbRestore"} /\ KeyOpens =>
          \/ mem.state # "committing" /\ ~Followed
          \/ /\ mem.state = "committing"
             /\ mem.files = disk.journal.files /\ mem.stamp = disk.journal.stamp
             /\ disk.journal.state = "staging" \/ Followed

NoStagingOpened ==
    pc \in Opening \cup Cleaning \cup {"uMarker"} => disk.journal.state # "staging"

StepSaved == CopiesMade /\ WholeByStep /\ FollowedByStep /\ NoStagingOpened

SavedInv == DiskSaved /\ StepSaved

LEMMA FormsDiffer ==
    /\ None.ver = 0 /\ Empty.ver = 0 /\ None.form = "none" /\ Empty.form = "empty"
    /\ \A v : /\ Enc(v).form = "enc" /\ Enc(v).ver = v
              /\ Plain(v).form = "plain" /\ Plain(v).ver = v
    /\ \A c, v : Whole(c, v) => c.form \in {"enc", "plain"} /\ c.ver = v
BY DEF None, Empty, Enc, Plain, Whole

LEMMA VersionsTyped ==
    ASSUME TypeOK
    PROVE  /\ disk.live \in [Files -> Contents] /\ disk.staged \in [Files -> Contents]
           /\ disk.bak \in [0..MaxAttempts -> [Files -> Contents]]
           /\ disk.journal \in Journals /\ mem \in Journals
           /\ disk.journal.stamp \in 0..MaxAttempts /\ mem.stamp \in 0..MaxAttempts
           /\ Covered(disk.journal) \subseteq Files /\ Covered(mem) \subseteq Files
           /\ latest \in [Files -> 1..MaxSaves + 1]
           /\ \A f \in Files : latest[f] \in Nat /\ latest[f] >= 1
<1>1. disk \in Disks /\ mem \in Journals /\ latest \in [Files -> 1..MaxSaves + 1]
  BY TypesAsRecord DEF TypeOK
<1>2. disk.journal \in Journals
  BY <1>1 DEF Disks
<1>3. disk.journal.stamp \in 0..MaxAttempts /\ mem.stamp \in 0..MaxAttempts
  BY <1>1, <1>2 DEF Journals
<1>4. \A f \in Files : latest[f] \in Nat /\ latest[f] >= 1
  BY <1>1, BoundAssumption
<1> QED
  BY <1>1, <1>2, <1>3, <1>4, JournalFiles DEF Disks

-----------------------------------------------------------------------------
(* What each change of the disk leaves of what was saved.                  *)

LEMMA SameSaves ==
    ASSUME DiskSaved, disk' = disk, latest' = latest
    PROVE  DiskSaved' /\ Followed' = Followed /\ LiveWhole' = LiveWhole
BY DEF DiskSaved, NoNewer, UnfollowedWhole, FollowedCopies, StagingEncrypted, Covering,
       LiveWhole, Followed, KeyOpens, BackupOf

\* Nobody follows the journal, or the file is one it covers.
LEMMA LiveSaves ==
    ASSUME TypeOK, DiskSaved, latest' = latest, NEW f \in Files, NEW c \in Contents,
           disk' = [disk EXCEPT !.live[f] = c], disk.journal.state # "staging",
           \/ ~Followed /\ Whole(c, latest[f])
           \/ /\ Followed /\ f \in Covered(disk.journal)
              /\ c \in {None, Empty, Enc(latest[f]), Plain(latest[f])}
    PROVE  DiskSaved' /\ Followed' = Followed
<1>1. /\ disk'.live = [disk.live EXCEPT ![f] = c] /\ disk.live \in [Files -> Contents]
      /\ SameStaged /\ SameBak /\ SameJournal /\ SameKey
      /\ Covered(disk.journal) \subseteq Files
  BY LiveChanges, TypesAsRecord, VersionsTyped
<1>2. Followed' = Followed
  BY <1>1 DEF Followed, KeyOpens, BackupOf, SameBak, SameJournal, SameKey
<1>3. c.ver <= latest[f]
  BY FormsDiffer, VersionsTyped
<1>4. NoNewer'
  BY <1>1, <1>3 DEF DiskSaved, NoNewer, SameStaged, SameBak
<1>5. UnfollowedWhole'
  BY <1>1, <1>2 DEF DiskSaved, UnfollowedWhole, LiveWhole
<1>6. FollowedCopies'
  <2> SUFFICES ASSUME Followed PROVE FollowedCopies'
    BY <1>2 DEF FollowedCopies
  <2>1. /\ \A g \in Files \ Covered(disk.journal) : Whole(disk.live[g], latest[g])
        /\ \A g \in Covered(disk.journal) : Covering(g)
    BY DEF DiskSaved, FollowedCopies
  <2>2. \A g \in Files \ Covered(disk.journal) : Whole(disk'.live[g], latest[g])
    BY <1>1, <2>1
  <2>3. \A g \in Covered(disk.journal) : Covering(g)'
    BY <1>1, <2>1 DEF Covering, BackupOf, SameStaged, SameBak, SameJournal
  <2> QED
    BY <1>1, <2>2, <2>3 DEF FollowedCopies, SameJournal
<1>7. StagingEncrypted'
  BY <1>1 DEF StagingEncrypted, SameJournal
<1> QED
  BY <1>2, <1>4, <1>5, <1>6, <1>7 DEF DiskSaved

LEMMA StagedSaves ==
    ASSUME TypeOK, DiskSaved, latest' = latest, NEW f \in Files, NEW c \in Contents,
           disk' = [disk EXCEPT !.staged[f] = c],
           c = None \/ (~Followed /\ c.ver <= latest[f])
    PROVE  DiskSaved' /\ Followed' = Followed /\ LiveWhole' = LiveWhole
<1>1. /\ disk'.staged = [disk.staged EXCEPT ![f] = c] /\ disk.staged \in [Files -> Contents]
      /\ SameLive /\ SameBak /\ SameJournal /\ SameKey
      /\ Covered(disk.journal) \subseteq Files
  BY StagedChanges, TypesAsRecord, VersionsTyped
<1>2. Followed' = Followed /\ LiveWhole' = LiveWhole
  BY <1>1 DEF Followed, LiveWhole, KeyOpens, BackupOf, SameLive, SameBak, SameJournal, SameKey
<1>3. c.ver <= latest[f]
  BY FormsDiffer, VersionsTyped
<1>4. NoNewer'
  BY <1>1, <1>3 DEF DiskSaved, NoNewer, SameLive, SameBak
<1>5. FollowedCopies'
  BY <1>1, <1>2
  DEF DiskSaved, FollowedCopies, Covering, BackupOf, SameLive, SameBak, SameJournal
<1> QED
  BY <1>1, <1>2, <1>4, <1>5
  DEF DiskSaved, UnfollowedWhole, StagingEncrypted, SameLive, SameJournal

\* A backup is written while nobody follows the journal, or dropped when
\* every file is whole.
LEMMA BakSaves ==
    ASSUME TypeOK, DiskSaved, latest' = latest,
           NEW i \in 0..MaxAttempts, NEW f \in Files, NEW c \in Contents,
           disk' = [disk EXCEPT !.bak[i][f] = c],
           \/ disk.journal.state = "staging" /\ c.ver <= latest[f]
           \/ c = None /\ LiveWhole
    PROVE  DiskSaved' /\ (Followed' => Followed) /\ LiveWhole' = LiveWhole
<1>1. /\ \A k \in 0..MaxAttempts : \A g \in Files :
            disk'.bak[k][g] = IF k = i /\ g = f THEN c ELSE disk.bak[k][g]
      /\ SameLive /\ SameStaged /\ SameJournal /\ SameKey
      /\ Covered(disk.journal) \subseteq Files /\ disk.journal.stamp \in 0..MaxAttempts
  BY BakChanges, TypesAsRecord, VersionsTyped
<1>2. LiveWhole' = LiveWhole
  BY <1>1 DEF LiveWhole, SameLive
<1>3. Followed' => /\ Followed
                   /\ \A g \in Covered(disk.journal) :
                         BackupOf(disk.journal, g)' = BackupOf(disk.journal, g)
  BY <1>1 DEF Followed, KeyOpens, BackupOf, SameJournal, SameKey
<1>4. c.ver <= latest[f]
  BY FormsDiffer, VersionsTyped
<1>5. NoNewer'
  BY <1>1, <1>4 DEF DiskSaved, NoNewer, SameLive, SameStaged
<1>6. UnfollowedWhole'
  <2>1. CASE disk.journal.state = "staging"
    <3>1. ~Followed
      BY <2>1 DEF Followed
    <3> QED
      BY <1>2, <3>1 DEF DiskSaved, UnfollowedWhole
  <2>2. CASE LiveWhole
    BY <1>2, <2>2 DEF UnfollowedWhole
  <2> QED
    BY <2>1, <2>2
<1>7. FollowedCopies'
  <2> SUFFICES ASSUME Followed' PROVE FollowedCopies'
    BY DEF FollowedCopies
  <2>1. \A g \in Covered(disk.journal) : Covering(g)'
    BY <1>1, <1>3
    DEF DiskSaved, FollowedCopies, Covering, BackupOf, SameLive, SameStaged, SameJournal
  <2> QED
    BY <1>1, <1>3, <2>1 DEF DiskSaved, FollowedCopies, SameLive, SameJournal
<1>8. StagingEncrypted'
  BY <1>1 DEF DiskSaved, StagingEncrypted, SameLive, SameJournal
<1> QED
  BY <1>2, <1>3, <1>5, <1>6, <1>7, <1>8 DEF DiskSaved

\* Every file is whole: a journal goes, or one is written that nobody follows.
LEMMA JournalSaves ==
    ASSUME TypeOK, DiskSaved, LiveWhole, latest' = latest, NEW j \in Journals,
           disk' = [disk EXCEPT !.journal = j], j.state # "committing",
           j.state = "staging" => \A f \in Covered(j) : /\ disk.live[f] = Enc(latest[f])
                                                        /\ j.expect[f] = latest[f]
    PROVE  DiskSaved' /\ ~Followed' /\ LiveWhole'
<1>1. disk'.journal = j /\ SameLive /\ SameStaged /\ SameBak
  BY JournalChanges, TypesAsRecord
<1>2. ~Followed' /\ LiveWhole'
  BY <1>1 DEF Followed, LiveWhole, SameLive
<1> QED
  BY <1>1, <1>2
  DEF DiskSaved, NoNewer, UnfollowedWhole, FollowedCopies, StagingEncrypted,
      SameLive, SameStaged, SameBak

\* The key moves on when every file is whole.
LEMMA KeySaves ==
    ASSUME TypeOK, DiskSaved, LiveWhole, latest' = latest,
           NEW k \in {"held", "zeroed", "gone"}, disk' = [disk EXCEPT !.key = k]
    PROVE  DiskSaved' /\ ~Followed' /\ LiveWhole'
<1>1. disk'.key = k /\ SameLive /\ SameStaged /\ SameBak /\ SameJournal
  BY KeyChanges, TypesAsRecord
<1>2. ~Followed' /\ LiveWhole'
  BY <1>1 DEF Followed, KeyOpens, LiveWhole, SameLive
<1> QED
  BY <1>1, <1>2
  DEF DiskSaved, NoNewer, UnfollowedWhole, FollowedCopies, StagingEncrypted,
      SameLive, SameStaged, SameBak, SameJournal

LEMMA MarkerSaves ==
    ASSUME TypeOK, DiskSaved, latest' = latest,
           NEW b \in BOOLEAN, disk' = [disk EXCEPT !.marker = b]
    PROVE  DiskSaved' /\ Followed' = Followed /\ LiveWhole' = LiveWhole
<1>1. SameLive /\ SameStaged /\ SameBak /\ SameJournal /\ SameKey
  BY MarkerChanges, TypesAsRecord
<1> QED
  BY <1>1
  DEF DiskSaved, NoNewer, UnfollowedWhole, FollowedCopies, StagingEncrypted, Covering, LiveWhole,
      Followed, KeyOpens, BackupOf, SameLive, SameStaged, SameBak, SameJournal, SameKey

\* The process is gone: nothing is under way.
LEMMA LeaveSaves ==
    ASSUME DiskSaved', pc' = "down" PROVE SavedInv'
BY DEF SavedInv, StepSaved, CopiesMade, WholeByStep, FollowedByStep, NoStagingOpened,
       Swapping, Leaving, Keeping, Cleaning, Opening

\* Without the key, and in a session or its opening, every file is whole.
LEMMA WholeUnfollowed ==
    ASSUME IInv, SavedInv, ~KeyOpens \/ pc \in Opening PROVE ~Followed /\ LiveWhole
<1>1. ~Followed
  BY DEF IInv, StepInv, NoSessionFollowed, Followed
<1> QED
  BY <1>1 DEF SavedInv, DiskSaved, UnfollowedWhole

-----------------------------------------------------------------------------
(* The steps.                                                              *)

LEMMA InitSaved ==
    ASSUME Init PROVE SavedInv
<1>1. /\ disk.live = [f \in Files |-> Enc(1)] /\ disk.staged = [f \in Files |-> None]
      /\ disk.bak = [i \in 0..MaxAttempts |-> [f \in Files |-> None]]
      /\ disk.journal = NoJournal /\ latest = [f \in Files |-> 1]
      /\ pc = "running" /\ NoJournal.state = "none"
  BY DEF Init, NoJournal
<1>2. ~Followed
  BY <1>1 DEF Followed
<1>3. LiveWhole /\ NoNewer
  BY <1>1, FormsDiffer DEF LiveWhole, Whole, NoNewer
<1>4. DiskSaved
  BY <1>1, <1>2, <1>3 DEF DiskSaved, UnfollowedWhole, FollowedCopies, StagingEncrypted
<1> QED
  BY <1>1, <1>4
  DEF SavedInv, StepSaved, CopiesMade, WholeByStep, FollowedByStep, NoStagingOpened,
      Swapping, Leaving, Keeping, Cleaning, Opening

LEMMA SaveSaved ==
    ASSUME NEW f \in Files, IInv, SavedInv, Save(f) PROVE SavedInv'
<1> DEFINE c == IF KeyOpens THEN Enc(latest[f] + 1) ELSE Plain(latest[f] + 1)
<1>1. /\ TypeOK /\ disk \in Disks /\ pc = "running" /\ pc' = "running" /\ ~Followed /\ LiveWhole
      /\ disk.journal.state # "staging" /\ DiskSaved /\ latest[f] <= MaxSaves
  BY WholeUnfollowed, TypesAsRecord
  DEF IInv, Save, Opening, SavedInv, StepSaved, NoStagingOpened
<1>2. /\ latest \in [Files -> 1..MaxSaves + 1] /\ disk.live \in [Files -> Contents]
      /\ latest' = [latest EXCEPT ![f] = latest[f] + 1]
      /\ latest[f] \in Nat
  BY <1>1, VersionsTyped DEF Save
<1>3. c \in Contents /\ disk' = [disk EXCEPT !.live[f] = c]
  <2>1. latest[f] + 1 \in 0..MaxSaves + 1
    BY <1>1, <1>2, BoundAssumption
  <2>2. latest'[f] = latest[f] + 1
    BY <1>2
  <2> QED
    BY <2>1, <2>2, FormsOfContents DEF Save
<1>4. /\ disk'.live = [disk.live EXCEPT ![f] = c]
      /\ SameStaged /\ SameBak /\ SameJournal /\ SameKey
  BY <1>1, <1>3, LiveChanges
<1>5. Whole(c, latest[f] + 1) /\ c.ver = latest[f] + 1
  BY FormsDiffer DEF Whole
<1> HIDE DEF c
<1>6. ~Followed'
  BY <1>1, <1>4 DEF Followed, KeyOpens, BackupOf, SameBak, SameJournal, SameKey
<1>7. \A g \in Files : latest'[g] = IF g = f THEN latest[f] + 1 ELSE latest[g]
  BY <1>2
<1>8. LiveWhole'
  BY <1>1, <1>2, <1>4, <1>5, <1>7 DEF LiveWhole
<1>9. NoNewer'
  <2> SUFFICES ASSUME NEW g \in Files
               PROVE  /\ disk'.live[g].ver <= latest'[g] /\ disk'.staged[g].ver <= latest'[g]
                      /\ \A i \in 0..MaxAttempts : disk'.bak[i][g].ver <= latest'[g]
    BY DEF NoNewer
  <2>1. /\ disk.live[g].ver <= latest[g] /\ disk.staged[g].ver <= latest[g]
        /\ \A i \in 0..MaxAttempts : disk.bak[i][g].ver <= latest[g]
    BY <1>1 DEF DiskSaved, NoNewer
  <2>2. latest[g] \in Nat /\ latest[g] <= latest'[g] /\ latest'[g] \in Nat
    BY <1>1, <1>7, VersionsTyped
  <2>3. /\ disk.live[g].ver \in Nat /\ disk.staged[g].ver \in Nat
        /\ \A i \in 0..MaxAttempts : disk.bak[i][g].ver \in Nat
    <3>1. \A d \in Contents : d.ver \in Nat
      BY BoundAssumption DEF Contents
    <3>2. /\ disk.live[g] \in Contents /\ disk.staged[g] \in Contents
          /\ \A i \in 0..MaxAttempts : disk.bak[i][g] \in Contents
      BY <1>1, VersionsTyped
    <3> QED
      BY <3>1, <3>2
  <2>4. disk'.live[g].ver <= latest'[g]
    BY <1>2, <1>4, <1>5, <1>7, <2>1, <2>2, <2>3
  <2> QED
    BY <1>4, <2>1, <2>2, <2>3, <2>4 DEF SameStaged, SameBak
<1>10. DiskSaved'
  BY <1>1, <1>4, <1>6, <1>8, <1>9
  DEF DiskSaved, UnfollowedWhole, FollowedCopies, StagingEncrypted, SameJournal
<1> QED
  BY <1>1, <1>4, <1>10
  DEF SavedInv, StepSaved, CopiesMade, WholeByStep, FollowedByStep, NoStagingOpened,
      Swapping, Leaving, Keeping, Cleaning, Opening, SameJournal

LEMMA QuitSaved ==
    ASSUME SavedInv, Quit PROVE SavedInv'
BY SameSaves, LeaveSaves DEF SavedInv, Quit, Leave, Goto

\* What a session finds encrypted is the last version saved, and so is what
\* the disable records of it.
LEMMA StartSaved ==
    ASSUME IInv, SavedInv, StartDisable PROVE SavedInv'
<1>1. /\ TypeOK /\ pc = "running" /\ ~Followed /\ LiveWhole /\ KeyOpens /\ DiskSaved
      /\ disk.journal.state # "staging" /\ latest' = latest
      /\ disk.live \in [Files -> Contents]
  BY WholeUnfollowed, VersionsTyped
  DEF IInv, StartDisable, Opening, SavedInv, StepSaved, NoStagingOpened, Unseen
<1> DEFINE F == IF disk.live[Doc].form = "enc" THEN FileOrder ELSE <<Db>>
           X == [f \in Files |-> disk.live[f].ver]
<1>2. mem' = [state |-> "staging", stamp |-> attempts + 1, files |-> F, expect |-> X]
  BY DEF StartDisable
<1>3. mem' \in Journals
  BY <1>1, StartInv DEF IInv, TypeOK
<1>4. \A f \in Covered(mem') : disk.live[f] = Enc(latest[f]) /\ mem'.expect[f] = latest[f]
  <2>1. \A f \in Range(F) : f \in Files /\ disk.live[f].form = "enc"
    BY RangesOfFiles DEF FileOrder, Files, StartDisable
  <2>2. \A f \in Range(F) : disk.live[f] = Enc(latest[f])
    BY <1>1, <2>1, FormsDiffer DEF LiveWhole, Whole
  <2>3. \A f \in Range(F) : X[f] = latest[f]
    BY <2>1, <2>2, FormsDiffer
  <2> HIDE DEF F, X
  <2> QED
    BY <1>2, <2>2, <2>3 DEF Covered
<1>5. CASE disk' = [disk EXCEPT !.journal = mem'] /\ Loop("backup", mem'.files)
  <2>1. mem'.state = "staging" /\ pc' = "backup" /\ left' = mem'.files
    BY <1>2, <1>5 DEF Loop
  <2>2. DiskSaved'
    BY <1>1, <1>3, <1>4, <1>5, <2>1, JournalSaves
  <2>3. Covered(mem)' \ Range(left)' = {}
    BY <2>1 DEF Covered
  <2> QED
    BY <2>1, <2>2, <2>3
    DEF SavedInv, StepSaved, CopiesMade, WholeByStep, FollowedByStep, NoStagingOpened,
        Swapping, Leaving, Keeping, Cleaning, Opening
<1>6. CASE disk' = disk /\ Goto("rbKey")
  <2>1. mem'.state = "staging" /\ pc' = "rbKey"
    BY <1>2, <1>6 DEF Goto
  <2>2. DiskSaved' /\ ~Followed'
    BY <1>1, <1>6, SameSaves
  <2> QED
    BY <2>1, <2>2
    DEF SavedInv, StepSaved, CopiesMade, WholeByStep, FollowedByStep, NoStagingOpened,
        Swapping, Leaving, Keeping, Cleaning, Opening
<1> QED
  BY <1>5, <1>6 DEF StartDisable

LEMMA BackupSaved ==
    ASSUME NEW f \in Files, IInv, SavedInv, Backup(f) PROVE SavedInv'
<1>1. /\ TypeOK /\ pc = "backup" /\ pc' = "backup" /\ KeyOpens /\ DiskSaved
      /\ mem = disk.journal /\ mem.state = "staging" /\ mem' = mem /\ latest' = latest
      /\ left \in Seq(Files) /\ left # <<>> /\ f = Head(left) /\ left' = Tail(left)
      /\ disk' = [disk EXCEPT !.bak[mem.stamp][f] = disk.live[f]]
      /\ \A g \in Covered(mem) \ Range(left) : BackedUp(g)
  BY DEF IInv, StepInv, KeyByStep, JournalHeld, Preparing, Backup, At, Rest, Loop, Quiet, Inside,
         Unseen, SavedInv, StepSaved, CopiesMade
<1>2. /\ disk.live[f] \in Contents /\ mem.stamp \in 0..MaxAttempts /\ Covered(mem) \subseteq Files
      /\ disk.live[f].ver <= latest[f] /\ disk \in Disks
  BY <1>1, VersionsTyped, TypesAsRecord DEF DiskSaved, NoNewer
<1>3. DiskSaved'
  BY <1>1, <1>2, BakSaves
<1>4. \A g \in Files : BackupOf(mem, g)' = IF g = f THEN disk.live[f] ELSE BackupOf(mem, g)
  <2>1. \A k \in 0..MaxAttempts : \A g \in Files :
           disk'.bak[k][g] = IF k = mem.stamp /\ g = f THEN disk.live[f] ELSE disk.bak[k][g]
    BY <1>1, <1>2, BakChanges
  <2> QED
    BY <1>1, <1>2, <2>1 DEF BackupOf
<1>5. f \in Covered(mem) => disk.live[f] = Enc(latest[f])
  BY <1>1 DEF DiskSaved, StagingEncrypted
<1>6. Range(left) \subseteq Range(left') \cup {f}
  BY <1>1, RestOfLoop
<1>7. \A g \in Covered(mem') \ Range(left') : BackedUp(g)'
  BY <1>1, <1>2, <1>4, <1>5, <1>6 DEF BackedUp
<1> QED
  BY <1>1, <1>3, <1>7
  DEF SavedInv, StepSaved, CopiesMade, WholeByStep, FollowedByStep, NoStagingOpened,
      Swapping, Leaving, Keeping, Cleaning, Opening

LEMMA StageSaved ==
    ASSUME NEW f \in Files, IInv, SavedInv, Stage(f) PROVE SavedInv'
<1>1. /\ TypeOK /\ pc = "stage" /\ pc' = "stage" /\ KeyOpens /\ DiskSaved
      /\ mem = disk.journal /\ mem.state = "staging" /\ mem' = mem /\ latest' = latest
      /\ left \in Seq(Files) /\ left # <<>> /\ f = Head(left) /\ left' = Tail(left)
      /\ disk' = [disk EXCEPT !.staged[f] = Plain(disk.live[f].ver)]
      /\ \A g \in Covered(mem) : BackedUp(g)
      /\ \A g \in Covered(mem) \ Range(left) : StagedPlain(g)
  BY DEF IInv, StepInv, KeyByStep, JournalHeld, Preparing, Stage, At, Rest, Loop, Quiet, Inside,
         Unseen, SavedInv, StepSaved, CopiesMade
<1>2. /\ Plain(disk.live[f].ver) \in Contents /\ Covered(mem) \subseteq Files
      /\ Plain(disk.live[f].ver).ver <= latest[f] /\ disk \in Disks /\ ~Followed
  BY <1>1, VersionsTyped, FormsOfContents, FormsDiffer, TypesAsRecord
  DEF DiskSaved, NoNewer, Contents, Followed
<1>3. DiskSaved'
  BY <1>1, <1>2, StagedSaves
<1>4. /\ disk'.staged = [disk.staged EXCEPT ![f] = Plain(disk.live[f].ver)] /\ SameBak
      /\ disk.staged \in [Files -> Contents]
  BY <1>1, <1>2, StagedChanges, VersionsTyped
<1>5. f \in Covered(mem) => Plain(disk.live[f].ver) = Plain(latest[f])
  <2>1. f \in Covered(mem) => disk.live[f] = Enc(latest[f])
    BY <1>1 DEF DiskSaved, StagingEncrypted
  <2> QED
    BY <2>1, FormsDiffer
<1>6. Range(left) \subseteq Range(left') \cup {f}
  BY <1>1, RestOfLoop
<1>7. \A g \in Covered(mem') \ Range(left') : StagedPlain(g)'
  BY <1>1, <1>2, <1>4, <1>5, <1>6 DEF StagedPlain
<1>8. \A g \in Covered(mem') : BackedUp(g)'
  BY <1>1, <1>4 DEF BackedUp, BackupOf, SameBak
<1> QED
  BY <1>1, <1>3, <1>7, <1>8
  DEF SavedInv, StepSaved, CopiesMade, WholeByStep, FollowedByStep, NoStagingOpened,
      Swapping, Leaving, Keeping, Cleaning, Opening

\* The plan is followed from the moment its copies are all made.
LEMMA CommitSaved ==
    ASSUME IInv, SavedInv, Commit PROVE SavedInv'
<1>1. /\ TypeOK /\ pc = "commit" /\ pc' = "swap" /\ KeyOpens /\ DiskSaved
      /\ mem = disk.journal /\ mem.state = "staging" /\ mem \in Journals /\ latest' = latest
      /\ mem' = [mem EXCEPT !.state = "committing"] /\ disk' = [disk EXCEPT !.journal = mem']
      /\ \A g \in Covered(mem) : BackedUp(g) /\ StagedPlain(g)
  BY DEF IInv, StepInv, KeyByStep, JournalHeld, Preparing, Commit, Loop, Unseen, TypeOK,
         SavedInv, StepSaved, CopiesMade
<1>2. /\ mem' \in Journals /\ mem'.state = "committing" /\ mem'.files = mem.files
      /\ mem'.stamp = mem.stamp /\ mem'.expect = mem.expect /\ Covered(mem') = Covered(mem)
  <2>1. /\ mem' \in Journals /\ mem'.state = "committing" /\ mem'.files = mem.files
        /\ mem'.stamp = mem.stamp /\ mem'.expect = mem.expect
    BY <1>1 DEF Journals
  <2> QED
    BY <2>1 DEF Covered
<1>3. disk'.journal = mem' /\ SameLive /\ SameStaged /\ SameBak /\ SameKey
  BY <1>1, <1>2, JournalChanges, TypesAsRecord
<1>4. ~Followed /\ LiveWhole
  BY <1>1 DEF Followed, DiskSaved, UnfollowedWhole
<1>5. \A g \in Covered(mem) : Covering(g)'
  <2> SUFFICES ASSUME NEW g \in Covered(mem) PROVE Covering(g)'
    OBVIOUS
  <2>1. /\ disk.bak[mem.stamp][g] = Enc(latest[g]) /\ disk.staged[g] = Plain(latest[g])
    BY <1>1 DEF BackedUp, StagedPlain, BackupOf
  <2>2. disk.live[g] = Enc(latest[g]) /\ mem.expect[g] = latest[g]
    BY <1>1 DEF DiskSaved, StagingEncrypted
  <2> QED
    BY <1>1, <1>2, <1>3, <2>1, <2>2 DEF Covering, BackupOf, SameLive, SameStaged, SameBak
<1>6. Followed'
  <2>1. \A g \in Covered(mem) : BackupOf(disk.journal, g)' # None
    BY <1>5, FormsDiffer DEF Covering
  <2> QED
    BY <1>1, <1>2, <1>3, <2>1 DEF Followed, KeyOpens, SameKey
<1>7. FollowedCopies'
  BY <1>1, <1>2, <1>3, <1>4, <1>5 DEF FollowedCopies, LiveWhole, SameLive
<1>8. DiskSaved'
  BY <1>1, <1>2, <1>3, <1>6, <1>7
  DEF DiskSaved, NoNewer, UnfollowedWhole, StagingEncrypted, SameLive, SameStaged, SameBak
<1> QED
  BY <1>1, <1>6, <1>8
  DEF SavedInv, StepSaved, CopiesMade, WholeByStep, FollowedByStep, NoStagingOpened,
      Swapping, Leaving, Keeping, Cleaning, Opening

\* What is staged under a journal that is followed is what was last saved.
LEMMA SwapSaved ==
    ASSUME NEW f \in Files, IInv, SavedInv, SwapStaged(f) PROVE SavedInv'
<1>1. /\ TypeOK /\ pc = "swap" /\ pc' = "swap" /\ DiskSaved /\ latest' = latest /\ mem' = mem
      /\ mem = disk.journal /\ mem.state = "committing" /\ f \in Covered(mem)
      /\ KeyOpens => Followed
      /\ ~KeyOpens => disk.staged[f] = None
  <2>1. /\ TypeOK /\ pc = "swap" /\ pc' = "swap" /\ DiskSaved /\ latest' = latest /\ mem' = mem
        /\ mem = disk.journal /\ mem.state = "committing" /\ Range(left) \subseteq Covered(mem)
        /\ left \in Seq(Files) /\ left # <<>> /\ f = Head(left)
        /\ KeyOpens => Followed
        /\ ~KeyOpens => NothingStaged(disk.journal)
    BY DEF IInv, StepInv, DiskInv, GoneIsSwapped, JournalHeld, LoopsCover, Swapping, SwapStaged,
           At, Rest, Loop, Quiet, Inside, Unseen, SavedInv, StepSaved, FollowedByStep
  <2>2. f \in Covered(mem)
    BY <2>1, RestOfLoop
  <2> QED
    BY <2>1, <2>2 DEF NothingStaged
<1>2. CASE disk.staged[f] = None
  <2>1. disk' = disk
    BY <1>2 DEF SwapStaged
  <2>2. DiskSaved' /\ Followed' = Followed /\ KeyOpens' = KeyOpens
    BY <1>1, <2>1, SameSaves DEF KeyOpens
  <2> QED
    BY <1>1, <2>2
    DEF SavedInv, StepSaved, CopiesMade, WholeByStep, FollowedByStep, NoStagingOpened,
        Swapping, Leaving, Keeping, Cleaning, Opening
<1>3. CASE disk.staged[f] # None
  <2>1. Followed /\ KeyOpens /\ f \in Files
    BY <1>1, <1>3
  <2>2. disk' = [disk EXCEPT !.live[f] = disk.staged[f], !.staged[f] = None]
    BY <1>3 DEF SwapStaged
  <2>3. /\ disk'.live = [disk.live EXCEPT ![f] = disk.staged[f]]
        /\ disk'.staged = [disk.staged EXCEPT ![f] = None]
        /\ disk.live \in [Files -> Contents] /\ disk.staged \in [Files -> Contents]
        /\ SameBak /\ SameJournal /\ SameKey /\ Covered(mem) \subseteq Files
    BY <1>1, <2>2, TypesAsRecord, VersionsTyped DEF Disks, SameBak, SameJournal, SameKey
  <2>4. Followed'
    BY <2>1, <2>3 DEF Followed, KeyOpens, BackupOf, SameBak, SameJournal, SameKey
  <2>5. /\ \A g \in Files \ Covered(mem) : Whole(disk.live[g], latest[g])
        /\ \A g \in Covered(mem) : Covering(g)
    BY <1>1, <2>1 DEF DiskSaved, FollowedCopies
  <2>6. disk.staged[f] = Plain(latest[f])
    BY <1>1, <1>3, <2>5 DEF Covering
  <2>7. \A g \in Covered(mem) : Covering(g)'
    <3> SUFFICES ASSUME NEW g \in Covered(mem) PROVE Covering(g)'
      OBVIOUS
    <3>1. Covering(g) /\ g \in Files
      BY <2>3, <2>5
    <3> QED
      BY <1>1, <2>3, <2>6, <3>1 DEF Covering, BackupOf, SameBak, SameJournal
  <2>8. \A g \in Files \ Covered(mem) : Whole(disk'.live[g], latest'[g])
    BY <1>1, <2>3, <2>5
  <2>9. FollowedCopies'
    BY <1>1, <2>3, <2>7, <2>8 DEF FollowedCopies, SameJournal
  <2>10. NoNewer'
    BY <1>1, <2>3, FormsDiffer, VersionsTyped DEF DiskSaved, NoNewer, SameBak
  <2>11. DiskSaved'
    BY <1>1, <2>3, <2>4, <2>9, <2>10
    DEF DiskSaved, UnfollowedWhole, StagingEncrypted, SameJournal
  <2> QED
    BY <1>1, <2>4, <2>11
    DEF SavedInv, StepSaved, CopiesMade, WholeByStep, FollowedByStep, NoStagingOpened,
        Swapping, Leaving, Keeping, Cleaning, Opening
<1> QED
  BY <1>2, <1>3

\* What is as recorded is what was last saved.
LEMMA CheckSaved ==
    ASSUME IInv, SavedInv, Check PROVE SavedInv'
<1>1. /\ TypeOK /\ pc = "check" /\ DiskSaved /\ latest' = latest /\ mem' = mem /\ disk' = disk
      /\ mem = disk.journal /\ mem.state = "committing"
      /\ KeyOpens => Followed
  BY DEF IInv, StepInv, JournalHeld, Swapping, Check, Quiet, Inside, Unseen,
         SavedInv, StepSaved, FollowedByStep
<1>2. DiskSaved' /\ Followed' = Followed /\ LiveWhole' = LiveWhole /\ KeyOpens' = KeyOpens
  BY <1>1, SameSaves DEF KeyOpens
<1>3. PlainAsRecorded => LiveWhole
  <2>1. CASE ~Followed
    BY <1>1, <2>1 DEF DiskSaved, UnfollowedWhole
  <2>2. ASSUME Followed, PlainAsRecorded, NEW f \in Files PROVE Whole(disk.live[f], latest[f])
    BY <1>1, <2>2 DEF DiskSaved, FollowedCopies, Covering, PlainAsRecorded, Whole
  <2> QED
    BY <2>1, <2>2 DEF LiveWhole
<1>4. pc' \in {"marker", "fMarker", "uMarker", "rbKey"}
      /\ (pc' \in {"marker", "fMarker"} => PlainAsRecorded)
  <2>1. pc' = (CASE PlainAsRecorded -> IF caller = "disable" THEN "marker" ELSE "fMarker"
                 [] ~PlainAsRecorded /\ AllPlain /\ caller = "boot" /\ ~KeyOpens -> "uMarker"
                 [] OTHER -> "rbKey")
    BY DEF Check, Goto
  <2>2. CASE PlainAsRecorded
    BY <2>1, <2>2
  <2>3. CASE ~PlainAsRecorded /\ AllPlain /\ caller = "boot" /\ ~KeyOpens
    BY <2>1, <2>3
  <2>4. CASE ~PlainAsRecorded /\ ~(AllPlain /\ caller = "boot" /\ ~KeyOpens)
    BY <2>1, <2>4
  <2> QED
    BY <2>2, <2>3, <2>4
<1> QED
  BY <1>1, <1>2, <1>3, <1>4
  DEF SavedInv, StepSaved, CopiesMade, WholeByStep, FollowedByStep, NoStagingOpened,
      Swapping, Leaving, Keeping, Cleaning, Opening

LEMMA WriteMarkerSaved ==
    ASSUME IInv, SavedInv, WriteMarker PROVE SavedInv'
<1>1. /\ TypeOK /\ pc = "marker" /\ pc' = "key" /\ DiskSaved /\ latest' = latest
      /\ LiveWhole /\ Followed /\ disk' = [disk EXCEPT !.marker = TRUE]
  BY DEF IInv, StepInv, KeyByStep, WriteMarker, Goto, Quiet, Unseen, Leaving,
         SavedInv, StepSaved, WholeByStep, FollowedByStep
<1>2. DiskSaved' /\ LiveWhole' /\ Followed'
  BY <1>1, MarkerSaves
<1> QED
  BY <1>1, <1>2
  DEF SavedInv, StepSaved, CopiesMade, WholeByStep, FollowedByStep, NoStagingOpened,
      Swapping, Leaving, Keeping, Cleaning, Opening

LEMMA HoldKeySaved ==
    ASSUME IInv, SavedInv, HoldKey PROVE SavedInv'
<1>1. /\ TypeOK /\ pc = "key" /\ pc' = "fMarker" /\ DiskSaved /\ latest' = latest
      /\ LiveWhole /\ disk' = [disk EXCEPT !.key = "held"]
  BY DEF IInv, HoldKey, Goto, Quiet, Unseen, Leaving, SavedInv, StepSaved, WholeByStep
<1>2. DiskSaved' /\ LiveWhole'
  BY <1>1, KeySaves
<1> QED
  BY <1>1, <1>2
  DEF SavedInv, StepSaved, CopiesMade, WholeByStep, FollowedByStep, NoStagingOpened,
      Swapping, Leaving, Keeping, Cleaning, Opening

LEMMA BodyFailsSaved ==
    ASSUME IInv, SavedInv, BodyFails PROVE SavedInv'
<1>1. /\ TypeOK /\ pc' = "rbKey" /\ DiskSaved /\ latest' = latest /\ disk' = disk
      /\ mem = disk.journal /\ mem \in Journals
      /\ \/ pc \in {"backup", "stage"} /\ mem' = mem /\ mem.state = "staging"
         \/ pc = "commit" /\ mem' = [mem EXCEPT !.state = "committing"] /\ mem.state = "staging"
         \/ /\ pc \in Swapping \cup {"marker", "key"} /\ KeyOpens /\ Followed
            /\ mem' = mem /\ mem.state = "committing"
  BY DEF IInv, StepInv, KeyByStep, JournalHeld, Preparing, Swapping, Leaving, BodyFails, Goto,
         Unseen, TypeOK, SavedInv, StepSaved, FollowedByStep
<1>2. DiskSaved' /\ Followed' = Followed
  BY <1>1, SameSaves
<1>3. \/ mem'.state # "committing" /\ ~Followed
      \/ /\ mem'.state = "committing"
         /\ mem'.files = disk.journal.files /\ mem'.stamp = disk.journal.stamp
         /\ disk.journal.state = "staging" \/ Followed
  BY <1>1 DEF Journals, Followed
<1> QED
  BY <1>1, <1>2, <1>3
  DEF SavedInv, StepSaved, CopiesMade, WholeByStep, FollowedByStep, NoStagingOpened,
      Swapping, Leaving, Keeping, Cleaning, Opening

LEMMA RollbackNeedsKeySaved ==
    ASSUME IInv, SavedInv, RollbackNeedsKey PROVE SavedInv'
<1>1. /\ TypeOK /\ pc = "rbKey" /\ DiskSaved /\ latest' = latest /\ disk' = disk
  BY DEF IInv, RollbackNeedsKey, Unseen, SavedInv
<1>2. DiskSaved' /\ Followed' = Followed /\ KeyOpens' = KeyOpens
  BY <1>1, SameSaves DEF KeyOpens
<1>3. CASE KeyOpens
  <2>1. pc' = "rbUnstage" /\ mem' = mem
    BY <1>3 DEF RollbackNeedsKey, Loop, Inside
  <2> QED
    BY <1>1, <1>2, <1>3, <2>1
    DEF SavedInv, StepSaved, CopiesMade, WholeByStep, FollowedByStep, NoStagingOpened,
        Swapping, Leaving, Keeping, Cleaning, Opening
<1>4. CASE ~KeyOpens
  BY <1>2, <1>4, LeaveSaves DEF RollbackNeedsKey, Leave, Goto
<1> QED
  BY <1>3, <1>4

LEMMA UnstageSaved ==
    ASSUME NEW f \in Files, IInv, SavedInv, Unstage(f) PROVE SavedInv'
<1>1. /\ TypeOK /\ pc = "rbUnstage" /\ pc' = "rbRestore" /\ mem' = mem /\ DiskSaved
      /\ latest' = latest /\ disk' = [disk EXCEPT !.staged[f] = None] /\ None \in Contents
      /\ disk \in Disks
  BY FormsOfContents, TypesAsRecord
  DEF IInv, Unstage, At, Loop, Quiet, Inside, Unseen, SavedInv
<1>2. DiskSaved' /\ Followed' = Followed
  BY <1>1, StagedSaves
<1>3. SameJournal /\ KeyOpens' = KeyOpens
  BY <1>1, StagedChanges DEF SameKey, KeyOpens
<1> QED
  BY <1>1, <1>2, <1>3
  DEF SavedInv, StepSaved, CopiesMade, WholeByStep, FollowedByStep, NoStagingOpened,
      Swapping, Leaving, Keeping, Cleaning, Opening, SameJournal

\* What rollback restores over is a file the journal covers, and it is
\* restored from what was last saved: before the plan was followed every file
\* it covers is still encrypted.
LEMMA RestorableFollowed ==
    ASSUME NEW f \in Files, IInv, SavedInv, At("rbRestore", f), Restorable(f)
    PROVE  /\ Followed /\ f \in Covered(disk.journal) /\ disk.journal.state # "staging"
           /\ BackupOf(mem, f) = Enc(latest[f])
<1>1. /\ TypeOK /\ DiskSaved /\ KeyOpens /\ mem.state = "committing" /\ f \in Covered(mem)
      /\ ~LooksEncrypted(disk.live[f])
      /\ mem.files = disk.journal.files /\ mem.stamp = disk.journal.stamp
      /\ disk.journal.state = "staging" \/ Followed
  <2>1. left \in Seq(Files) /\ left # <<>> /\ f = Head(left) /\ Range(left) \subseteq Covered(mem)
    BY DEF IInv, StepInv, LoopsCover, At
  <2>2. f \in Covered(mem)
    BY <2>1, RestOfLoop
  <2> QED
    BY <2>2
    DEF IInv, StepInv, KeyByStep, Undoing, At, Restorable, SavedInv, StepSaved, FollowedByStep
<1>2. f \in Covered(disk.journal)
  BY <1>1 DEF Covered
<1>3. disk.journal.state # "staging"
  <2> SUFFICES ASSUME disk.journal.state = "staging" PROVE FALSE
    OBVIOUS
  <2>1. disk.live[f] = Enc(latest[f])
    BY <1>1, <1>2 DEF DiskSaved, StagingEncrypted
  <2> QED
    BY <1>1, <2>1, FormsDiffer DEF LooksEncrypted
<1>4. BackupOf(disk.journal, f) = Enc(latest[f])
  BY <1>1, <1>2, <1>3 DEF DiskSaved, FollowedCopies, Covering
<1> QED
  BY <1>1, <1>2, <1>3, <1>4 DEF BackupOf

LEMMA RestoreSaved ==
    ASSUME NEW f \in Files, IInv, SavedInv, Restore(f) PROVE SavedInv'
<1>1. /\ TypeOK /\ pc = "rbRestore" /\ pc' = "rbUnstage" /\ mem' = mem /\ DiskSaved
      /\ latest' = latest /\ disk \in Disks
  BY TypesAsRecord DEF IInv, Restore, At, Rest, Loop, Quiet, Inside, Unseen, SavedInv
<1>2. DiskSaved' /\ Followed' = Followed /\ SameJournal /\ KeyOpens' = KeyOpens
  <2>1. CASE ~Restorable(f)
    BY <1>1, <2>1, SameSaves DEF Restore, SameJournal, KeyOpens
  <2>2. CASE Restorable(f)
    <3>1. /\ Followed /\ f \in Covered(disk.journal) /\ disk.journal.state # "staging"
          /\ BackupOf(mem, f) = Enc(latest[f])
      BY <2>2, RestorableFollowed DEF Restore
    <3>2. disk' = [disk EXCEPT !.live[f] = Enc(latest[f])] /\ Enc(latest[f]) \in Contents
      BY <1>1, <2>2, <3>1, FormsOfContents, VersionsTyped, BoundAssumption DEF Restore
    <3> QED
      BY <1>1, <3>1, <3>2, LiveSaves, LiveChanges DEF SameKey, KeyOpens
  <2> QED
    BY <2>1, <2>2
<1> QED
  BY <1>1, <1>2
  DEF SavedInv, StepSaved, CopiesMade, WholeByStep, FollowedByStep, NoStagingOpened,
      Swapping, Leaving, Keeping, Cleaning, Opening, SameJournal

\* A file that looks encrypted under a followed journal is whole.
LEMMA RollbackCheckSaved ==
    ASSUME IInv, SavedInv, RollbackCheck PROVE SavedInv'
<1>1. /\ TypeOK /\ pc = "rbUnstage" /\ KeyOpens /\ DiskSaved /\ latest' = latest /\ disk' = disk
      /\ Followed => Covered(mem) = Covered(disk.journal)
  BY DEF IInv, StepInv, KeyByStep, Undoing, RollbackCheck, Over, Unseen, SavedInv, StepSaved,
         FollowedByStep, Covered
<1>2. DiskSaved' /\ LiveWhole' = LiveWhole
  BY <1>1, SameSaves
<1>3. CASE \A f \in Covered(mem) : LooksEncrypted(disk.live[f])
  <2>1. ASSUME Followed, NEW f \in Files PROVE Whole(disk.live[f], latest[f])
    <3>1. CASE f \notin Covered(disk.journal)
      BY <1>1, <2>1, <3>1 DEF DiskSaved, FollowedCopies
    <3>2. CASE f \in Covered(disk.journal)
      <4>1. disk.live[f].form \in {"enc", "tornEnc"}
        BY <1>1, <1>3, <2>1, <3>2 DEF LooksEncrypted
      <4>2. disk.live[f] \in {None, Empty, Enc(latest[f]), Plain(latest[f])}
        BY <1>1, <2>1, <3>2 DEF DiskSaved, FollowedCopies, Covering
      <4> QED
        BY <4>1, <4>2, FormsDiffer DEF Whole
    <3> QED
      BY <3>1, <3>2
  <2>2. LiveWhole
    BY <1>1, <2>1 DEF LiveWhole, DiskSaved, UnfollowedWhole
  <2>3. pc' = "rbMarker"
    BY <1>3 DEF RollbackCheck, Goto
  <2> QED
    BY <1>2, <2>2, <2>3
    DEF SavedInv, StepSaved, CopiesMade, WholeByStep, FollowedByStep, NoStagingOpened,
        Swapping, Leaving, Keeping, Cleaning, Opening
<1>4. CASE ~\A f \in Covered(mem) : LooksEncrypted(disk.live[f])
  BY <1>2, <1>4, LeaveSaves DEF RollbackCheck, Leave, Goto
<1> QED
  BY <1>3, <1>4

LEMMA DropMarkerSaved ==
    ASSUME IInv, SavedInv, DropMarker PROVE SavedInv'
<1>1. /\ TypeOK /\ pc = "rbMarker" /\ pc' = "rbBaks" /\ DiskSaved /\ latest' = latest
      /\ LiveWhole /\ disk' = [disk EXCEPT !.marker = FALSE]
  BY DEF IInv, DropMarker, Loop, Quiet, Unseen, Keeping, SavedInv, StepSaved, WholeByStep
<1>2. DiskSaved' /\ LiveWhole'
  BY <1>1, MarkerSaves
<1> QED
  BY <1>1, <1>2
  DEF SavedInv, StepSaved, CopiesMade, WholeByStep, FollowedByStep, NoStagingOpened,
      Swapping, Leaving, Keeping, Cleaning, Opening

LEMMA DropBackupSaved ==
    ASSUME NEW p \in {"rbBaks", "fBaks"}, NEW f \in Files, IInv, SavedInv, DropBackup(p, f)
    PROVE  SavedInv'
<1>1. /\ TypeOK /\ pc = p /\ pc' = p /\ mem' = mem /\ DiskSaved /\ latest' = latest /\ disk \in Disks
      /\ disk' = [disk EXCEPT !.bak[mem.stamp][f] = None] /\ None \in Contents
      /\ mem.stamp \in 0..MaxAttempts
  BY FormsOfContents, TypesAsRecord, VersionsTyped
  DEF IInv, DropBackup, At, Rest, Loop, Quiet, Inside, Unseen, SavedInv
<1>2. LiveWhole
  <2>1. CASE p = "rbBaks"
    BY <1>1, <2>1 DEF SavedInv, StepSaved, WholeByStep, Keeping
  <2>2. CASE p = "fBaks"
    BY <1>1, <2>2, WholeUnfollowed DEF IInv, StepInv, KeyByStep, Cleaning
  <2> QED
    BY <2>1, <2>2
<1>3. DiskSaved' /\ LiveWhole' /\ SameJournal
  BY <1>1, <1>2, BakSaves, BakChanges
<1> QED
  BY <1>1, <1>3
  DEF SavedInv, StepSaved, CopiesMade, WholeByStep, FollowedByStep, NoStagingOpened,
      Swapping, Leaving, Keeping, Cleaning, Opening, SameJournal

\* Rollback and finish end, and leave no plan that is still being made.
LEMMA ReturnSaved ==
    ASSUME DiskSaved', NEW what, Return(what), disk'.journal.state # "staging"
    PROVE  SavedInv'
<1>1. pc' = "down" \/ pc' = "open"
  BY DEF Return, Leave, Goto
<1> QED
  BY <1>1
  DEF SavedInv, StepSaved, CopiesMade, WholeByStep, FollowedByStep, NoStagingOpened,
      Swapping, Leaving, Keeping, Cleaning, Opening

LEMMA DropJournalSaved ==
    ASSUME NEW p \in {"rbJournal", "fJournal"}, NEW what \in {"rolled_back", "completed"},
           IInv, SavedInv, DropJournal(p, what)
    PROVE  SavedInv'
<1>1. /\ TypeOK /\ pc = p /\ DiskSaved /\ latest' = latest /\ Return(what) /\ disk \in Disks
      /\ disk' = [disk EXCEPT !.journal = NoJournal]
      /\ NoJournal \in Journals /\ NoJournal.state = "none"
  BY JournalFiles, TypesAsRecord DEF IInv, DropJournal, Return, SavedInv, NoJournal
<1>2. LiveWhole
  <2>1. CASE p = "rbJournal"
    BY <1>1, <2>1 DEF SavedInv, StepSaved, WholeByStep, Keeping
  <2>2. CASE p = "fJournal"
    BY <1>1, <2>2, WholeUnfollowed DEF IInv, StepInv, KeyByStep, Cleaning
  <2> QED
    BY <2>1, <2>2
<1>3. DiskSaved' /\ disk'.journal.state # "staging"
  BY <1>1, <1>2, JournalSaves, JournalChanges
<1> QED
  BY <1>1, <1>3, ReturnSaved

LEMMA RollbackFailsSaved ==
    ASSUME IInv, SavedInv, RollbackFails PROVE SavedInv'
<1>1. /\ TypeOK /\ pc' = "down" /\ DiskSaved /\ latest' = latest
  BY DEF IInv, RollbackFails, Leave, Goto, Unseen, SavedInv
<1>2. DiskSaved'
  <2>1. CASE disk' = disk
    BY <1>1, <2>1, SameSaves
  <2>2. ASSUME NEW f \in Files, At("rbRestore", f), Restorable(f),
               disk' = [disk EXCEPT !.live[f] = None]
        PROVE  DiskSaved'
    BY <1>1, <2>2, RestorableFollowed, LiveSaves, FormsOfContents
  <2> QED
    BY <2>1, <2>2 DEF RollbackFails
<1> QED
  BY <1>1, <1>2, LeaveSaves

LEMMA FinishMarkerSaved ==
    ASSUME IInv, SavedInv, FinishMarker PROVE SavedInv'
<1>1. /\ TypeOK /\ pc = "fMarker" /\ pc' = "fKey" /\ DiskSaved /\ latest' = latest
      /\ LiveWhole /\ disk' = [disk EXCEPT !.marker = TRUE]
  BY DEF IInv, FinishMarker, Goto, Quiet, Unseen, Leaving, SavedInv, StepSaved, WholeByStep
<1>2. DiskSaved' /\ LiveWhole'
  BY <1>1, MarkerSaves
<1> QED
  BY <1>1, <1>2
  DEF SavedInv, StepSaved, CopiesMade, WholeByStep, FollowedByStep, NoStagingOpened,
      Swapping, Leaving, Keeping, Cleaning, Opening

\* The key leaves its path over files that are all whole.
LEMMA FinishKeySaved ==
    ASSUME IInv, SavedInv, FinishKey PROVE SavedInv'
<1>1. /\ TypeOK /\ pc = "fKey" /\ pc' = "fZero" /\ DiskSaved /\ latest' = latest /\ LiveWhole
      /\ disk.journal.state = "committing" /\ disk \in Disks
      /\ disk' = [disk EXCEPT !.key = IF KeyOpens THEN "held" ELSE @]
  BY TypesAsRecord
  DEF IInv, StepInv, JournalHeld, FinishKey, Goto, Quiet, Unseen, Leaving, SavedInv,
      StepSaved, WholeByStep
<1>2. \E k \in {"held", "zeroed", "gone"} : disk' = [disk EXCEPT !.key = k]
  BY <1>1 DEF KeyOpens, Disks
<1>3. DiskSaved' /\ SameJournal
  BY <1>1, <1>2, KeySaves, KeyChanges
<1> QED
  BY <1>1, <1>3
  DEF SavedInv, StepSaved, CopiesMade, WholeByStep, FollowedByStep, NoStagingOpened,
      Swapping, Leaving, Keeping, Cleaning, Opening, SameJournal

\* What is left of the key is destroyed.
LEMMA DestroySaved ==
    ASSUME IInv, SavedInv, ~KeyOpens, latest' = latest,
           disk' = disk \/ \E k \in {"held", "zeroed", "gone"} : disk' = [disk EXCEPT !.key = k]
    PROVE  DiskSaved' /\ SameJournal
<1>1. TypeOK /\ disk \in Disks /\ DiskSaved /\ LiveWhole
  BY WholeUnfollowed, TypesAsRecord DEF IInv, SavedInv
<1>2. CASE disk' = disk
  BY <1>1, <1>2, SameSaves DEF SameJournal
<1>3. CASE \E k \in {"held", "zeroed", "gone"} : disk' = [disk EXCEPT !.key = k]
  BY <1>1, <1>3, KeySaves, KeyChanges
<1> QED
  BY <1>2, <1>3

LEMMA ZeroOrUnlinkSaved ==
    ASSUME IInv, SavedInv, ZeroKey \/ UnlinkKey PROVE SavedInv'
<1>1. /\ pc \in Cleaning /\ pc' \in Cleaning /\ ~KeyOpens /\ latest' = latest /\ disk \in Disks
  BY TypesAsRecord
  DEF IInv, StepInv, KeyByStep, Cleaning, ZeroKey, UnlinkKey, Goto, Loop, Quiet, Unseen
<1>2. \E k \in {"held", "zeroed", "gone"} : disk' = [disk EXCEPT !.key = k]
  BY <1>1 DEF KeyOpens, Disks, ZeroKey, UnlinkKey
<1>3. DiskSaved' /\ SameJournal
  BY <1>1, <1>2, DestroySaved
<1> QED
  BY <1>1, <1>3
  DEF SavedInv, StepSaved, CopiesMade, WholeByStep, FollowedByStep, NoStagingOpened,
      Swapping, Leaving, Keeping, Cleaning, Opening, SameJournal

LEMMA FinishThrowsSaved ==
    ASSUME SavedInv, FinishThrows PROVE SavedInv'
BY SameSaves, LeaveSaves DEF SavedInv, FinishThrows, Leave, Goto, Unseen

LEMMA FinishWarnsSaved ==
    ASSUME IInv, SavedInv, FinishWarns PROVE SavedInv'
<1>1. /\ pc \in Cleaning /\ ~KeyOpens /\ latest' = latest /\ Return("completed")
      /\ disk' = disk \/ disk' = [disk EXCEPT !.key = "zeroed"]
  BY DEF IInv, StepInv, KeyByStep, Cleaning, FinishWarns, At, Return
<1>2. DiskSaved' /\ SameJournal
  BY <1>1, DestroySaved
<1>3. disk.journal.state # "staging"
  BY <1>1 DEF SavedInv, StepSaved, NoStagingOpened
<1> QED
  BY <1>1, <1>2, <1>3, ReturnSaved DEF SameJournal

LEMMA BootSaved ==
    ASSUME JournalUnread = FALSE, IInv, SavedInv, Boot PROVE SavedInv'
<1>1. DiskSaved /\ latest' = latest /\ disk' = disk
  BY DEF Boot, SavedInv
<1>2. DiskSaved' /\ Followed' = Followed /\ KeyOpens' = KeyOpens
  BY <1>1, SameSaves DEF KeyOpens
<1>3. CASE disk.journal = NoJournal /\ pc' = "open"
  BY <1>1, <1>2, <1>3
  DEF NoJournal, SavedInv, StepSaved, CopiesMade, WholeByStep, FollowedByStep, NoStagingOpened,
      Swapping, Leaving, Keeping, Cleaning, Opening
<1>4. CASE disk.journal.state = "committing" /\ pc' = "discard"
  BY <1>1, <1>2, <1>4
  DEF SavedInv, StepSaved, CopiesMade, WholeByStep, FollowedByStep, NoStagingOpened,
      Swapping, Leaving, Keeping, Cleaning, Opening
<1>5. CASE disk.journal.state = "staging" /\ pc' = "rbKey" /\ mem' = disk.journal
  <2>1. ~Followed /\ mem'.state # "committing"
    BY <1>5 DEF Followed
  <2> QED
    BY <1>1, <1>2, <1>5, <2>1
    DEF SavedInv, StepSaved, CopiesMade, WholeByStep, FollowedByStep, NoStagingOpened,
        Swapping, Leaving, Keeping, Cleaning, Opening
<1>6. CASE disk.journal.state = "committing" /\ ~Untrusted /\ pc' = "swap"
  <2>1. KeyOpens => Followed
    BY <1>6 DEF Followed, Untrusted
  <2> QED
    BY <1>1, <1>2, <1>6, <2>1
    DEF SavedInv, StepSaved, CopiesMade, WholeByStep, FollowedByStep, NoStagingOpened,
        Swapping, Leaving, Keeping, Cleaning, Opening
<1> QED
  BY <1>3, <1>4, <1>5, <1>6 DEF Boot, Goto, Loop, Untrusted

LEMMA DiscardSaved ==
    ASSUME NEW f \in Files, IInv, SavedInv, Discard(f) PROVE SavedInv'
<1>1. /\ TypeOK /\ pc = "discard" /\ pc' = "discard" /\ DiskSaved /\ latest' = latest
      /\ disk' = disk \/ disk' = [disk EXCEPT !.staged[f] = None]
      /\ disk \in Disks /\ None \in Contents
  BY FormsOfContents, TypesAsRecord DEF IInv, Discard, At, Rest, Loop, Unseen, SavedInv
<1>2. DiskSaved' /\ SameJournal
  <2>1. CASE disk' = disk
    BY <1>1, <2>1, SameSaves DEF SameJournal
  <2>2. CASE disk' = [disk EXCEPT !.staged[f] = None]
    BY <1>1, <2>2, StagedSaves, StagedChanges
  <2> QED
    BY <1>1, <2>1, <2>2
<1> QED
  BY <1>1, <1>2
  DEF SavedInv, StepSaved, CopiesMade, WholeByStep, FollowedByStep, NoStagingOpened,
      Swapping, Leaving, Keeping, Cleaning, Opening, SameJournal

LEMMA SetJournalAsideSaved ==
    ASSUME IInv, SavedInv, SetJournalAside PROVE SavedInv'
<1>1. /\ TypeOK /\ pc = "aside" /\ pc' = "open" /\ DiskSaved /\ latest' = latest /\ LiveWhole
      /\ disk' = disk \/ disk' = [disk EXCEPT !.journal = NoJournal]
      /\ disk \in Disks /\ NoJournal \in Journals /\ NoJournal.state = "none"
  BY WholeUnfollowed, JournalFiles, TypesAsRecord
  DEF IInv, SetJournalAside, Goto, Opening, SavedInv, NoJournal
<1>2. disk.journal.state # "staging"
  BY <1>1 DEF SavedInv, StepSaved, NoStagingOpened, Opening
<1>3. DiskSaved' /\ disk'.journal.state # "staging"
  <2>1. CASE disk' = disk
    BY <1>1, <1>2, <2>1, SameSaves
  <2>2. CASE disk' = [disk EXCEPT !.journal = NoJournal]
    BY <1>1, <2>2, JournalSaves, JournalChanges
  <2> QED
    BY <1>1, <2>1, <2>2
<1> QED
  BY <1>1, <1>3
  DEF SavedInv, StepSaved, CopiesMade, WholeByStep, FollowedByStep, NoStagingOpened,
      Swapping, Leaving, Keeping, Cleaning, Opening

LEMMA BootFailsSaved ==
    ASSUME IInv, SavedInv, BootFails PROVE SavedInv'
<1>1. /\ pc \in Swapping /\ DiskSaved /\ latest' = latest /\ disk' = disk /\ mem' = mem
      /\ pc' \in {"rbKey", "uMarker"} /\ mem = disk.journal /\ mem.state = "committing"
      /\ KeyOpens => Followed
  BY DEF IInv, StepInv, JournalHeld, Swapping, BootFails, Goto, Inside, Unseen,
         SavedInv, StepSaved, FollowedByStep
<1>2. DiskSaved' /\ Followed' = Followed /\ KeyOpens' = KeyOpens
  BY <1>1, SameSaves DEF KeyOpens
<1> QED
  BY <1>1, <1>2
  DEF SavedInv, StepSaved, CopiesMade, WholeByStep, FollowedByStep, NoStagingOpened,
      Swapping, Leaving, Keeping, Cleaning, Opening

LEMMA KeepUnverifiedSaved ==
    ASSUME IInv, SavedInv, KeepUnverified PROVE SavedInv'
<1>1. /\ TypeOK /\ pc = "uMarker" /\ pc' = "open" /\ DiskSaved /\ latest' = latest
      /\ disk' = [disk EXCEPT !.marker = TRUE] /\ disk \in Disks
  BY TypesAsRecord DEF IInv, KeepUnverified, Goto, SavedInv
<1>2. DiskSaved' /\ SameJournal
  BY <1>1, MarkerSaves, MarkerChanges
<1> QED
  BY <1>1, <1>2
  DEF SavedInv, StepSaved, CopiesMade, WholeByStep, FollowedByStep, NoStagingOpened,
      Swapping, Leaving, Keeping, Cleaning, Opening, SameJournal

\* The database the boot finds is whole: it encrypts it or leaves it, and
\* never creates an empty one.
LEMMA OpenCampSaved ==
    ASSUME IInv, SavedInv, OpenCamp PROVE SavedInv'
<1>1. /\ TypeOK /\ pc = "open" /\ pc' = "running" /\ DiskSaved /\ latest' = latest
      /\ ~Followed /\ LiveWhole /\ disk.journal.state # "staging"
      /\ disk \in Disks /\ Db \in Files
  BY WholeUnfollowed, TypesAsRecord
  DEF IInv, OpenCamp, Goto, Unseen, Opening, SavedInv, StepSaved, NoStagingOpened, Files
<1>2. Whole(disk.live[Db], latest[Db]) /\ disk.live[Db].form \in {"enc", "plain"}
  BY <1>1, FormsDiffer DEF LiveWhole
<1>3. disk' = disk \/ disk' = [disk EXCEPT !.live[Db] = Enc(latest[Db])]
  <2>1. CASE disk.live[Db].form = "plain"
    <3>1. disk.live[Db] = Plain(latest[Db])
      BY <1>2, <2>1, FormsDiffer DEF Whole
    <3>2. [disk.live[Db] EXCEPT !.form = "enc"] = Enc(latest[Db])
      BY <3>1 DEF Plain, Enc
    <3>3. [disk EXCEPT !.live[Db].form = "enc"]
             = [disk EXCEPT !.live[Db] = [disk.live[Db] EXCEPT !.form = "enc"]]
      OBVIOUS
    <3> QED
      BY <2>1, <3>2, <3>3 DEF OpenCamp
  <2>2. CASE disk.live[Db].form = "enc"
    BY <2>2 DEF OpenCamp
  <2> QED
    BY <1>2, <2>1, <2>2
<1>4. DiskSaved' /\ SameJournal
  <2>1. CASE disk' = disk
    BY <1>1, <2>1, SameSaves DEF SameJournal
  <2>2. CASE disk' = [disk EXCEPT !.live[Db] = Enc(latest[Db])]
    <3>1. Enc(latest[Db]) \in Contents
      BY <1>1, FormsOfContents, VersionsTyped, BoundAssumption
    <3>2. Whole(Enc(latest[Db]), latest[Db])
      BY DEF Whole
    <3> QED
      BY <1>1, <2>2, <3>1, <3>2, LiveSaves, LiveChanges
  <2> QED
    BY <1>3, <2>1, <2>2
<1> QED
  BY <1>1, <1>4
  DEF SavedInv, StepSaved, CopiesMade, WholeByStep, FollowedByStep, NoStagingOpened,
      Swapping, Leaving, Keeping, Cleaning, Opening, SameJournal

LEMMA LoopEndsSaved ==
    ASSUME IInv, SavedInv, LoopEnds PROVE SavedInv'
<1>1. /\ TypeOK /\ DiskSaved /\ latest' = latest /\ disk' = disk /\ mem' = mem /\ left = <<>>
      /\ mem \in Journals
  BY DEF IInv, LoopEnds, Over, Quiet, Inside, Unseen, SavedInv, TypeOK
<1>2. /\ DiskSaved' /\ Followed' = Followed /\ LiveWhole' = LiveWhole /\ KeyOpens' = KeyOpens
      /\ \A f : BackedUp(f)' = BackedUp(f) /\ StagedPlain(f)' = StagedPlain(f)
  BY <1>1, SameSaves DEF KeyOpens, BackedUp, StagedPlain, BackupOf
<1>3. CASE pc = "backup" /\ pc' = "stage" /\ left' = Reverse(mem.files)
  <2>1. \A f \in Covered(mem) : BackedUp(f)
    BY <1>1, <1>3, EmptyLoop DEF SavedInv, StepSaved, CopiesMade
  <2>2. Covered(mem) \subseteq Range(left')
    <3>1. mem.files \in Seq(Files)
      BY <1>1, JournalFiles
    <3>2. DOMAIN Reverse(mem.files) = 1..Len(mem.files)
      BY <3>1 DEF Reverse
    <3> SUFFICES ASSUME NEW i \in 1..Len(mem.files) PROVE mem.files[i] \in Range(left')
      BY <3>1 DEF Range, Covered
    <3>3. Len(mem.files) - i + 1 \in 1..Len(mem.files)
      BY <3>1
    <3>4. Reverse(mem.files)[Len(mem.files) - i + 1] = mem.files[i]
      BY <3>1, <3>3 DEF Reverse
    <3> QED
      BY <1>3, <3>2, <3>3, <3>4 DEF Range
  <2> QED
    BY <1>1, <1>2, <1>3, <2>1, <2>2
    DEF SavedInv, StepSaved, CopiesMade, WholeByStep, FollowedByStep, NoStagingOpened,
        Swapping, Leaving, Keeping, Cleaning, Opening
<1>4. CASE pc = "stage" /\ pc' = "commit"
  <2>1. \A f \in Covered(mem) : BackedUp(f) /\ StagedPlain(f)
    BY <1>1, <1>4, EmptyLoop DEF SavedInv, StepSaved, CopiesMade
  <2> QED
    BY <1>1, <1>2, <1>4, <2>1
    DEF SavedInv, StepSaved, CopiesMade, WholeByStep, FollowedByStep, NoStagingOpened,
        Swapping, Leaving, Keeping, Cleaning, Opening
<1>5. CASE \/ pc = "swap" /\ pc' = "check"
           \/ pc = "rbBaks" /\ pc' = "rbJournal"
           \/ pc = "fBaks" /\ pc' = "fJournal"
           \/ pc = "discard" /\ pc' = "aside"
  BY <1>1, <1>2, <1>5
  DEF SavedInv, StepSaved, CopiesMade, WholeByStep, FollowedByStep, NoStagingOpened,
      Swapping, Leaving, Keeping, Cleaning, Opening
<1> QED
  BY <1>3, <1>4, <1>5 DEF LoopEnds, Over, Loop, Goto

\* A kill leaves half of a copy that nobody relies on, or of a file that the
\* journal's backups still cover.
LEMMA KillSaved ==
    ASSUME RestoreTears = FALSE, IInv, SavedInv, Kill PROVE SavedInv'
<1>1. /\ TypeOK /\ pc' = "down" /\ DiskSaved /\ latest' = latest /\ disk \in Disks
      /\ disk' \in {disk} \cup HalfWritten
  BY TypesAsRecord DEF IInv, Kill, Leave, Goto, Unseen, SavedInv
<1>2. ASSUME NEW f \in Files
      PROVE  /\ \A c \in Torn(disk.live[f]) \cup Torn(Plain(0)) \cup {disk.live[f]} :
                   c \in Contents /\ c.ver <= latest[f]
             /\ Empty \in Contents
  <2>1. disk.live[f] \in Contents /\ disk.live[f].ver <= latest[f]
        /\ latest[f] \in Nat /\ Plain(0) \in Contents
    BY <1>1, VersionsTyped, FormsOfContents, BoundAssumption DEF DiskSaved, NoNewer
  <2>2. \A c : \A d \in Torn(c) : d.ver = 0
    BY FormsDiffer DEF Torn
  <2>3. Torn(disk.live[f]) \subseteq Contents /\ Torn(Plain(0)) \subseteq Contents
    BY <2>1, TornContents
  <2> QED
    BY <2>1, <2>2, <2>3, FormsOfContents
<1>3. pc \in {"backup", "stage"} => disk.journal.state = "staging" /\ ~Followed
                                    /\ mem.stamp \in 0..MaxAttempts
  BY <1>1, VersionsTyped DEF IInv, StepInv, JournalHeld, Preparing, Followed
<1>4. DiskSaved'
  <2>1. CASE disk' = disk
    BY <1>1, <2>1, SameSaves
  <2>2. ASSUME NEW f \in Files, At("backup", f), NEW c \in Contents, c.ver <= latest[f],
               disk' = [disk EXCEPT !.bak[mem.stamp][f] = c]
        PROVE  DiskSaved'
    BY <1>1, <1>3, <2>2, BakSaves DEF At
  <2>3. ASSUME NEW f \in Files, At("stage", f), NEW c \in Contents, c.ver <= latest[f],
               disk' = [disk EXCEPT !.staged[f] = c]
        PROVE  DiskSaved'
    BY <1>1, <1>3, <2>3, StagedSaves DEF At
  <2>4. ASSUME NEW f \in Files, At("rbRestore", f), Restorable(f),
               disk' = [disk EXCEPT !.live[f] = Empty]
        PROVE  DiskSaved'
    BY <1>1, <1>2, <2>4, RestorableFollowed, LiveSaves
  <2>5. CASE disk' \in HalfWritten
    <3> DEFINE B(f) == IF At("backup", f) THEN Torn(disk.live[f]) ELSE {}
               S(f) == IF At("stage", f)
                       THEN {disk.live[f]} \cup Torn(disk.live[f]) \cup Torn(Plain(0)) ELSE {}
               L(f) == IF ~(At("rbRestore", f) /\ Restorable(f)) THEN {}
                       ELSE IF RestoreTears THEN Torn(BackupOf(mem, f)) ELSE {Empty}
    <3>1. HalfWritten = UNION {
              {[disk EXCEPT !.bak[mem.stamp][f] = c] : c \in B(f)}
              \cup {[disk EXCEPT !.staged[f] = c] : c \in S(f)}
              \cup {[disk EXCEPT !.live[f] = c] : c \in L(f)} : f \in Files}
      BY DEF HalfWritten
    <3>2. \A f \in Files :
             /\ B(f) # {} => At("backup", f)
             /\ S(f) # {} => At("stage", f)
             /\ L(f) # {} => At("rbRestore", f) /\ Restorable(f) /\ L(f) = {Empty}
             /\ \A c \in B(f) \cup S(f) : c \in Contents /\ c.ver <= latest[f]
      BY <1>2
    <3> HIDE DEF B, S, L
    <3>3. PICK f \in Files :
             \/ \E c \in B(f) : disk' = [disk EXCEPT !.bak[mem.stamp][f] = c]
             \/ \E c \in S(f) : disk' = [disk EXCEPT !.staged[f] = c]
             \/ \E c \in L(f) : disk' = [disk EXCEPT !.live[f] = c]
      BY <2>5, <3>1
    <3>4. CASE \E c \in B(f) : disk' = [disk EXCEPT !.bak[mem.stamp][f] = c]
      BY <2>2, <3>2, <3>4
    <3>5. CASE \E c \in S(f) : disk' = [disk EXCEPT !.staged[f] = c]
      BY <2>3, <3>2, <3>5
    <3>6. CASE \E c \in L(f) : disk' = [disk EXCEPT !.live[f] = c]
      BY <2>4, <3>2, <3>6
    <3> QED
      BY <3>3, <3>4, <3>5, <3>6
  <2> QED
    BY <1>1, <2>1, <2>5
<1> QED
  BY <1>1, <1>4, LeaveSaves

LEMMA ProceedSaved ==
    ASSUME JournalUnread = FALSE, IInv, SavedInv, Proceed PROVE SavedInv'
<1>1. CASE \E f \in Files :
             \/ Backup(f) \/ Stage(f) \/ SwapStaged(f)
             \/ Unstage(f) \/ Restore(f) \/ DropBackup("rbBaks", f)
             \/ DropBackup("fBaks", f) \/ Discard(f)
  BY <1>1, BackupSaved, StageSaved, SwapSaved, UnstageSaved, RestoreSaved, DropBackupSaved,
     DiscardSaved
<1>2. CASE \/ Commit \/ Check \/ WriteMarker \/ HoldKey
           \/ RollbackNeedsKey \/ RollbackCheck \/ DropMarker
           \/ DropJournal("rbJournal", "rolled_back")
  BY <1>2, CommitSaved, CheckSaved, WriteMarkerSaved, HoldKeySaved, RollbackNeedsKeySaved,
     RollbackCheckSaved, DropMarkerSaved, DropJournalSaved
<1>3. CASE \/ FinishMarker \/ FinishKey \/ ZeroKey \/ UnlinkKey
           \/ DropJournal("fJournal", "completed")
           \/ Boot \/ SetJournalAside \/ KeepUnverified \/ OpenCamp
           \/ LoopEnds
  BY <1>3, FinishMarkerSaved, FinishKeySaved, ZeroOrUnlinkSaved, DropJournalSaved, BootSaved,
     SetJournalAsideSaved, KeepUnverifiedSaved, OpenCampSaved, LoopEndsSaved
<1> QED
  BY <1>1, <1>2, <1>3 DEF Proceed

LEMMA InductiveSaved ==
    ASSUME JournalUnread = FALSE, RestoreTears = FALSE, IInv, SavedInv, [Next]_vars
    PROVE  SavedInv'
<1>1. CASE UNCHANGED vars
  <2>1. disk' = disk /\ pc' = pc /\ left' = left /\ mem' = mem /\ latest' = latest
    BY <1>1 DEF vars
  <2>2. /\ DiskSaved' /\ Followed' = Followed /\ LiveWhole' = LiveWhole /\ KeyOpens' = KeyOpens
        /\ \A f : BackedUp(f)' = BackedUp(f) /\ StagedPlain(f)' = StagedPlain(f)
    BY <2>1, SameSaves DEF SavedInv, KeyOpens, BackedUp, StagedPlain, BackupOf
  <2> QED
    BY <2>1, <2>2
    DEF SavedInv, StepSaved, CopiesMade, WholeByStep, FollowedByStep, NoStagingOpened
<1>2. CASE Proceed
  BY <1>2, ProceedSaved
<1>3. CASE StartDisable \/ Quit \/ \E f \in Files : Save(f)
  BY <1>3, StartSaved, QuitSaved, SaveSaved
<1>4. CASE BodyFails \/ RollbackFails \/ FinishThrows \/ FinishWarns \/ BootFails \/ Kill
  BY <1>4, BodyFailsSaved, RollbackFailsSaved, FinishThrowsSaved, FinishWarnsSaved,
     BootFailsSaved, KillSaved
<1> QED
  BY <1>1, <1>2, <1>3, <1>4 DEF Next

\* The newest copy that opens is the one last saved.
LEMMA NewestIsLatest ==
    ASSUME IInv, SavedInv, NEW f \in Files PROVE Newest(f) = latest[f]
<1>1. /\ TypeOK /\ KeyGoesLast /\ DiskSaved /\ latest[f] \in Nat
      /\ disk.journal.stamp \in 0..MaxAttempts /\ Covered(disk.journal) \subseteq Files
      /\ disk.live[f] \in Contents /\ disk.staged[f] \in Contents
      /\ BackupOf(disk.journal, f) \in Contents
  BY VersionsTyped DEF IInv, DiskInv, SavedInv, BackupOf
<1> DEFINE V == {0} \cup {c.ver : c \in Openable(f)}
<1>2. \E c \in Openable(f) : c.ver = latest[f]
  <2>1. CASE Whole(disk.live[f], latest[f])
    <3>1. disk.live[f].form = "plain" \/ (disk.live[f].form = "enc" /\ disk.key = "path")
      BY <1>1, <2>1, FormsDiffer DEF KeyGoesLast, KeyOpens
    <3> QED
      BY <2>1, <3>1, FormsDiffer DEF Openable
  <2>2. CASE Followed /\ f \in Covered(disk.journal)
    <3>1. BackupOf(disk.journal, f) = Enc(latest[f]) /\ disk.key = "path"
      BY <1>1, <2>2 DEF DiskSaved, FollowedCopies, Covering, Followed, KeyOpens
    <3> QED
      BY <3>1, FormsDiffer DEF Openable
  <2>3. ~Followed => Whole(disk.live[f], latest[f])
    BY <1>1 DEF DiskSaved, UnfollowedWhole, LiveWhole
  <2>4. Followed /\ f \notin Covered(disk.journal) => Whole(disk.live[f], latest[f])
    BY <1>1 DEF DiskSaved, FollowedCopies
  <2> QED
    BY <2>1, <2>2, <2>3, <2>4
<1>3. \A v \in V : v \in Nat /\ v <= latest[f]
  <2>1. \A c \in Contents : c.ver \in Nat
    BY BoundAssumption DEF Contents
  <2>2. \A c \in Openable(f) : c \in Contents /\ c.ver <= latest[f]
    BY <1>1 DEF Openable, DiskSaved, NoNewer, BackupOf
  <2> QED
    BY <1>1, <2>1, <2>2
<1>4. latest[f] \in V
  BY <1>2
<1>5. Newest(f) = CHOOSE x \in V : \A y \in V : x >= y
  BY DEF Newest, Max
<1> HIDE DEF V
<1>6. latest[f] \in V /\ \A y \in V : latest[f] >= y
  BY <1>1, <1>3, <1>4
<1>7. \A x \in V : (\A y \in V : x >= y) => x = latest[f]
  BY <1>1, <1>3, <1>6
<1> QED
  BY <1>5, <1>6, <1>7

BothInv == IInv /\ SavedInv

LEMMA SavedIsLatest == BothInv => \A f \in Files : Newest(f) = latest[f]
BY NewestIsLatest DEF BothInv

LEMMA OpenedIsLatest ==
    ASSUME IInv, SavedInv PROVE OpensLatest
<1>1. pc = "running" => LiveWhole
  BY WholeUnfollowed DEF Opening
<1> QED
  BY <1>1, FormsDiffer DEF OpensLatest, LiveWhole

LEMMA KeyStays ==
    ASSUME disk \in Disks
    PROVE  /\ \A f \in Files : \A c :
              /\ [disk EXCEPT !.live[f] = c].key = disk.key
              /\ [disk EXCEPT !.staged[f] = c].key = disk.key
           /\ \A f \in Files : \A c, d : [disk EXCEPT !.live[f] = c, !.staged[f] = d].key = disk.key
           /\ \A i, f, c : [disk EXCEPT !.bak[i][f] = c].key = disk.key
           /\ \A j : [disk EXCEPT !.journal = j].key = disk.key
           /\ \A b : [disk EXCEPT !.marker = b].key = disk.key
           /\ \A k : [disk EXCEPT !.key = k].key = k
BY DEF Disks

\* A step of a loop over files leaves the key where it is.
LEMMA FileStepsKeepKey ==
    ASSUME disk \in Disks, NEW f \in Files,
           \/ Backup(f) \/ Stage(f) \/ SwapStaged(f)
           \/ Unstage(f) \/ Restore(f) \/ DropBackup("rbBaks", f)
           \/ DropBackup("fBaks", f) \/ Discard(f)
    PROVE  disk'.key = disk.key /\ latest' = latest
<1>1. CASE Backup(f)
  BY <1>1, KeyStays DEF Backup, Quiet, Unseen
<1>2. CASE Stage(f)
  BY <1>2, KeyStays DEF Stage, Quiet, Unseen
<1>3. CASE SwapStaged(f)
  BY <1>3, KeyStays DEF SwapStaged, Quiet, Unseen
<1>4. CASE Unstage(f)
  BY <1>4, KeyStays DEF Unstage, Quiet, Unseen
<1>5. CASE Restore(f)
  BY <1>5, KeyStays DEF Restore, Quiet, Unseen
<1>6. CASE DropBackup("rbBaks", f) \/ DropBackup("fBaks", f)
  <2>1. disk' = [disk EXCEPT !.bak[mem.stamp][f] = None] /\ latest' = latest
    BY <1>6 DEF DropBackup, Quiet, Unseen
  <2> QED
    BY <2>1 DEF Disks
<1>7. CASE Discard(f)
  <2>1. disk' \in {disk, [disk EXCEPT !.staged[f] = None]} /\ latest' = latest
    BY <1>7 DEF Discard, Unseen
  <2> QED
    BY <2>1 DEF Disks
<1> QED
  BY <1>1, <1>2, <1>3, <1>4, <1>5, <1>6, <1>7

LEMMA OtherStepsKeepKey ==
    ASSUME disk \in Disks,
           \/ Commit \/ Check \/ WriteMarker
           \/ RollbackNeedsKey \/ RollbackCheck \/ DropMarker
           \/ DropJournal("rbJournal", "rolled_back")
           \/ FinishMarker \/ DropJournal("fJournal", "completed")
           \/ Boot \/ SetJournalAside \/ KeepUnverified \/ OpenCamp \/ LoopEnds
           \/ StartDisable \/ Quit
           \/ BodyFails \/ RollbackFails \/ FinishThrows \/ BootFails \/ Kill
    PROVE  disk'.key = disk.key /\ latest' = latest
<1>1. CASE Commit \/ Check \/ WriteMarker
  BY <1>1, KeyStays DEF Commit, Check, WriteMarker, Quiet, Unseen
<1>2. CASE RollbackNeedsKey \/ RollbackCheck \/ DropMarker
  BY <1>2, KeyStays DEF RollbackNeedsKey, RollbackCheck, DropMarker, Quiet, Unseen
<1>3. CASE DropJournal("rbJournal", "rolled_back") \/ DropJournal("fJournal", "completed")
  BY <1>3, KeyStays DEF DropJournal, Return
<1>4. CASE FinishMarker \/ Boot \/ SetJournalAside \/ KeepUnverified
  BY <1>4, KeyStays DEF FinishMarker, Boot, SetJournalAside, KeepUnverified, Quiet, Unseen
<1>5. CASE OpenCamp
  <2>1. [disk EXCEPT !.live[Db].form = "enc"].key = disk.key
    BY DEF Disks
  <2> QED
    BY <1>5, <2>1, KeyStays DEF OpenCamp, Unseen, Files
<1>6. CASE LoopEnds \/ Quit \/ BodyFails \/ FinishThrows \/ BootFails
  BY <1>6 DEF LoopEnds, Quit, BodyFails, FinishThrows, BootFails, Quiet, Unseen
<1>7. CASE StartDisable
  <2>1. (disk' = disk \/ disk' = [disk EXCEPT !.journal = mem']) /\ latest' = latest
    BY <1>7 DEF StartDisable, Unseen
  <2> QED
    BY <2>1, KeyStays
<1>8. CASE RollbackFails
  <2>1. /\ disk' = disk \/ \E f \in Files : disk' = [disk EXCEPT !.live[f] = None]
        /\ latest' = latest
    BY <1>8 DEF RollbackFails, Unseen
  <2> QED
    BY <2>1 DEF Disks
<1>9. CASE Kill
  <2>1. ASSUME NEW d \in HalfWritten PROVE d.key = disk.key
    <3> DEFINE B(f) == IF At("backup", f) THEN Torn(disk.live[f]) ELSE {}
               S(f) == IF At("stage", f)
                       THEN {disk.live[f]} \cup Torn(disk.live[f]) \cup Torn(Plain(0)) ELSE {}
               L(f) == IF ~(At("rbRestore", f) /\ Restorable(f)) THEN {}
                       ELSE IF RestoreTears THEN Torn(BackupOf(mem, f)) ELSE {Empty}
    <3>1. HalfWritten = UNION {
              {[disk EXCEPT !.bak[mem.stamp][f] = c] : c \in B(f)}
              \cup {[disk EXCEPT !.staged[f] = c] : c \in S(f)}
              \cup {[disk EXCEPT !.live[f] = c] : c \in L(f)} : f \in Files}
      BY DEF HalfWritten
    <3> HIDE DEF B, S, L
    <3>2. PICK f \in Files :
             \/ \E c \in B(f) : d = [disk EXCEPT !.bak[mem.stamp][f] = c]
             \/ \E c \in S(f) : d = [disk EXCEPT !.staged[f] = c]
             \/ \E c \in L(f) : d = [disk EXCEPT !.live[f] = c]
      BY <2>1, <3>1
    <3> QED
      BY <3>2 DEF Disks
  <2> QED
    BY <1>9, <2>1 DEF Kill, Unseen
<1> QED
  BY <1>1, <1>2, <1>3, <1>4, <1>5, <1>6, <1>7, <1>8, <1>9

\* A step saves a file, or saves nothing; the key never returns to its path.
LEMMA StepsSave ==
    ASSUME IInv, Next
    PROVE  /\ KeyOpens' => KeyOpens
           /\ \/ latest' = latest
              \/ /\ KeyOpens' = KeyOpens
                 /\ \E f \in Files : latest' = [latest EXCEPT ![f] = latest[f] + 1]
<1>1. disk \in Disks
  BY TypesAsRecord DEF IInv
<1>2. CASE \E f \in Files : Save(f)
  <2>1. disk'.key = disk.key
    BY <1>1, <1>2, KeyStays DEF Save
  <2> QED
    BY <1>2, <2>1 DEF Save, KeyOpens
<1>3. CASE HoldKey \/ FinishKey \/ ZeroKey \/ UnlinkKey \/ FinishWarns
  <2>1. latest' = latest
    BY <1>3 DEF HoldKey, FinishKey, ZeroKey, UnlinkKey, FinishWarns, Return, Quiet, Unseen
  <2>2. disk'.key \in {disk.key, "held", "zeroed", "gone"}
    BY <1>1, <1>3, KeyStays DEF HoldKey, FinishKey, ZeroKey, UnlinkKey, FinishWarns
  <2> QED
    BY <2>1, <2>2 DEF KeyOpens
<1>4. CASE disk'.key = disk.key /\ latest' = latest
  BY <1>4 DEF KeyOpens
<1> QED
  BY <1>1, <1>2, <1>3, <1>4, FileStepsKeepKey, OtherStepsKeepKey DEF Next, Proceed

LEMMA BothInductive ==
    ASSUME JournalUnread = FALSE, RestoreTears = FALSE
    PROVE  /\ Init => BothInv
           /\ BothInv /\ [Next]_vars => BothInv'
BY InitInv, InitSaved, Inductive, InductiveSaved DEF BothInv

\* At every instant, killed or not, each file's last saved version is in a copy
\* that can be opened, while the journal can be read and a restore is not torn
\* (disableRecovery.js 1-12).
THEOREM NeverLost ==
    JournalUnread = FALSE /\ RestoreTears = FALSE => (Spec => []NothingLost)
<1> SUFFICES ASSUME JournalUnread = FALSE, RestoreTears = FALSE PROVE Spec => []NothingLost
  OBVIOUS
<1>1. Init => BothInv
  BY BothInductive
<1>2. BothInv /\ [Next]_vars => BothInv'
  BY BothInductive
<1>3. BothInv => NothingLost
  BY NewestIsLatest DEF BothInv, NothingLost
<1> QED
  BY <1>1, <1>2, <1>3, PTL DEF Spec

\* Whatever happened to the device, the files a session opens are whole and the
\* last saved, and never an older version or an empty database.
THEOREM SessionsOpenLatest ==
    JournalUnread = FALSE /\ RestoreTears = FALSE => (Spec => []OpensLatest)
<1> SUFFICES ASSUME JournalUnread = FALSE, RestoreTears = FALSE PROVE Spec => []OpensLatest
  OBVIOUS
<1>1. Init => BothInv
  BY BothInductive
<1>2. BothInv /\ [Next]_vars => BothInv'
  BY BothInductive
<1>3. BothInv => OpensLatest
  BY OpenedIsLatest DEF BothInv
<1> QED
  BY <1>1, <1>2, <1>3, PTL DEF Spec

\* The detailed steps implement AtRest.
LEMMA AtRestInit ==
    ASSUME Init, BothInv PROVE Abstract!Init
<1>1. KeyOpens /\ latest = [f \in Files |-> 1]
  BY DEF Init, KeyOpens
<1>2. \A f \in Files : Newest(f) = 1
  BY <1>1, NewestIsLatest DEF BothInv
<1> QED
  BY <1>1, <1>2 DEF Abstract!Init

LEMMA AtRestStep ==
    ASSUME BothInv, BothInv', [Next]_vars
    PROVE  [Abstract!Next]_<<IF KeyOpens THEN "on" ELSE "off", [f \in Files |-> Newest(f)]>>
<1> DEFINE P == IF KeyOpens THEN "on" ELSE "off"
           S == [f \in Files |-> Newest(f)]
<1>1. latest \in [Files -> 1..MaxSaves + 1] /\ latest' \in [Files -> 1..MaxSaves + 1]
  BY DEF BothInv, IInv, TypeOK
<1>2. S = latest
  BY <1>1, NewestIsLatest DEF BothInv
<1>3. (\A f \in Files : Newest(f) = latest[f])'
  BY SavedIsLatest, PTL
<1>4. S' = latest'
  BY <1>1, <1>3
<1> HIDE DEF S
<1>5. CASE UNCHANGED vars
  <2>1. P' = P /\ latest' = latest
    BY <1>5 DEF vars, KeyOpens
  <2> QED
    BY <1>2, <1>4, <2>1 DEF S
<1>6. CASE Next
  <2>1. /\ KeyOpens' => KeyOpens
        /\ \/ latest' = latest
           \/ /\ KeyOpens' = KeyOpens
              /\ \E f \in Files : latest' = [latest EXCEPT ![f] = latest[f] + 1]
    BY <1>6, StepsSave DEF BothInv
  <2>2. CASE latest' = latest
    <3>1. CASE KeyOpens /\ ~KeyOpens'
      <4>1. Abstract!TurnOff
        BY <1>2, <1>4, <2>2, <3>1 DEF Abstract!TurnOff, S
      <4> QED
        BY <4>1 DEF Abstract!Next
    <3>2. CASE ~(KeyOpens /\ ~KeyOpens')
      BY <1>2, <1>4, <2>1, <2>2, <3>2 DEF S
    <3> QED
      BY <3>1, <3>2
  <2>3. CASE /\ KeyOpens' = KeyOpens
             /\ \E f \in Files : latest' = [latest EXCEPT ![f] = latest[f] + 1]
    <3>1. PICK f \in Files : latest' = [latest EXCEPT ![f] = latest[f] + 1]
      BY <2>3
    <3>2. Abstract!Save(f)
      BY <1>2, <1>4, <2>3, <3>1 DEF Abstract!Save, S
    <3> QED
      BY <3>2 DEF Abstract!Next
  <2> QED
    BY <2>1, <2>2, <2>3
<1> QED
  BY <1>5, <1>6

\* The disable implements AtRest step by step: whatever is killed or fails,
\* protection goes from on to off once, and what can be opened changes only
\* when a session saves a file.
THEOREM TurnsOffSafely ==
    JournalUnread = FALSE /\ RestoreTears = FALSE => (Spec => ImplementsAtRest)
<1> SUFFICES ASSUME JournalUnread = FALSE, RestoreTears = FALSE PROVE Spec => ImplementsAtRest
  OBVIOUS
<1>1. Init => BothInv
  BY BothInductive
<1>2. BothInv /\ [Next]_vars => BothInv'
  BY BothInductive
<1>3. Init /\ BothInv => Abstract!Init
  BY AtRestInit
<1>4. BothInv /\ BothInv' /\ [Next]_vars
         => [Abstract!Next]_<<IF KeyOpens THEN "on" ELSE "off", [f \in Files |-> Newest(f)]>>
  BY AtRestStep
<1> QED
  BY <1>1, <1>2, <1>3, <1>4, PTL DEF Spec, ImplementsAtRest, Abstract!Spec
=============================================================================
