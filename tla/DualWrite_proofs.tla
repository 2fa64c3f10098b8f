--------------------------- MODULE DualWrite_proofs ---------------------------
(***************************************************************************)
(* DualWrite for every set of keys, every nesting depth and any number of  *)
(* writes and restarts.  Three layers, each resting on the one before.     *)
(*                                                                         *)
(* IInv: the variables keep their types, and nothing that a rollback may   *)
(* undo is ever in the document or in its file.  OnlyCommittedReplicates   *)
(* is not inductive.  A flush is safe because the queue holds committed    *)
(* writes by then; it does because, while frames are open, the queue is    *)
(* exactly what the op-log gained since the outermost one, and every       *)
(* frame's mark and rollback point cut both at the same write.  A seed is  *)
(* safe because SQLite's rows come from the op-log, in every frame's       *)
(* snapshot too.                                                           *)
(*                                                                         *)
(* Books: what is on its way.  The writes that wait are the end of an      *)
(* ordered log, the documents hold only what is before them (Order); what  *)
(* is before them has its outcome (OutcomesDue); what the file lacks is    *)
(* due (SaveIsDue); a row of SQLite, and of every snapshot, is that of the *)
(* last write waiting on it, or the document's, or explained (RowsFollow); *)
(* and the file is behind the document (FileBehindDoc).  The first two     *)
(* stand alone, the last two need each other.                              *)
(*                                                                         *)
(* Life: a write's stage is its place in that log, so that every step is   *)
(* one of DocumentBoundary or changes no stage.                            *)
(***************************************************************************)
EXTENDS DualWrite, SequenceTheorems, WellFoundedInduction, TLAPS

\* v is no write of this device, or one of the first n of the log.
Within(log, v, n) == v \in OpIds => \E j \in 1..n : log[j].id = v

\* Rollback points are nested prefixes of the op-log, one mark for each.
FramesNest ==
    /\ \A i, j \in 1..Len(frames) : i <= j => frames[i].len <= frames[j].len
    /\ \A i \in 1..Len(frames) : frames[i].len <= Len(oplog)
    /\ frames # <<>> => Len(marks) = Len(frames) /\ direct = NoOp
    /\ frames = <<>> => Len(marks) <= 1

\* While a body runs the queue is what the op-log gained since it began, and
\* each mark stands where its frame's rollback point does.
QueueIsSuffix ==
    /\ frames # <<>> =>
          /\ Len(queue) = Len(oplog) - frames[1].len
          /\ \A i \in 1..Len(queue) : queue[i] = oplog[frames[1].len + i]
          /\ \A i \in 1..Len(marks) : marks[i] = frames[i].len - frames[1].len
    /\ marks = <<>> => queue = <<>>

\* After it, the queue and the write awaiting its mirror are in the op-log.
WaitingInLog ==
    /\ frames = <<>> => \A i \in 1..Len(queue) : Within(oplog, queue[i].id, Len(oplog))
    /\ direct # NoOp => Within(oplog, direct.id, Len(oplog))

\* SQLite's rows come from the op-log, each frame's snapshot from its prefix.
RowsInLog ==
    /\ \A k \in Keys : Within(oplog, sql[k], Len(oplog))
    /\ \A i \in 1..Len(frames), k \in Keys : Within(oplog, frames[i].sql[k], frames[i].len)

\* The two documents hold committed writes.
DocsInLog ==
    /\ doc # NoDoc => \A k \in Modeled : Within(oplog, doc[k], CommittedLen)
    /\ file # NoDoc => \A k \in Modeled : Within(oplog, file[k], CommittedLen)

IInv == TypeOK /\ FramesNest /\ QueueIsSuffix /\ WaitingInLog /\ RowsInLog /\ DocsInLog

-----------------------------------------------------------------------------
(* Sequences, values and documents                                         *)

LEMMA Prefix ==
    ASSUME NEW S, NEW s \in Seq(S), NEW n \in 0..Len(s)
    PROVE  /\ SubSeq(s, 1, n) \in Seq(S)
           /\ Len(SubSeq(s, 1, n)) = n
           /\ \A i \in 1..n : SubSeq(s, 1, n)[i] = s[i]
<1>1. Len(s) \in Nat /\ n \in Int
  BY LenProperties
<1>2. \A i \in 1..n : s[i] \in S
  BY ElementOfSeq, <1>1
<1> QED
  BY <1>1, <1>2, SubSeqProperties

LEMMA Appended ==
    ASSUME NEW S, NEW s \in Seq(S), NEW e \in S
    PROVE  /\ Append(s, e) \in Seq(S)
           /\ Len(Append(s, e)) = Len(s) + 1
           /\ \A i \in 1..Len(s) : Append(s, e)[i] = s[i]
           /\ Append(s, e)[Len(s) + 1] = e
  OBVIOUS

LEMMA SequenceTypes ==
    ASSUME TypeOK
    PROVE  /\ Len(oplog) \in Nat /\ Len(frames) \in Nat
           /\ Len(queue) \in Nat /\ Len(marks) \in Nat
           /\ \A i \in 1..Len(oplog) : oplog[i] \in Ops
           /\ \A i \in 1..Len(queue) : queue[i] \in Ops
           /\ \A i \in 1..Len(marks) : marks[i] \in Nat
           /\ \A i \in 1..Len(frames) :
                 frames[i].len \in Nat /\ frames[i].sql \in [Keys -> Values]
           /\ frames = <<>> <=> Len(frames) = 0
           /\ marks = <<>> <=> Len(marks) = 0
           /\ queue = <<>> <=> Len(queue) = 0
<1>1. /\ oplog \in Seq(Ops) /\ queue \in Seq(Ops) /\ marks \in Seq(Nat)
      /\ frames \in Seq([sql : [Keys -> Values], len : Nat])
  BY DEF TypeOK
<1>2. \A i \in 1..Len(frames) : frames[i] \in [sql : [Keys -> Values], len : Nat]
  BY <1>1, ElementOfSeq
<1> QED
  BY <1>1, <1>2, ElementOfSeq, LenProperties, EmptySeq

\* A document after some writes holds, per field, its old value or one of them.
LEMMA MirrorValues ==
    ASSUME NEW d \in Docs, NEW s \in Seq(Ops), NEW F
    PROVE  /\ Mirror(d, s, F) \in Docs
           /\ \A k \in Modeled : \/ Mirror(d, s, F)[k] = d[k]
                                 \/ \E i \in 1..Len(s) : Mirror(d, s, F)[k] = s[i].id
<1>1. \A k \in Modeled : LastWrite(s, F, k) = 0 \/ LastWrite(s, F, k) \in 1..Len(s)
  <2> SUFFICES ASSUME NEW k \in Modeled
               PROVE  LastWrite(s, F, k) = 0 \/ LastWrite(s, F, k) \in DOMAIN s
    BY LenProperties
  <2> DEFINE hits == {i \in DOMAIN s : s[i].key = k /\ s[i].id \notin F}
             last == {i \in hits : \A j \in hits : j <= i}
  <2>1. last = {} \/ (CHOOSE i \in last : TRUE) \in last
    OBVIOUS
  <2> QED
    BY <2>1 DEF LastWrite
<1>2. \A i \in 1..Len(s) : s[i].id \in Values
  <2>1. \A i \in 1..Len(s) : s[i] \in Ops
    BY ElementOfSeq
  <2> QED
    BY <2>1 DEF Ops, Values
<1>3. \A k \in Modeled : d[k] \in Values
  BY DEF Docs
<1> QED
  BY <1>1, <1>2, <1>3 DEF Mirror, Docs

-----------------------------------------------------------------------------
(* Initially, and what an unchanged log keeps                              *)

LEMMA InitInv == Init => IInv
<1> SUFFICES ASSUME Init
             PROVE  IInv
  OBVIOUS
<1>1. /\ oplog = <<>> /\ frames = <<>> /\ queue = <<>> /\ marks = <<>>
      /\ Len(oplog) = 0 /\ Len(frames) = 0 /\ Len(queue) = 0 /\ Len(marks) = 0
  BY EmptySeq DEF Init
<1>2. TypeOK
  <2>1. /\ oplog \in Seq(Ops) /\ queue \in Seq(Ops) /\ marks \in Seq(Nat)
        /\ frames \in Seq([sql : [Keys -> Values], len : Nat])
    BY <1>1, EmptySeq
  <2>2. sql \in [Keys -> Values] /\ outcome \in [OpIds -> {"none", "deferred", "not-modeled", "applied", "failed"}]
    BY DEF Init, Values
  <2>3. nextOp \in 1..(MaxOps + 1) /\ crashes \in 0..MaxCrashes
    BY BoundsAssumption DEF Init
  <2> QED
    BY <2>1, <2>2, <2>3 DEF Init, TypeOK
<1>3. \A k \in Keys : Within(oplog, sql[k], Len(oplog))
  BY ValueAssumption DEF Init, Within, OpIds
<1> QED
  BY <1>1, <1>2, <1>3 DEF Init, IInv, FramesNest, QueueIsSuffix, WaitingInLog,
     RowsInLog, DocsInLog

\* What is within a prefix is within a longer one.
LEMMA WithinMore ==
    ASSUME NEW log, NEW v, NEW m \in Nat, NEW n \in Nat, m <= n, Within(log, v, m)
    PROVE  Within(log, v, n)
  BY DEF Within

\* And it stays there while the log grows.
LEMMA WithinGrown ==
    ASSUME NEW log, NEW longer, NEW v, NEW m \in Nat, NEW n \in Nat, m <= n,
           \A i \in 1..m : longer[i] = log[i],
           Within(log, v, m)
    PROVE  Within(longer, v, n)
  BY DEF Within

\* The part of the op-log no frame can roll back.
LEMMA CommittedPart ==
    ASSUME TypeOK, FramesNest
    PROVE  /\ CommittedLen \in 0..Len(oplog)
           /\ frames = <<>> => CommittedLen = Len(oplog)
BY SequenceTypes DEF CommittedLen, FramesNest

LEMMA BeginStep ==
    ASSUME IInv, BeginAtomic
    PROVE  IInv'
<1>0. /\ TypeOK /\ FramesNest /\ QueueIsSuffix /\ WaitingInLog /\ RowsInLog /\ DocsInLog
  BY DEF IInv
<1>t. /\ Len(oplog) \in Nat /\ Len(frames) \in Nat /\ Len(queue) \in Nat /\ Len(marks) \in Nat
      /\ frames = <<>> <=> Len(frames) = 0
      /\ marks = <<>> <=> Len(marks) = 0
      /\ queue = <<>> <=> Len(queue) = 0
  BY <1>0, SequenceTypes
<1> USE <1>0, <1>t
<1> DEFINE frame == [sql |-> sql, len |-> Len(oplog)]
<1>1. frame \in [sql : [Keys -> Values], len : Nat]
  BY DEF TypeOK
<1>2. /\ frames' \in Seq([sql : [Keys -> Values], len : Nat])
      /\ Len(frames') = Len(frames) + 1
      /\ \A i \in 1..Len(frames) : frames'[i] = frames[i]
      /\ frames'[Len(frames) + 1] = frame
  BY <1>1, Appended DEF BeginAtomic, OpenFrame, TypeOK
<1>3. /\ marks' \in Seq(Nat)
      /\ Len(marks') = Len(marks) + 1
      /\ \A i \in 1..Len(marks) : marks'[i] = marks[i]
      /\ marks'[Len(marks) + 1] = Len(queue)
  BY Appended DEF BeginAtomic, OpenFrame, TypeOK
<1>4. UNCHANGED <<sql, oplog, queue, direct, doc, file>>
  BY DEF BeginAtomic
<1>5. TypeOK'
  BY <1>2, <1>3 DEF BeginAtomic, TypeOK, saveVars, ledgerVars
<1>6. frames' # <<>> /\ marks' # <<>>
  BY <1>2, <1>3, <1>5, EmptySeq
<1>7. FramesNest'
  <2>1. Len(marks) = Len(frames) /\ direct = NoOp
    BY DEF BeginAtomic, FramesNest, InBody, Idle
  <2>2. \A i \in 1..Len(frames') : frames'[i].len <= Len(oplog)
    BY <1>2 DEF FramesNest
  <2>3. \A i, j \in 1..Len(frames') : i <= j => frames'[i].len <= frames'[j].len
    <3> SUFFICES ASSUME NEW i \in 1..Len(frames'), NEW j \in 1..Len(frames'), i <= j
                 PROVE  frames'[i].len <= frames'[j].len
      OBVIOUS
    <3>1. CASE j = Len(frames) + 1
      <4>1. frames'[j].len = Len(oplog)
        BY <3>1, <1>2
      <4> QED
        BY <4>1, <2>2
    <3>2. CASE j \in 1..Len(frames)
      <4>1. i \in 1..Len(frames)
        BY <3>2
      <4>2. frames[i].len <= frames[j].len
        BY <3>2, <4>1 DEF FramesNest
      <4> QED
        BY <3>2, <4>1, <4>2, <1>2
    <3> QED
      BY <3>1, <3>2, <1>2
  <2> QED
    BY <1>2, <1>3, <1>4, <1>6, <2>1, <2>2, <2>3 DEF FramesNest
<1>8. QueueIsSuffix'
  <2>1. CASE InBody
    <3>1. /\ Len(frames) >= 1 /\ Len(marks) = Len(frames)
          /\ frames'[1] = frames[1] /\ frames[1].len \in Nat
      BY <2>1, <1>2, SequenceTypes DEF InBody, FramesNest
    <3>2. /\ Len(queue) = Len(oplog) - frames[1].len
          /\ \A i \in 1..Len(queue) : queue[i] = oplog[frames[1].len + i]
          /\ \A i \in 1..Len(marks) : marks[i] = frames[i].len - frames[1].len
      BY <2>1 DEF InBody, QueueIsSuffix
    <3>3. \A i \in 1..Len(marks') : marks'[i] = frames'[i].len - frames'[1].len
      <4> SUFFICES ASSUME NEW i \in 1..Len(marks')
                   PROVE  marks'[i] = frames'[i].len - frames'[1].len
        OBVIOUS
      <4>1. CASE i = Len(marks) + 1
        BY <4>1, <3>1, <3>2, <1>2, <1>3
      <4>2. CASE i \in 1..Len(marks)
        BY <4>2, <3>1, <3>2, <1>2, <1>3
      <4> QED
        BY <4>1, <4>2, <1>3
    <3> QED
      BY <3>1, <3>2, <3>3, <1>4, <1>6 DEF QueueIsSuffix
  <2>2. CASE Idle
    <3>1. Len(queue) = 0 /\ Len(frames) = 0 /\ Len(marks) = 0
      BY <2>2 DEF Idle, QueueIsSuffix
    <3>2. frames'[1].len = Len(oplog) /\ marks'[1] = 0 /\ Len(marks') = 1
      BY <3>1, <1>2, <1>3
    <3> QED
      BY <3>1, <3>2, <1>4, <1>6 DEF QueueIsSuffix
  <2> QED
    BY <2>1, <2>2 DEF BeginAtomic
<1>9. CommittedLen' = CommittedLen
  BY <1>2, <1>4, <1>6 DEF CommittedLen
<1>10. WaitingInLog'
  BY <1>4, <1>6 DEF WaitingInLog, Within
<1>11. RowsInLog'
  <2>1. \A k \in Keys : Within(oplog, sql[k], Len(oplog))
    BY DEF RowsInLog
  <2>2. \A i \in 1..Len(frames'), k \in Keys : Within(oplog, frames'[i].sql[k], frames'[i].len)
    <3> SUFFICES ASSUME NEW i \in 1..Len(frames'), NEW k \in Keys
                 PROVE  Within(oplog, frames'[i].sql[k], frames'[i].len)
      OBVIOUS
    <3>1. CASE i = Len(frames) + 1
      BY <3>1, <2>1, <1>2
    <3>2. CASE i \in 1..Len(frames)
      BY <3>2, <1>2 DEF RowsInLog
    <3> QED
      BY <3>1, <3>2, <1>2
  <2> QED
    BY <2>1, <2>2, <1>4 DEF RowsInLog, Within
<1>12. DocsInLog'
  BY <1>4, <1>9 DEF DocsInLog, Within
<1> QED
  BY <1>5, <1>7, <1>8, <1>10, <1>11, <1>12 DEF IInv

\* What inserting an op leaves true of the log and of the rows.
LEMMA InsertStep ==
    ASSUME IInv, NEW k \in Keys, InsertOp(k)
    PROVE  /\ oplog' \in Seq(Ops)
           /\ Len(oplog') = Len(oplog) + 1
           /\ \A i \in 1..Len(oplog) : oplog'[i] = oplog[i]
           /\ oplog'[Len(oplog) + 1] = [id |-> nextOp, key |-> k]
           /\ nextOp \in OpIds /\ nextOp' \in 1..(MaxOps + 1)
           /\ [id |-> nextOp, key |-> k] \in Ops
           /\ sql' \in [Keys -> Values]
           /\ \A v : \A m \in 0..Len(oplog), n \in 0..Len(oplog') :
                 m <= n /\ Within(oplog, v, m) => Within(oplog', v, n)
           /\ Within(oplog', nextOp, Len(oplog'))
           /\ \A h \in Keys : Within(oplog', sql'[h], Len(oplog'))
<1>0. TypeOK /\ RowsInLog
  BY DEF IInv
<1>1. /\ nextOp \in OpIds /\ nextOp' \in 1..(MaxOps + 1)
      /\ [id |-> nextOp, key |-> k] \in Ops
  BY <1>0, BoundsAssumption DEF InsertOp, TypeOK, OpIds, Ops
<1>2. /\ oplog' \in Seq(Ops)
      /\ Len(oplog') = Len(oplog) + 1
      /\ \A i \in 1..Len(oplog) : oplog'[i] = oplog[i]
      /\ oplog'[Len(oplog) + 1] = [id |-> nextOp, key |-> k]
  BY <1>0, <1>1, Appended DEF InsertOp, TypeOK
<1>3. sql' = [sql EXCEPT ![k] = nextOp] /\ sql' \in [Keys -> Values]
  BY <1>0, <1>1 DEF InsertOp, TypeOK, Values
<1>4. Len(oplog) \in Nat /\ Len(oplog') \in Nat
  BY <1>0, <1>2, SequenceTypes
<1>5. \A v : \A m \in 0..Len(oplog), n \in 0..Len(oplog') :
         m <= n /\ Within(oplog, v, m) => Within(oplog', v, n)
  BY <1>2, <1>4 DEF Within
<1>6. Within(oplog', nextOp, Len(oplog'))
  BY <1>2, <1>4 DEF Within
<1>7. \A h \in Keys : Within(oplog', sql'[h], Len(oplog'))
  <2> SUFFICES ASSUME NEW h \in Keys
               PROVE  Within(oplog', sql'[h], Len(oplog'))
    OBVIOUS
  <2>1. CASE h = k
    BY <2>1, <1>0, <1>3, <1>6 DEF TypeOK
  <2>2. CASE h # k
    <3>1. sql'[h] = sql[h] /\ Within(oplog, sql[h], Len(oplog))
      BY <2>2, <1>0, <1>3 DEF TypeOK, RowsInLog
    <3> QED
      BY <3>1, <1>2, <1>4, <1>5
  <2> QED
    BY <2>1, <2>2
<1> QED
  BY <1>1, <1>2, <1>3, <1>5, <1>6, <1>7

LEMMA AppendInBodyStep ==
    ASSUME IInv, NEW k \in Keys, AppendInBody(k)
    PROVE  IInv'
<1>0. /\ TypeOK /\ FramesNest /\ QueueIsSuffix /\ WaitingInLog /\ RowsInLog /\ DocsInLog
  BY DEF IInv
<1>t. /\ Len(oplog) \in Nat /\ Len(frames) \in Nat /\ Len(queue) \in Nat /\ Len(marks) \in Nat
      /\ frames = <<>> <=> Len(frames) = 0
      /\ marks = <<>> <=> Len(marks) = 0
      /\ \A i \in 1..Len(frames) : frames[i].len \in Nat
      /\ frames # <<>> /\ Len(frames) >= 1
  BY <1>0, SequenceTypes DEF AppendInBody, InBody
<1> USE <1>0, <1>t
<1> DEFINE op == [id |-> nextOp, key |-> k]
<1>1. /\ oplog' \in Seq(Ops)
      /\ Len(oplog') = Len(oplog) + 1
      /\ \A i \in 1..Len(oplog) : oplog'[i] = oplog[i]
      /\ oplog'[Len(oplog) + 1] = op
      /\ nextOp \in OpIds /\ nextOp' \in 1..(MaxOps + 1)
      /\ op \in Ops
      /\ sql' \in [Keys -> Values]
      /\ \A v : \A m \in 0..Len(oplog), n \in 0..Len(oplog') :
            m <= n /\ Within(oplog, v, m) => Within(oplog', v, n)
      /\ \A h \in Keys : Within(oplog', sql'[h], Len(oplog'))
  BY InsertStep DEF AppendInBody
<1>2. /\ queue' \in Seq(Ops)
      /\ Len(queue') = Len(queue) + 1
      /\ \A i \in 1..Len(queue) : queue'[i] = queue[i]
      /\ queue'[Len(queue) + 1] = op
  BY <1>1, Appended DEF AppendInBody, TypeOK
<1>3. UNCHANGED <<frames, marks, direct, doc, file>>
  BY DEF AppendInBody
<1>4. TypeOK'
  BY <1>1, <1>2, <1>3 DEF AppendInBody, TypeOK, saveVars, ledgerVars
<1>5. FramesNest'
  BY <1>1, <1>3 DEF FramesNest
<1>6. QueueIsSuffix'
  <2>1. /\ Len(queue) = Len(oplog) - frames[1].len
        /\ \A i \in 1..Len(queue) : queue[i] = oplog[frames[1].len + i]
        /\ \A i \in 1..Len(marks) : marks[i] = frames[i].len - frames[1].len
        /\ frames[1].len \in Nat /\ Len(marks) >= 1
    BY DEF QueueIsSuffix, FramesNest
  <2>2. \A i \in 1..Len(queue') : queue'[i] = oplog'[frames[1].len + i]
    <3> SUFFICES ASSUME NEW i \in 1..Len(queue')
                 PROVE  queue'[i] = oplog'[frames[1].len + i]
      OBVIOUS
    <3>1. CASE i = Len(queue) + 1
      <4>1. frames[1].len + i = Len(oplog) + 1
        BY <3>1, <2>1
      <4> QED
        BY <3>1, <4>1, <1>1, <1>2
    <3>2. CASE i \in 1..Len(queue)
      <4>1. frames[1].len + i \in 1..Len(oplog)
        BY <3>2, <2>1
      <4>2. oplog'[frames[1].len + i] = oplog[frames[1].len + i]
        BY <4>1, <1>1
      <4> QED
        BY <3>2, <4>2, <2>1, <1>2
    <3> QED
      BY <3>1, <3>2, <1>2
  <2> QED
    BY <2>1, <2>2, <1>1, <1>2, <1>3 DEF QueueIsSuffix
<1>7. WaitingInLog'
  BY <1>3 DEF WaitingInLog, FramesNest
<1>8. RowsInLog'
  <2>1. \A i \in 1..Len(frames) : frames[i].len <= Len(oplog)
    BY DEF FramesNest
  <2>2. \A i \in 1..Len(frames), h \in Keys : Within(oplog', frames[i].sql[h], frames[i].len)
    BY <2>1, <1>1 DEF RowsInLog
  <2> QED
    BY <2>2, <1>1, <1>3 DEF RowsInLog
<1>9. DocsInLog'
  <2>1. CommittedLen' = CommittedLen /\ CommittedLen \in 0..Len(oplog)
    BY <1>3, CommittedPart DEF CommittedLen
  <2> QED
    BY <2>1, <1>1, <1>3 DEF DocsInLog
<1> QED
  BY <1>4, <1>5, <1>6, <1>7, <1>8, <1>9 DEF IInv

LEMMA AppendTopLevelStep ==
    ASSUME IInv, NEW k \in Keys, AppendTopLevel(k)
    PROVE  IInv'
<1>0. /\ TypeOK /\ FramesNest /\ QueueIsSuffix /\ WaitingInLog /\ RowsInLog /\ DocsInLog
  BY DEF IInv
<1>t. /\ Len(oplog) \in Nat /\ Len(oplog') \in Nat
      /\ frames = <<>> /\ marks = <<>> /\ queue = <<>> /\ Len(queue) = 0
      /\ Len(frames) = 0 /\ Len(marks) = 0
  <2>1. frames = <<>> /\ marks = <<>> /\ queue = <<>>
    BY <1>0 DEF AppendTopLevel, Idle, QueueIsSuffix
  <2>2. oplog' \in Seq(Ops)
    BY InsertStep DEF AppendTopLevel
  <2> QED
    BY <1>0, <2>1, <2>2, SequenceTypes, LenProperties
<1> USE <1>0, <1>t
<1> DEFINE op == [id |-> nextOp, key |-> k]
<1>1. /\ oplog' \in Seq(Ops)
      /\ Len(oplog') = Len(oplog) + 1
      /\ nextOp' \in 1..(MaxOps + 1)
      /\ op \in Ops
      /\ sql' \in [Keys -> Values]
      /\ \A v : \A m \in 0..Len(oplog), n \in 0..Len(oplog') :
            m <= n /\ Within(oplog, v, m) => Within(oplog', v, n)
      /\ Within(oplog', nextOp, Len(oplog'))
      /\ \A h \in Keys : Within(oplog', sql'[h], Len(oplog'))
  BY InsertStep DEF AppendTopLevel
<1>2. UNCHANGED <<frames, queue, marks, doc, file>> /\ direct' = op
  BY DEF AppendTopLevel
<1>3. TypeOK'
  BY <1>1, <1>2 DEF AppendTopLevel, TypeOK, saveVars, ledgerVars
<1>4. FramesNest' /\ QueueIsSuffix'
  BY <1>2 DEF FramesNest, QueueIsSuffix
<1>5. WaitingInLog' /\ RowsInLog'
  BY <1>1, <1>2 DEF WaitingInLog, RowsInLog
<1>6. DocsInLog'
  <2>1. CommittedLen' = Len(oplog') /\ CommittedLen = Len(oplog)
    BY <1>2 DEF CommittedLen
  <2> QED
    BY <2>1, <1>1, <1>2 DEF DocsInLog
<1> QED
  BY <1>3, <1>4, <1>5, <1>6 DEF IInv

\* Rolling the innermost frame back keeps what the other frames stand on.
LEMMA ThrowStep ==
    ASSUME IInv, Throw
    PROVE  IInv'
<1>0. /\ TypeOK /\ FramesNest /\ QueueIsSuffix /\ WaitingInLog /\ RowsInLog /\ DocsInLog
  BY DEF IInv
<1> DEFINE top == Len(frames)
           cut == frames[top].len
           base == frames[1].len
<1>t. /\ Len(oplog) \in Nat /\ Len(queue) \in Nat /\ Len(marks) \in Nat
      /\ top \in Nat /\ top >= 1 /\ frames # <<>> /\ Len(marks) = top /\ marks # <<>>
      /\ cut \in Nat /\ base \in Nat /\ base <= cut /\ cut <= Len(oplog)
      /\ \A i \in 1..top : frames[i].len \in Nat /\ frames[i].len <= cut
      /\ frames[top].sql \in [Keys -> Values]
      /\ frames \in Seq([sql : [Keys -> Values], len : Nat])
      /\ oplog \in Seq(Ops) /\ queue \in Seq(Ops) /\ marks \in Seq(Nat)
  <2>1. top \in Nat /\ top >= 1 /\ frames # <<>>
    BY <1>0, SequenceTypes DEF Throw, InBody
  <2>2. Len(marks) = top /\ marks # <<>>
    BY <2>1, <1>0, SequenceTypes DEF FramesNest
  <2>3. \A i \in 1..top : frames[i].len \in Nat /\ frames[i].len <= cut
    BY <2>1, <1>0, SequenceTypes DEF FramesNest
  <2>4. cut <= Len(oplog) /\ 1 \in 1..top /\ top \in 1..top
    BY <2>1, <1>0 DEF FramesNest
  <2>5. frames[top].sql \in [Keys -> Values]
    BY <2>4, <1>0, SequenceTypes
  <2> QED
    BY <2>1, <2>2, <2>3, <2>4, <2>5, <1>0, SequenceTypes DEF TypeOK
<1>u. /\ sql' = frames[top].sql /\ oplog' = SubSeq(oplog, 1, cut)
      /\ frames' = SubSeq(frames, 1, top - 1) /\ marks' = SubSeq(marks, 1, top - 1)
      /\ queue' = SubSeq(queue, 1, marks[top])
  BY <1>t DEF Throw, CutQueue
<1>v. /\ cut \in 0..Len(oplog) /\ top - 1 \in 0..Len(frames) /\ top - 1 \in 0..Len(marks)
      /\ \A i \in 1..(top - 1) : i \in 1..top
      /\ top # 1 => 1 \in 1..(top - 1)
  BY <1>t
<1>w. /\ frames # <<>> /\ Len(frames) = top /\ top \in 1..top
      /\ base = frames[1].len /\ cut = frames[top].len /\ (top = 1 => cut = base)
      /\ base \in 0..cut /\ cut \in 0..cut
  <2>1. top = 1 => cut = base
    OBVIOUS
  <2>2. base \in 0..cut /\ cut \in 0..cut /\ top \in 1..top
    <3> HIDE DEF top, cut, base
    <3> QED
      BY <1>t
  <2> QED
    BY <2>1, <2>2, <1>t
<1> HIDE DEF top, cut, base
<1>1. /\ Len(queue) = Len(oplog) - base
      /\ \A i \in 1..Len(queue) : queue[i] = oplog[base + i]
      /\ \A i \in 1..top : marks[i] = frames[i].len - base
  BY <1>0, <1>t, <1>w DEF QueueIsSuffix
<1>2. /\ oplog' \in Seq(Ops) /\ Len(oplog') = cut
      /\ \A i \in 1..cut : oplog'[i] = oplog[i]
  BY <1>t, <1>u, <1>v, Prefix
<1>3. marks[top] = cut - base /\ marks[top] \in 0..Len(queue)
  BY <1>1, <1>t, <1>w
<1>4. /\ queue' \in Seq(Ops) /\ Len(queue') = cut - base
      /\ \A i \in 1..(cut - base) : queue'[i] = queue[i]
  BY <1>3, <1>t, <1>u, Prefix
<1>5. /\ frames' \in Seq([sql : [Keys -> Values], len : Nat]) /\ Len(frames') = top - 1
      /\ \A i \in 1..(top - 1) : frames'[i] = frames[i]
  BY <1>t, <1>u, <1>v, Prefix
<1>6. /\ marks' \in Seq(Nat) /\ Len(marks') = top - 1
      /\ \A i \in 1..(top - 1) : marks'[i] = marks[i]
  BY <1>t, <1>u, <1>v, Prefix
<1>7. sql' = frames[top].sql /\ UNCHANGED <<direct, doc, file>>
  BY <1>u DEF Throw
<1>8. TypeOK'
  BY <1>0, <1>t, <1>2, <1>4, <1>5, <1>6, <1>7 DEF Throw, TypeOK, saveVars, ledgerVars
<1>9. (frames' = <<>> <=> top = 1) /\ (marks' = <<>> <=> top = 1)
  <2>1. (frames' = <<>> <=> Len(frames') = 0) /\ (marks' = <<>> <=> Len(marks') = 0)
    BY <1>5, <1>6, EmptySeq
  <2> QED
    BY <2>1, <1>5, <1>6, <1>t
<1>10. FramesNest'
  <2>1. \A i, j \in 1..Len(frames') : i <= j => frames'[i].len <= frames'[j].len
    BY <1>0, <1>5, <1>v, <1>w DEF FramesNest
  <2>2. \A i \in 1..Len(frames') : frames'[i].len <= Len(oplog')
    BY <1>2, <1>5, <1>v, <1>t
  <2>3. direct' = NoOp /\ Len(marks') = Len(frames')
    BY <1>0, <1>5, <1>6, <1>7, <1>w DEF FramesNest
  <2>4. frames' = <<>> => Len(marks') <= 1
    BY <1>6, <1>9
  <2> QED
    BY <2>1, <2>2, <2>3, <2>4 DEF FramesNest
<1>11. QueueIsSuffix'
  <2>1. CASE top = 1
    <3>1. Len(queue') = 0 /\ frames' = <<>>
      BY <2>1, <1>4, <1>9, <1>t, <1>w
    <3> QED
      BY <3>1, <1>4, EmptySeq DEF QueueIsSuffix
  <2>2. CASE top > 1
    <3>1. frames'[1].len = base
      BY <2>2, <1>5, <1>v, <1>w
    <3>2. \A i \in 1..Len(queue') : queue'[i] = oplog'[base + i]
      <4> SUFFICES ASSUME NEW i \in 1..(cut - base)
                   PROVE  queue'[i] = oplog'[base + i]
        BY <1>4
      <4>1. i \in 1..Len(queue) /\ base + i \in 1..cut
        BY <1>1, <1>t, SMT
      <4> QED
        BY <4>1, <1>1, <1>2, <1>4
    <3>3. \A i \in 1..Len(marks') : marks'[i] = frames'[i].len - base
      BY <1>1, <1>5, <1>6, <1>v
    <3> QED
      BY <2>2, <3>1, <3>2, <3>3, <1>2, <1>4, <1>9 DEF QueueIsSuffix
  <2> QED
    BY <2>1, <2>2, <1>t
<1>12. \A v : \A n \in 0..cut : Within(oplog, v, n) => Within(oplog', v, n)
  <2>1. \A n \in 0..cut : \A j \in 1..n : oplog'[j] = oplog[j]
    BY <1>2, <1>t
  <2> QED
    BY <2>1 DEF Within
<1>13. WaitingInLog'
  <2>1. direct = NoOp
    BY <1>0, <1>t DEF FramesNest
  <2>2. top = 1 => Len(queue') = 0
    BY <1>4, <1>t, <1>w
  <2> QED
    BY <2>1, <2>2, <1>7, <1>9 DEF WaitingInLog
<1>14. RowsInLog'
  <2>1. \A k \in Keys : Within(oplog, frames[top].sql[k], cut)
    BY <1>0, <1>w DEF RowsInLog
  <2>2. \A i \in 1..(top - 1), k \in Keys : Within(oplog', frames[i].sql[k], frames[i].len)
    <3> SUFFICES ASSUME NEW i \in 1..(top - 1), NEW k \in Keys
                 PROVE  Within(oplog', frames[i].sql[k], frames[i].len)
      OBVIOUS
    <3>1. i \in 1..top /\ frames[i].len \in 0..cut
      BY <1>t
    <3> QED
      BY <3>1, <1>0, <1>12, <1>w DEF RowsInLog
  <2>3. cut \in 0..cut
    BY <1>t
  <2> QED
    BY <2>1, <2>2, <2>3, <1>2, <1>5, <1>7, <1>12 DEF RowsInLog
<1>15. DocsInLog'
  <2>1. CommittedLen = base /\ CommittedLen' = base /\ base \in 0..cut
    <3>1. CommittedLen = base /\ base \in 0..cut
      BY <1>w DEF CommittedLen
    <3>2. CASE top = 1
      BY <3>1, <3>2, <1>2, <1>9, <1>w DEF CommittedLen
    <3>3. CASE top # 1
      BY <3>1, <3>3, <1>5, <1>9, <1>v, <1>w DEF CommittedLen
    <3> QED
      BY <3>1, <3>2, <3>3
  <2> QED
    BY <2>1, <1>0, <1>7, <1>12 DEF DocsInLog
<1> QED
  BY <1>8, <1>10, <1>11, <1>13, <1>14, <1>15 DEF IInv

LEMMA CommitInnerStep ==
    ASSUME IInv, CommitInner
    PROVE  IInv'
<1>0. /\ TypeOK /\ FramesNest /\ QueueIsSuffix /\ WaitingInLog /\ RowsInLog /\ DocsInLog
  BY DEF IInv
<1> DEFINE top == Len(frames)
<1>t. /\ Len(oplog) \in Nat /\ Len(queue) \in Nat
      /\ top \in Nat /\ top > 1 /\ frames # <<>> /\ Len(marks) = top
      /\ top - 1 \in 0..top /\ \A i \in 1..(top - 1) : i \in 1..top
      /\ 1 \in 1..(top - 1)
      /\ frames \in Seq([sql : [Keys -> Values], len : Nat]) /\ marks \in Seq(Nat)
  BY <1>0, SequenceTypes DEF CommitInner, FramesNest, TypeOK
<1>1. /\ frames' \in Seq([sql : [Keys -> Values], len : Nat]) /\ Len(frames') = top - 1
      /\ \A i \in 1..(top - 1) : frames'[i] = frames[i]
  BY <1>t, Prefix DEF CommitInner
<1>2. /\ marks' \in Seq(Nat) /\ Len(marks') = top - 1
      /\ \A i \in 1..(top - 1) : marks'[i] = marks[i]
  <2>1. marks' = SubSeq(marks, 1, top - 1) /\ top - 1 \in 0..Len(marks)
    BY <1>t DEF CommitInner
  <2> QED
    BY <2>1, <1>t, Prefix
<1>3. UNCHANGED <<sql, oplog, queue, direct, doc, file>>
  BY DEF CommitInner
<1>4. frames' # <<>> /\ marks' # <<>>
  BY <1>1, <1>2, <1>t, EmptySeq
<1>5. TypeOK'
  BY <1>0, <1>1, <1>2 DEF CommitInner, TypeOK, saveVars, ledgerVars
<1> HIDE DEF top
<1>w. \A i \in 1..(top - 1) : i \in 1..Len(frames) /\ i \in 1..Len(marks)
  BY <1>t DEF top
<1>6. FramesNest'
  BY <1>0, <1>1, <1>2, <1>3, <1>4, <1>t, <1>w DEF FramesNest
<1>7. QueueIsSuffix'
  BY <1>0, <1>1, <1>2, <1>3, <1>4, <1>t, <1>w DEF QueueIsSuffix
<1>8. WaitingInLog' /\ RowsInLog'
  BY <1>w, <1>0, <1>1, <1>3, <1>4 DEF WaitingInLog, RowsInLog
<1>9. DocsInLog'
  BY <1>0, <1>1, <1>3, <1>4, <1>t DEF DocsInLog, CommittedLen
<1> QED
  BY <1>5, <1>6, <1>7, <1>8, <1>9 DEF IInv

\* The outermost COMMIT: what was queued is committed from here on.
LEMMA CommitOutermostStep ==
    ASSUME IInv, CommitOutermost
    PROVE  IInv'
<1>0. /\ TypeOK /\ FramesNest /\ QueueIsSuffix /\ WaitingInLog /\ RowsInLog /\ DocsInLog
  BY DEF IInv
<1>t. /\ Len(oplog) \in Nat /\ Len(queue) \in Nat /\ frames # <<>> /\ Len(marks) = 1
      /\ Len(frames) = 1 /\ frames[1].len \in 0..Len(oplog) /\ frames[1].len \in Nat
      /\ Len(queue) = Len(oplog) - frames[1].len
      /\ \A i \in 1..Len(queue) : queue[i] = oplog[frames[1].len + i]
      /\ direct = NoOp
  <2>1. Len(frames) = 1 /\ frames # <<>>
    BY <1>0, SequenceTypes DEF CommitOutermost
  <2> QED
    BY <2>1, <1>0, SequenceTypes DEF FramesNest, QueueIsSuffix
<1>1. frames' = <<>> /\ Len(frames') = 0
  BY EmptySeq DEF CommitOutermost
<1>2. UNCHANGED <<sql, oplog, queue, marks, direct, doc, file>>
  BY DEF CommitOutermost, deferVars
<1>3. TypeOK'
  BY <1>0, <1>1, <1>2, EmptySeq DEF CommitOutermost, TypeOK, saveVars, ledgerVars
<1>4. FramesNest' /\ QueueIsSuffix'
  BY <1>0, <1>1, <1>2, <1>t DEF FramesNest, QueueIsSuffix
<1>5. WaitingInLog'
  <2>1. \A i \in 1..Len(queue) : frames[1].len + i \in 1..Len(oplog)
    BY <1>t
  <2>2. \A i \in 1..Len(queue) : Within(oplog, queue[i].id, Len(oplog))
    BY <2>1, <1>t DEF Within
  <2> QED
    BY <2>2, <1>2, <1>t DEF WaitingInLog
<1>6. RowsInLog'
  BY <1>0, <1>1, <1>2 DEF RowsInLog
<1>7. DocsInLog'
  <2>1. CommittedLen = frames[1].len /\ CommittedLen' = Len(oplog)
    BY <1>1, <1>2, <1>t DEF CommittedLen
  <2>2. \A v : Within(oplog, v, frames[1].len) => Within(oplog, v, Len(oplog))
    BY <1>t, WithinMore
  <2> QED
    BY <2>1, <2>2, <1>0, <1>2 DEF DocsInLog
<1> QED
  BY <1>3, <1>4, <1>5, <1>6, <1>7 DEF IInv

-----------------------------------------------------------------------------
(* Mirroring and saving                                                    *)

\* What MirrorAll needs of the state it runs in: no frame is open, and what
\* it mirrors is in the log.
MirrorsLogged(s) ==
    /\ s \in Seq(Ops)
    /\ frames = <<>>
    /\ \A i \in 1..Len(s) : Within(oplog, s[i].id, Len(oplog))

LEMMA LoadOrSeedTyped ==
    ASSUME IInv, frames = <<>>
    PROVE  /\ LoadOrSeed \in Docs
           /\ \A k \in Modeled : Within(oplog, LoadOrSeed[k], Len(oplog))
<1>1. CASE file # NoDoc
  BY <1>1 DEF IInv, TypeOK, LoadOrSeed, DocsInLog, CommittedLen
<1>2. CASE file = NoDoc
  BY <1>2, KeysAssumption DEF IInv, TypeOK, RowsInLog, LoadOrSeed, Docs
<1> QED
  BY <1>1, <1>2

LEMMA MirrorLogged ==
    ASSUME NEW d \in Docs, NEW s \in Seq(Ops), NEW F, NEW log, NEW n \in Nat,
           \A k \in Modeled : Within(log, d[k], n),
           \A i \in 1..Len(s) : Within(log, s[i].id, n)
    PROVE  /\ Mirror(d, s, F) \in Docs
           /\ \A k \in Modeled : Within(log, Mirror(d, s, F)[k], n)
<1>1. Mirror(d, s, F) \in Docs
  BY MirrorValues
<1>2. ASSUME NEW k \in Modeled
      PROVE  Within(log, Mirror(d, s, F)[k], n)
  <2>1. CASE Mirror(d, s, F)[k] = d[k]
    BY <2>1
  <2>2. CASE \E i \in 1..Len(s) : Mirror(d, s, F)[k] = s[i].id
    BY <2>2
  <2> QED
    BY <2>1, <2>2, MirrorValues
<1> QED
  BY <1>1, <1>2

LEMMA ScheduleSaveTyped ==
    ASSUME TypeOK, NEW ids \in SUBSET OpIds, NEW local \in BOOLEAN, ScheduleSave(ids, local)
    PROVE  /\ pend' \in [local : BOOLEAN, ops : SUBSET OpIds] \cup {NoSave}
           /\ timer' \in BOOLEAN
<1>1. CASE pend = NoSave
  BY <1>1 DEF ScheduleSave
<1>2. CASE pend # NoSave
  <2>1. pend \in [local : BOOLEAN, ops : SUBSET OpIds]
    BY <1>2 DEF TypeOK
  <2>2. pend.local \in BOOLEAN /\ pend.ops \in SUBSET OpIds
    BY <2>1
  <2> QED
    BY <1>2, <2>2 DEF ScheduleSave
<1> QED
  BY <1>1, <1>2

LEMMA RecordTyped ==
    ASSUME TypeOK, NEW F \in SUBSET (OpIds \cup {SaveEvent}), Record(F)
    PROVE  /\ failed' \subseteq OpIds \cup {SaveEvent}
           /\ unrecorded' \subseteq OpIds \cup {SaveEvent}
  BY DEF Record, TypeOK

\* The ids of a sequence of ops.
LEMMA ModelingTyped ==
    ASSUME NEW s \in Seq(Ops)
    PROVE  /\ Modeling(s) \in SUBSET OpIds
           /\ Ids(s) \in SUBSET OpIds
<1>1. \A i \in DOMAIN s : s[i] \in Ops
  BY ElementOfSeq, LenProperties
<1> QED
  BY <1>1 DEF Modeling, Ids, Ops

LEMMA MirrorAllStep ==
    ASSUME IInv, NEW s, MirrorsLogged(s), NEW F \in SUBSET Modeling(s),
           NEW published \in 0..Len(s), MirrorAll(s, F, published)
    PROVE  /\ doc' \in Docs \cup {NoDoc} /\ file' \in Docs \cup {NoDoc}
           /\ doc' # NoDoc => \A k \in Modeled : Within(oplog, doc'[k], Len(oplog))
           /\ file' # NoDoc => \A k \in Modeled : Within(oplog, file'[k], Len(oplog))
           /\ pend' \in [local : BOOLEAN, ops : SUBSET OpIds] \cup {NoSave}
           /\ timer' \in BOOLEAN /\ unsent' \in BOOLEAN
           /\ failed' \subseteq OpIds \cup {SaveEvent}
           /\ unrecorded' \subseteq OpIds \cup {SaveEvent}
<1>0. TypeOK /\ frames = <<>> /\ DocsInLog /\ s \in Seq(Ops)
  BY DEF IInv, MirrorsLogged
<1>1. Len(oplog) \in Nat /\ Len(s) \in Nat /\ CommittedLen = Len(oplog)
  BY <1>0, SequenceTypes, LenProperties DEF CommittedLen
<1>2. /\ LoadOrSeed \in Docs
      /\ \A k \in Modeled : Within(oplog, LoadOrSeed[k], Len(oplog))
  BY <1>0, LoadOrSeedTyped
<1>3. ASSUME NEW n \in 0..Len(s)
      PROVE  /\ SubSeq(s, 1, n) \in Seq(Ops)
             /\ \A i \in 1..Len(SubSeq(s, 1, n)) :
                   Within(oplog, SubSeq(s, 1, n)[i].id, Len(oplog))
  <2>1. /\ SubSeq(s, 1, n) \in Seq(Ops) /\ Len(SubSeq(s, 1, n)) = n
        /\ \A i \in 1..n : SubSeq(s, 1, n)[i] = s[i]
    BY <1>0, Prefix
  <2>2. \A i \in 1..n : i \in 1..Len(s)
    BY <1>1
  <2> QED
    BY <2>1, <2>2 DEF MirrorsLogged
<1> DEFINE done == Modeling(s) \ F
           base == IF doc = NoDoc THEN LoadOrSeed
                   ELSE Mirror(doc, SubSeq(s, 1, published), {})
<1>4. base \in Docs /\ \A k \in Modeled : Within(oplog, base[k], Len(oplog))
  <2>1. CASE doc = NoDoc
    BY <2>1, <1>2
  <2>2. CASE doc # NoDoc
    <3>1. doc \in Docs /\ \A k \in Modeled : Within(oplog, doc[k], Len(oplog))
      BY <2>2, <1>0, <1>1 DEF DocsInLog, TypeOK
    <3> QED
      BY <2>2, <3>1, <1>1, <1>3, MirrorLogged
  <2> QED
    BY <2>1, <2>2
<1>5. /\ Mirror(base, s, F) \in Docs
      /\ \A k \in Modeled : Within(oplog, Mirror(base, s, F)[k], Len(oplog))
  BY <1>0, <1>1, <1>4, MirrorLogged DEF MirrorsLogged
<1>6. /\ doc' = NoDoc \/ doc' = Mirror(base, s, F)
      /\ file' = file \/ \E n \in 0..Len(s) : file' = Mirror(LoadOrSeed, SubSeq(s, 1, n), F)
  BY DEF MirrorAll
<1>7. /\ doc' \in Docs \cup {NoDoc}
      /\ doc' # NoDoc => \A k \in Modeled : Within(oplog, doc'[k], Len(oplog))
  BY <1>5, <1>6
<1>8. /\ file' \in Docs \cup {NoDoc}
      /\ file' # NoDoc => \A k \in Modeled : Within(oplog, file'[k], Len(oplog))
  <2>1. CASE file' = file
    BY <2>1, <1>0, <1>1 DEF DocsInLog, TypeOK
  <2>2. ASSUME NEW n \in 0..Len(s), file' = Mirror(LoadOrSeed, SubSeq(s, 1, n), F)
        PROVE  file' \in Docs /\ \A k \in Modeled : Within(oplog, file'[k], Len(oplog))
    BY <2>2, <1>1, <1>2, <1>3, MirrorLogged
  <2> QED
    BY <2>1, <2>2, <1>6
<1>9. done \in SUBSET OpIds /\ F \in SUBSET (OpIds \cup {SaveEvent})
  BY <1>0, ModelingTyped
<1>10. /\ pend' \in [local : BOOLEAN, ops : SUBSET OpIds] \cup {NoSave}
       /\ timer' \in BOOLEAN /\ unsent' \in BOOLEAN
  <2>1. CASE done = {}
    BY <2>1, <1>0 DEF MirrorAll, saveVars, TypeOK
  <2>2. CASE done # {}
    <3>1. ScheduleSave(done, TRUE) /\ unsent' = TRUE
      BY <2>2 DEF MirrorAll
    <3> QED
      BY <3>1, <1>0, <1>9, ScheduleSaveTyped
  <2> QED
    BY <2>1, <2>2
<1>11. Record(F)
  BY DEF MirrorAll
<1> QED
  BY <1>0, <1>7, <1>8, <1>9, <1>10, <1>11, RecordTyped

\* What the steps that leave the log and the frames alone have to show.
LEMMA QuietStep ==
    ASSUME IInv, TypeOK', UNCHANGED <<oplog, frames>>, frames = <<>>,
           Len(marks') <= 1, marks' = <<>> => queue' = <<>>,
           queue' = queue \/ queue' = <<>>, direct' = direct \/ direct' = NoOp,
           \A k \in Keys : Within(oplog, sql'[k], Len(oplog)),
           doc' # NoDoc => \A k \in Modeled : Within(oplog, doc'[k], Len(oplog)),
           file' # NoDoc => \A k \in Modeled : Within(oplog, file'[k], Len(oplog))
    PROVE  IInv'
<1>1. Len(frames) = 0
  BY EmptySeq
<1>2. FramesNest' /\ QueueIsSuffix'
  BY <1>1 DEF FramesNest, QueueIsSuffix
<1>3. WaitingInLog'
  <2>1. CASE queue' = queue
    BY <2>1 DEF IInv, WaitingInLog
  <2>2. CASE queue' = <<>>
    BY <2>2, EmptySeq DEF IInv, WaitingInLog
  <2> QED
    BY <2>1, <2>2
<1>4. RowsInLog' /\ DocsInLog'
  BY <1>1 DEF RowsInLog, DocsInLog, CommittedLen
<1> QED
  BY <1>2, <1>3, <1>4 DEF IInv

\* The rows, where they do not change, and both documents when nothing is open.
LEMMA QuietFacts ==
    ASSUME IInv, frames = <<>>
    PROVE  /\ TypeOK /\ Len(oplog) \in Nat /\ Len(marks) <= 1
           /\ marks = <<>> => queue = <<>>
           /\ \A k \in Keys : Within(oplog, sql[k], Len(oplog))
           /\ doc # NoDoc => \A k \in Modeled : Within(oplog, doc[k], Len(oplog))
           /\ file # NoDoc => \A k \in Modeled : Within(oplog, file[k], Len(oplog))
  BY SequenceTypes DEF IInv, FramesNest, QueueIsSuffix, RowsInLog, DocsInLog, CommittedLen

LEMMA FlushQueueStep ==
    ASSUME IInv, FlushQueue
    PROVE  IInv'
<1>1. frames = <<>> /\ UNCHANGED <<sql, oplog, frames, direct>> /\ marks' = <<>> /\ queue' = <<>>
  BY DEF FlushQueue, FlushDue, sqliteVars
<1>2. PICK F \in SUBSET Modeling(queue), published \in 0..Len(queue) :
         MirrorAll(queue, F, published) /\ outcome' = Stamped(F)
  BY DEF FlushQueue
<1>3. MirrorsLogged(queue)
  BY <1>1 DEF MirrorsLogged, IInv, TypeOK, WaitingInLog
<1>4. /\ doc' \in Docs \cup {NoDoc} /\ file' \in Docs \cup {NoDoc}
      /\ doc' # NoDoc => \A k \in Modeled : Within(oplog, doc'[k], Len(oplog))
      /\ file' # NoDoc => \A k \in Modeled : Within(oplog, file'[k], Len(oplog))
      /\ pend' \in [local : BOOLEAN, ops : SUBSET OpIds] \cup {NoSave}
      /\ timer' \in BOOLEAN /\ unsent' \in BOOLEAN
      /\ failed' \subseteq OpIds \cup {SaveEvent}
      /\ unrecorded' \subseteq OpIds \cup {SaveEvent}
  BY <1>2, <1>3, MirrorAllStep
<1>5. outcome' \in [OpIds -> {"none", "deferred", "not-modeled", "applied", "failed"}]
  BY <1>2 DEF Stamped, IInv, TypeOK
<1>6. TypeOK'
  BY <1>1, <1>4, <1>5, EmptySeq DEF FlushQueue, IInv, TypeOK
<1> QED
  BY <1>1, <1>4, <1>6, QuietFacts, QuietStep, EmptySeq

LEMMA MirrorDirectStep ==
    ASSUME IInv, MirrorDirect
    PROVE  IInv'
<1>1. direct \in Ops /\ direct # NoOp
  BY DEF IInv, TypeOK, MirrorDirect, DirectDue
<1>2. frames = <<>> /\ UNCHANGED <<sql, oplog, frames, queue, marks>> /\ direct' = NoOp
  BY <1>1 DEF MirrorDirect, sqliteVars, IInv, FramesNest
<1>3. PICK F \in SUBSET Modeling(<<direct>>) :
         /\ MirrorAll(<<direct>>, F, 0)
         /\ outcome' = [outcome EXCEPT ![direct.id] =
                           IF direct.key \notin Modeled THEN "not-modeled"
                           ELSE IF F = {} THEN "applied" ELSE "failed"]
  BY DEF MirrorDirect
<1>4. MirrorsLogged(<<direct>>)
  <2>1. <<direct>> \in Seq(Ops) /\ Len(<<direct>>) = 1 /\ <<direct>>[1] = direct
    BY <1>1
  <2>2. Within(oplog, direct.id, Len(oplog))
    BY <1>1 DEF IInv, WaitingInLog
  <2> QED
    BY <1>2, <2>1, <2>2 DEF MirrorsLogged
<1>5. /\ doc' \in Docs \cup {NoDoc} /\ file' \in Docs \cup {NoDoc}
      /\ doc' # NoDoc => \A k \in Modeled : Within(oplog, doc'[k], Len(oplog))
      /\ file' # NoDoc => \A k \in Modeled : Within(oplog, file'[k], Len(oplog))
      /\ pend' \in [local : BOOLEAN, ops : SUBSET OpIds] \cup {NoSave}
      /\ timer' \in BOOLEAN /\ unsent' \in BOOLEAN
      /\ failed' \subseteq OpIds \cup {SaveEvent}
      /\ unrecorded' \subseteq OpIds \cup {SaveEvent}
  <2>1. 0 \in 0..Len(<<direct>>)
    OBVIOUS
  <2> QED
    BY <2>1, <1>3, <1>4, MirrorAllStep
<1>6. outcome' \in [OpIds -> {"none", "deferred", "not-modeled", "applied", "failed"}]
  BY <1>3 DEF IInv, TypeOK
<1>7. TypeOK'
  BY <1>2, <1>5, <1>6 DEF MirrorDirect, IInv, TypeOK
<1> QED
  BY <1>2, <1>5, <1>7, QuietFacts, QuietStep

LEMMA EnsureSeededStep ==
    ASSUME IInv, EnsureSeeded
    PROVE  IInv'
<1>1. /\ frames = <<>> /\ UNCHANGED <<sql, oplog, frames, queue, marks, direct>>
      /\ doc' = LoadOrSeed /\ file' = LoadOrSeed
  BY DEF EnsureSeeded, Idle, sqliteVars, deferVars
<1>2. /\ LoadOrSeed \in Docs
      /\ \A k \in Modeled : Within(oplog, LoadOrSeed[k], Len(oplog))
  BY <1>1, LoadOrSeedTyped
<1>3. TypeOK'
  BY <1>1, <1>2 DEF EnsureSeeded, IInv, TypeOK, saveVars, ledgerVars
<1> QED
  BY <1>1, <1>2, <1>3, QuietFacts, QuietStep

\* A save window closes: the file is what it was, or the document.
LEMMA SaveWindowStep ==
    ASSUME TypeOK, SaveWindow
    PROVE  /\ file' = file \/ (doc # NoDoc /\ file' = doc)
           /\ pend' = NoSave /\ timer' = FALSE /\ unsent' \in BOOLEAN
           /\ failed' \subseteq OpIds \cup {SaveEvent}
           /\ unrecorded' \subseteq OpIds \cup {SaveEvent}
<1>1. pend # NoSave => pend.local \in BOOLEAN /\ pend.ops \in SUBSET OpIds
  <2>1. pend # NoSave => pend \in [local : BOOLEAN, ops : SUBSET OpIds]
    BY DEF TypeOK
  <2> QED
    BY <2>1
<1>2. CASE UNCHANGED <<file, unsent, ledgerVars>>
  BY <1>2 DEF SaveWindow, TypeOK, ledgerVars
<1>3. CASE /\ pend # NoSave /\ doc # NoDoc
           /\ file' = doc
           /\ unsent' = (unsent /\ ~pend.local)
           /\ UNCHANGED ledgerVars
  BY <1>1, <1>3 DEF SaveWindow, TypeOK, ledgerVars
<1>4. CASE /\ pend # NoSave /\ doc # NoDoc
           /\ Record(pend.ops \cup {SaveEvent})
           /\ UNCHANGED <<file, unsent>>
  <2>1. pend.ops \cup {SaveEvent} \in SUBSET (OpIds \cup {SaveEvent})
    BY <1>1, <1>4
  <2> QED
    BY <2>1, <1>4, RecordTyped DEF SaveWindow, TypeOK
<1> QED
  BY <1>2, <1>3, <1>4 DEF SaveWindow

LEMMA TimerFiresStep ==
    ASSUME IInv, TimerFires
    PROVE  IInv'
<1>1. /\ frames = <<>> /\ UNCHANGED <<sql, oplog, frames, queue, marks, direct, doc>>
      /\ SaveWindow
  BY DEF TimerFires, Idle, sqliteVars, deferVars
<1>2. TypeOK'
  BY <1>1, SaveWindowStep DEF TimerFires, IInv, TypeOK
<1> QED
  BY <1>1, <1>2, SaveWindowStep, QuietFacts, QuietStep

LEMMA FlushAndSuspendStep ==
    ASSUME IInv, FlushAndSuspend
    PROVE  IInv'
<1>1. /\ frames = <<>> /\ UNCHANGED <<sql, oplog, frames, queue, marks, direct, doc>>
      /\ SaveWindow
  BY DEF FlushAndSuspend, Idle, sqliteVars, deferVars
<1>2. TypeOK'
  BY <1>1, SaveWindowStep DEF FlushAndSuspend, IInv, TypeOK
<1> QED
  BY <1>1, <1>2, SaveWindowStep, QuietFacts, QuietStep

LEMMA RemoteMergeStep ==
    ASSUME IInv, NEW r \in Remote, NEW S \in SUBSET Modeled, RemoteMerge(r, S)
    PROVE  IInv'
<1>1. /\ frames = <<>> /\ UNCHANGED <<oplog, frames, queue, marks, direct, file>>
      /\ doc # NoDoc
      /\ doc' = [k \in Modeled |-> IF k \in S THEN r ELSE doc[k]]
      /\ ScheduleSave({}, FALSE)
  BY DEF RemoteMerge, Idle, deferVars
<1>2. r \in Values /\ r \notin OpIds
  BY ValueAssumption DEF Values, OpIds
<1>3. doc' \in Docs /\ \A k \in Modeled : Within(oplog, doc'[k], Len(oplog))
  <2>1. doc \in Docs /\ \A k \in Modeled : Within(oplog, doc[k], Len(oplog))
    BY <1>1, QuietFacts DEF TypeOK
  <2>2. doc' \in Docs
    BY <2>1, <1>1, <1>2 DEF Docs
  <2>3. ASSUME NEW k \in Modeled
        PROVE  Within(oplog, doc'[k], Len(oplog))
    <3>1. CASE k \in S
      BY <3>1, <1>1, <1>2 DEF Within
    <3>2. CASE k \notin S
      BY <3>2, <1>1, <2>1
    <3> QED
      BY <3>1, <3>2
  <2> QED
    BY <2>2, <2>3
<1>4. sql' \in [Keys -> Values] /\ \A k \in Keys : Within(oplog, sql'[k], Len(oplog))
  <2>1. CASE sql' = sql
    BY <2>1, <1>1, QuietFacts DEF TypeOK
  <2>2. CASE sql' = [k \in Keys |-> IF k \in Modeled THEN doc'[k] ELSE sql[k]]
    BY <2>2, <1>1, <1>3, QuietFacts DEF TypeOK, Docs
  <2> QED
    BY <2>1, <2>2 DEF RemoteMerge
<1>5. /\ pend' \in [local : BOOLEAN, ops : SUBSET OpIds] \cup {NoSave}
      /\ timer' \in BOOLEAN
  BY <1>1, ScheduleSaveTyped DEF IInv
<1>6. TypeOK'
  BY <1>1, <1>3, <1>4, <1>5 DEF RemoteMerge, IInv, TypeOK, ledgerVars
<1> QED
  BY <1>1, <1>3, <1>4, <1>6, QuietFacts, QuietStep

\* A restart keeps the committed part of the log, and the file was within it.
LEMMA RestartStep ==
    ASSUME IInv, Restart
    PROVE  IInv'
<1>0. TypeOK /\ FramesNest /\ RowsInLog /\ DocsInLog
  BY DEF IInv
<1>1. CommittedLen \in 0..Len(oplog) /\ Len(oplog) \in Nat
  BY <1>0, CommittedPart, SequenceTypes
<1>2. /\ oplog' \in Seq(Ops) /\ Len(oplog') = CommittedLen
      /\ \A i \in 1..CommittedLen : oplog'[i] = oplog[i]
  BY <1>0, <1>1, Prefix DEF Restart, TypeOK
<1>3. /\ frames' = <<>> /\ queue' = <<>> /\ marks' = <<>> /\ direct' = NoOp
      /\ doc' = NoDoc /\ file' = file
      /\ Len(frames') = 0 /\ Len(queue') = 0 /\ Len(marks') = 0
  BY EmptySeq DEF Restart
<1>4. sql' \in [Keys -> Values] /\ \A k \in Keys : Within(oplog, sql'[k], CommittedLen)
  <2>1. CASE InBody
    <3>1. 1 \in 1..Len(frames) /\ sql' = frames[1].sql /\ CommittedLen = frames[1].len
      BY <2>1, <1>0, SequenceTypes DEF Restart, InBody, CommittedLen
    <3> QED
      BY <3>1, <1>0, SequenceTypes DEF RowsInLog
  <2>2. CASE ~InBody
    BY <2>2, <1>0 DEF Restart, InBody, CommittedLen, RowsInLog, TypeOK
  <2> QED
    BY <2>1, <2>2
<1>5. \A v : Within(oplog, v, CommittedLen) => Within(oplog', v, CommittedLen)
  BY <1>1, <1>2 DEF Within
<1>6. lost' \subseteq OpIds \cup {SaveEvent}
  <2>1. pend # NoSave => pend.ops \in SUBSET OpIds
    <3>1. pend # NoSave => pend \in [local : BOOLEAN, ops : SUBSET OpIds]
      BY <1>0 DEF TypeOK
    <3> QED
      BY <3>1
  <2>2. Ids(queue) \in SUBSET OpIds
    BY <1>0, ModelingTyped DEF TypeOK
  <2>3. direct # NoOp => direct.id \in OpIds
    BY <1>0 DEF TypeOK, Ops
  <2> QED
    BY <2>1, <2>2, <2>3, <1>0 DEF Restart, TypeOK
<1>7. crashes' \in 0..MaxCrashes
  BY <1>0, BoundsAssumption DEF Restart, TypeOK
<1>8. TypeOK'
  BY <1>0, <1>2, <1>3, <1>4, <1>6, <1>7, EmptySeq DEF Restart, TypeOK, ledgerVars
<1>9. FramesNest' /\ QueueIsSuffix' /\ WaitingInLog'
  BY <1>3 DEF FramesNest, QueueIsSuffix, WaitingInLog
<1>10. RowsInLog'
  BY <1>2, <1>3, <1>4, <1>5 DEF RowsInLog
<1>11. DocsInLog'
  <2>1. CommittedLen' = CommittedLen
    BY <1>2, <1>3 DEF CommittedLen
  <2> QED
    BY <2>1, <1>0, <1>3, <1>5 DEF DocsInLog
<1> QED
  BY <1>8, <1>9, <1>10, <1>11 DEF IInv

LEMMA StutterStep ==
    ASSUME IInv, UNCHANGED vars
    PROVE  IInv'
<1>1. /\ sql' = sql /\ oplog' = oplog /\ frames' = frames /\ queue' = queue
      /\ marks' = marks /\ direct' = direct /\ doc' = doc /\ file' = file
  BY DEF vars, sqliteVars, deferVars
<1>2. /\ pend' = pend /\ timer' = timer /\ unsent' = unsent /\ suspended' = suspended
      /\ failed' = failed /\ unrecorded' = unrecorded /\ stale' = stale
      /\ outcome' = outcome /\ nextOp' = nextOp /\ lost' = lost /\ crashes' = crashes
  BY DEF vars, saveVars, ledgerVars
<1>3. TypeOK'
  BY <1>1, <1>2 DEF IInv, TypeOK
<1>4. FramesNest' /\ QueueIsSuffix'
  BY <1>1 DEF IInv, FramesNest, QueueIsSuffix
<1>5. WaitingInLog' /\ RowsInLog' /\ DocsInLog'
  BY <1>1 DEF IInv, WaitingInLog, RowsInLog, DocsInLog, CommittedLen
<1> QED
  BY <1>3, <1>4, <1>5 DEF IInv

-----------------------------------------------------------------------------
(* The theorems                                                            *)

LEMMA Inductive == IInv /\ [Next]_vars => IInv'
<1> SUFFICES ASSUME IInv, [Next]_vars
             PROVE  IInv'
  OBVIOUS
<1>1. CASE BeginAtomic
  BY <1>1, BeginStep
<1>2. CASE Throw
  BY <1>2, ThrowStep
<1>3. CASE CommitInner
  BY <1>3, CommitInnerStep
<1>4. CASE CommitOutermost
  BY <1>4, CommitOutermostStep
<1>5. CASE \E k \in Keys : AppendInBody(k) \/ AppendTopLevel(k)
  BY <1>5, AppendInBodyStep, AppendTopLevelStep
<1>6. CASE FlushQueue
  BY <1>6, FlushQueueStep
<1>7. CASE MirrorDirect
  BY <1>7, MirrorDirectStep
<1>8. CASE EnsureSeeded
  BY <1>8, EnsureSeededStep
<1>9. CASE TimerFires
  BY <1>9, TimerFiresStep
<1>10. CASE FlushAndSuspend
  BY <1>10, FlushAndSuspendStep
<1>11. CASE \E r \in Remote, S \in SUBSET Modeled : S # {} /\ RemoteMerge(r, S)
  BY <1>11, RemoteMergeStep
<1>12. CASE Restart
  BY <1>12, RestartStep
<1>13. CASE UNCHANGED vars
  BY <1>13, StutterStep
<1> QED
  BY <1>1, <1>2, <1>3, <1>4, <1>5, <1>6, <1>7, <1>8, <1>9, <1>10, <1>11, <1>12, <1>13
     DEF Next

\* Whatever the keys, the nesting and the number of writes, the variables of
\* the write path keep their types.
THEOREM TypeCorrect == Spec => []TypeOK
<1>1. IInv => TypeOK
  BY DEF IInv
<1> QED
  BY <1>1, InitInv, Inductive, PTL DEF Spec

\* The invariant the first proof needed, for those that build on it.
THEOREM Invariance == Spec => []IInv
  BY InitInv, Inductive, PTL DEF Spec

LEMMA InvariantCommits == IInv => OnlyCommittedReplicates
<1> SUFFICES ASSUME IInv, NEW d \in {doc, file} \ {NoDoc}, NEW k \in Modeled, d[k] \in OpIds
             PROVE  d[k] \in CommittedIds
  BY DEF OnlyCommittedReplicates
<1>1. Within(oplog, d[k], CommittedLen)
  BY DEF IInv, DocsInLog
<1> QED
  BY <1>1 DEF Within, CommittedIds

\* runAtomic's promise (T309): whatever runs, nests, throws or dies, no write
\* that SQLite rolled back, or still may, is in the document or in its file.
THEOREM OnlyCommitted == Spec => []OnlyCommittedReplicates
  BY Invariance, InvariantCommits, PTL

-----------------------------------------------------------------------------
(* What still waits for the document                                       *)

\* The committed or open writes the document has not been told of.
Waiting == IF direct = NoOp THEN queue ELSE <<direct>>
Base == Len(oplog) - Len(Waiting)

\* Ids are given in the order of the log, and never twice.
LogOrdered ==
    /\ \A i, j \in 1..Len(oplog) : i < j => oplog[i].id < oplog[j].id
    /\ \A i \in 1..Len(oplog) : oplog[i].id < nextOp

\* What waits is the end of the op-log, after a COMMIT as in a body.
WaitingIsSuffix ==
    /\ Base \in Nat
    /\ \A i \in 1..Len(Waiting) : Waiting[i] = oplog[Base + i]
    /\ direct # NoOp => marks = <<>>

\* The documents hold only what is before it.
DocsBehind ==
    /\ doc # NoDoc => \A k \in Modeled : Within(oplog, doc[k], Base)
    /\ file # NoDoc => \A k \in Modeled : Within(oplog, file[k], Base)

Order == LogOrdered /\ WaitingIsSuffix /\ DocsBehind

LEMMA WaitingFacts ==
    ASSUME IInv
    PROVE  /\ direct = NoOp => Waiting = queue
           /\ direct # NoOp => /\ Waiting = <<direct>> /\ Len(Waiting) = 1
                               /\ Waiting[1] = direct /\ frames = <<>> /\ direct \in Ops
           /\ Waiting \in Seq(Ops) /\ Len(Waiting) \in Nat
           /\ \A i \in 1..Len(Waiting) : Waiting[i] \in Ops
           /\ Len(oplog) \in Nat /\ Base \in Int
           /\ \A i \in 1..Len(oplog) : oplog[i] \in Ops
           /\ Waiting = <<>> <=> Len(Waiting) = 0
<1>0. TypeOK /\ (direct # NoOp => frames = <<>>)
  BY DEF IInv, FramesNest
<1>1. CASE direct = NoOp
  BY <1>0, <1>1, SequenceTypes DEF Waiting, Base, TypeOK
<1>2. CASE direct # NoOp
  <2>1. direct \in Ops
    BY <1>0, <1>2 DEF TypeOK
  <2> QED
    BY <1>0, <1>2, <2>1, SequenceTypes DEF Waiting, Base, TypeOK
<1> QED
  BY <1>1, <1>2

LEMMA EmptyLen ==
    ASSUME NEW S, NEW s \in Seq(S)
    PROVE  s = <<>> <=> Len(s) = 0
  BY EmptySeq

LEMMA OpFacts ==
    ASSUME NEW op \in Ops
    PROVE  op.id \in OpIds /\ op.id \in Int /\ op.key \in Keys
  BY BoundsAssumption DEF Ops, OpIds

LEMMA BodyFacts ==
    ASSUME IInv, frames # <<>>
    PROVE  /\ direct = NoOp /\ Waiting = queue
           /\ CommittedLen = Base /\ frames[1].len = Base /\ Base \in Nat
           /\ Len(queue) \in Nat /\ Len(frames) \in Nat /\ Len(frames) >= 1
           /\ Len(marks) = Len(frames)
           /\ \A i \in 1..Len(marks) : marks[i] = frames[i].len - Base /\ marks[i] \in 0..Len(queue)
<1>1. direct = NoOp /\ Len(marks) = Len(frames)
  BY DEF IInv, FramesNest
<1>2. /\ Len(queue) = Len(oplog) - frames[1].len
      /\ \A i \in 1..Len(marks) : marks[i] = frames[i].len - frames[1].len
  BY DEF IInv, QueueIsSuffix
<1>3. Len(queue) \in Nat /\ Len(oplog) \in Nat /\ Len(frames) \in Nat /\ Len(frames) >= 1
  BY SequenceTypes DEF IInv
<1>4. /\ frames[1].len \in Nat
      /\ \A i \in 1..Len(frames) : frames[i].len \in Nat /\ frames[1].len <= frames[i].len
                                   /\ frames[i].len <= Len(oplog)
  BY <1>3, SequenceTypes DEF IInv, FramesNest
<1>5. Waiting = queue /\ Base = frames[1].len
  BY <1>1, <1>2, <1>3, <1>4 DEF Waiting, Base
<1>6. CommittedLen = Base
  BY <1>5 DEF CommittedLen
<1>7. \A i \in 1..Len(marks) : marks[i] = frames[i].len - Base /\ marks[i] \in 0..Len(queue)
  BY <1>1, <1>2, <1>3, <1>4, <1>5
<1> QED
  BY <1>1, <1>3, <1>4, <1>5, <1>6, <1>7

LEMMA SettledFacts ==
    ASSUME IInv, frames = <<>>, queue = <<>>, direct = NoOp
    PROVE  /\ Waiting = <<>> /\ Len(Waiting) = 0
           /\ Base = Len(oplog) /\ CommittedLen = Len(oplog) /\ Len(oplog) \in Nat
  BY WaitingFacts DEF Base, CommittedLen

LEMMA IdleFacts ==
    ASSUME IInv, Idle
    PROVE  frames = <<>> /\ queue = <<>> /\ direct = NoOp /\ marks = <<>>
  BY DEF Idle, IInv, QueueIsSuffix

\* The documents are behind the committed part: what InvariantDocs says where
\* nothing committed waits.
LEMMA BehindCommitted == IInv /\ CommittedLen = Base => DocsBehind
  BY DEF IInv, DocsInLog, DocsBehind

LEMMA SettledOrder ==
    IInv /\ LogOrdered /\ frames = <<>> /\ queue = <<>> /\ direct = NoOp => Order
<1> SUFFICES ASSUME IInv, LogOrdered, frames = <<>>, queue = <<>>, direct = NoOp
             PROVE  Order
  OBVIOUS
<1>1. WaitingIsSuffix
  BY SettledFacts DEF WaitingIsSuffix
<1> QED
  BY <1>1, SettledFacts, BehindCommitted DEF Order

LEMMA BodyOrder ==
    IInv /\ LogOrdered /\ frames # <<>> => Order
<1> SUFFICES ASSUME IInv, LogOrdered, frames # <<>>
             PROVE  Order
  OBVIOUS
<1>1. WaitingIsSuffix
  BY BodyFacts DEF WaitingIsSuffix, IInv, QueueIsSuffix
<1> QED
  BY <1>1, BodyFacts, BehindCommitted DEF Order

\* A shorter log is ordered if the log was.
LEMMA OrderedPrefix ==
    ASSUME IInv, LogOrdered, NEW n \in 0..Len(oplog), nextOp' = nextOp,
           oplog' = SubSeq(oplog, 1, n)
    PROVE  LogOrdered'
<1>1. oplog \in Seq(Ops) /\ Len(oplog) \in Nat
  BY SequenceTypes DEF IInv, TypeOK
<1>2. Len(oplog') = n /\ \A i \in 1..n : oplog'[i] = oplog[i] /\ i \in 1..Len(oplog)
  BY <1>1, Prefix
<1> QED
  BY <1>2 DEF LogOrdered

LEMMA OrderedInsert ==
    ASSUME IInv, LogOrdered, NEW k \in Keys, InsertOp(k)
    PROVE  LogOrdered'
<1>1. /\ Len(oplog') = Len(oplog) + 1 /\ Len(oplog) \in Nat
      /\ \A i \in 1..Len(oplog) : oplog'[i] = oplog[i]
      /\ oplog'[Len(oplog) + 1].id = nextOp
  <2>1. oplog'[Len(oplog) + 1] = [id |-> nextOp, key |-> k]
    BY InsertStep
  <2> QED
    BY <2>1, InsertStep, WaitingFacts
<1>2. nextOp \in Int /\ nextOp' = nextOp + 1
  BY DEF InsertOp, IInv, TypeOK
<1>3. \A i \in 1..Len(oplog) : oplog[i].id \in Int /\ oplog[i].id < nextOp
  BY WaitingFacts, OpFacts DEF LogOrdered
<1>4. \A i \in 1..Len(oplog') : i \in 1..Len(oplog) \/ i = Len(oplog) + 1
  BY <1>1
<1>5. \A i, j \in 1..Len(oplog') : i < j => oplog'[i].id < oplog'[j].id
  <2> SUFFICES ASSUME NEW i \in 1..Len(oplog'), NEW j \in 1..Len(oplog'), i < j
               PROVE  oplog'[i].id < oplog'[j].id
    OBVIOUS
  <2>1. i \in 1..Len(oplog)
    BY <1>1
  <2>2. CASE j \in 1..Len(oplog)
    BY <2>1, <2>2, <1>1 DEF LogOrdered
  <2>3. CASE j = Len(oplog) + 1
    BY <2>1, <2>3, <1>1, <1>3
  <2> QED
    BY <2>2, <2>3, <1>4
<1>6. \A i \in 1..Len(oplog') : oplog'[i].id < nextOp'
  <2> SUFFICES ASSUME NEW i \in 1..Len(oplog')
               PROVE  oplog'[i].id < nextOp'
    OBVIOUS
  <2>1. CASE i \in 1..Len(oplog)
    BY <2>1, <1>1, <1>2, <1>3
  <2>2. CASE i = Len(oplog) + 1
    BY <2>2, <1>1, <1>2
  <2> QED
    BY <2>1, <2>2, <1>4
<1> QED
  BY <1>5, <1>6 DEF LogOrdered

LEMMA OrderStep == IInv /\ IInv' /\ Order /\ [Next]_vars => Order'
<1> SUFFICES ASSUME IInv, IInv', Order, [Next]_vars
             PROVE  Order'
  OBVIOUS
<1>s. (IInv /\ LogOrdered /\ frames = <<>> /\ queue = <<>> /\ direct = NoOp => Order)'
  BY SettledOrder, PTL
<1>b. (IInv /\ LogOrdered /\ frames # <<>> => Order)'
  BY BodyOrder, PTL
<1>0. LogOrdered /\ WaitingIsSuffix /\ DocsBehind
  BY DEF Order
<1>1. CASE UNCHANGED <<oplog, nextOp>> /\ Idle /\ UNCHANGED <<frames, queue, direct>>
  <2>1. LogOrdered'
    BY <1>0, <1>1 DEF LogOrdered
  <2> QED
    BY <2>1, <1>1, <1>s, IdleFacts
<1>2. CASE BeginAtomic
  <2>1. UNCHANGED <<oplog, nextOp>> /\ frames' # <<>>
    <3>1. frames' = Append(frames, [sql |-> sql, len |-> Len(oplog)])
      BY <1>2 DEF BeginAtomic, OpenFrame
    <3>2. Len(frames') = Len(frames) + 1 /\ Len(frames) \in Nat /\ Len(<<>>) = 0
      BY <3>1, SequenceTypes DEF IInv, TypeOK
    <3> QED
      BY <1>2, <3>2 DEF BeginAtomic
  <2>2. LogOrdered'
    BY <1>0, <2>1 DEF LogOrdered
  <2> QED
    BY <2>1, <2>2, <1>b
<1>3. CASE Throw
  <2>1. /\ Len(frames) \in 1..Len(frames) /\ nextOp' = nextOp
        /\ oplog' = SubSeq(oplog, 1, frames[Len(frames)].len)
        /\ frames[Len(frames)].len \in 0..Len(oplog)
    BY <1>3, BodyFacts, SequenceTypes DEF Throw, InBody, IInv, FramesNest
  <2>2. LogOrdered'
    BY <2>1, <1>0, OrderedPrefix
  <2>3. CASE frames' = <<>>
    <3>1. direct' = NoOp
      BY <1>3, BodyFacts DEF Throw, InBody
    <3>2. marks' = <<>>
      <4>1. /\ Len(frames) \in Nat /\ Len(frames) >= 1
            /\ frames \in Seq([sql : [Keys -> Values], len : Nat])
            /\ frames' = SubSeq(frames, 1, Len(frames) - 1)
            /\ marks' = SubSeq(marks, 1, Len(frames) - 1)
        BY <1>3, BodyFacts DEF Throw, InBody, IInv, TypeOK
      <4>2. Len(frames) - 1 \in 0..Len(frames)
        BY <4>1
      <4>3. /\ Len(frames') = Len(frames) - 1
            /\ frames' \in Seq([sql : [Keys -> Values], len : Nat])
        BY <4>1, <4>2, Prefix
      <4>4. Len(frames) = 1
        <5>1. frames' = <<>> <=> Len(frames') = 0
          BY <4>3, EmptyLen
        <5> QED
          BY <4>1, <4>3, <5>1, <2>3
      <4> QED
        BY <4>1, <4>4, SubSeqEmpty
    <3> QED
      BY <3>1, <3>2, <2>2, <2>3, <1>s DEF IInv, QueueIsSuffix
  <2> QED
    BY <2>2, <2>3, <1>b
<1>4. CASE CommitInner
  <2>1. UNCHANGED <<oplog, nextOp>>
    BY <1>4 DEF CommitInner
  <2>2. frames' # <<>>
    <3>1. frames' = SubSeq(frames, 1, Len(frames) - 1) /\ Len(frames) > 1
      BY <1>4 DEF CommitInner
    <3>2. Len(frames) \in Nat /\ frames \in Seq([sql : [Keys -> Values], len : Nat])
      BY SequenceTypes DEF IInv, TypeOK
    <3>3. Len(frames) - 1 \in 0..Len(frames)
      BY <3>1, <3>2
    <3>4. /\ Len(frames') = Len(frames) - 1
          /\ frames' \in Seq([sql : [Keys -> Values], len : Nat])
      BY <3>1, <3>2, <3>3, Prefix
    <3>5. frames' = <<>> <=> Len(frames') = 0
      BY <3>4, EmptyLen
    <3>6. Len(frames') > 0
      BY <3>1, <3>2, <3>4
    <3> QED
      BY <3>5, <3>6
  <2>3. LogOrdered'
    BY <1>0, <2>1 DEF LogOrdered
  <2> QED
    BY <2>2, <2>3, <1>b
<1>5. CASE CommitOutermost
  <2>1. /\ frames # <<>> /\ frames' = <<>>
        /\ UNCHANGED <<oplog, nextOp, queue, marks, direct, doc, file>>
    BY <1>5, SequenceTypes DEF CommitOutermost, IInv, deferVars
  <2>2. Waiting' = Waiting /\ Base' = Base /\ direct' = NoOp
    BY <2>1, BodyFacts DEF Waiting, Base
  <2> QED
    BY <2>1, <2>2, <1>0 DEF Order, LogOrdered, WaitingIsSuffix, DocsBehind
<1>6. ASSUME NEW k \in Keys, AppendInBody(k)
      PROVE  Order'
  <2>1. LogOrdered'
    BY <1>0, <1>6, OrderedInsert DEF AppendInBody
  <2> QED
    BY <2>1, <1>6, <1>b DEF AppendInBody, InBody
<1>7. ASSUME NEW k \in Keys, AppendTopLevel(k)
      PROVE  Order'
  <2>1. /\ Idle /\ InsertOp(k) /\ UNCHANGED <<marks, doc, file>>
        /\ direct' = [id |-> nextOp, key |-> k]
    BY <1>7 DEF AppendTopLevel
  <2>2. LogOrdered'
    BY <1>0, <2>1, OrderedInsert
  <2>3. /\ Len(oplog') = Len(oplog) + 1 /\ Len(oplog) \in Nat
        /\ \A i \in 1..Len(oplog) : oplog'[i] = oplog[i]
        /\ oplog'[Len(oplog) + 1] = direct'
        /\ direct' # NoOp
    BY <2>1, InsertStep, WaitingFacts, NullAssumption
  <2>4. /\ Waiting' = <<direct'>> /\ Len(Waiting') = 1 /\ Base' = Len(oplog)
        /\ Waiting'[1] = direct'
    BY <2>3 DEF Waiting, Base
  <2>5. WaitingIsSuffix'
    BY <2>1, <2>3, <2>4, IdleFacts DEF WaitingIsSuffix
  <2>6. Base = Len(oplog)
    BY <2>1, IdleFacts, SettledFacts
  <2>7. DocsBehind'
    BY <2>1, <2>3, <2>4, <2>6, <1>0 DEF DocsBehind, Within
  <2> QED
    BY <2>2, <2>5, <2>7 DEF Order
<1>8. CASE FlushQueue
  <2>1. UNCHANGED <<oplog, nextOp, frames, direct>> /\ frames = <<>> /\ queue' = <<>> /\ marks # <<>>
    BY <1>8 DEF FlushQueue, FlushDue, sqliteVars
  <2> QED
    BY <2>1, <1>0, <1>s DEF LogOrdered, WaitingIsSuffix
<1>9. CASE MirrorDirect
  <2>1. UNCHANGED <<oplog, nextOp, frames, queue, marks>> /\ direct' = NoOp /\ direct # NoOp
    BY <1>9 DEF MirrorDirect, DirectDue, sqliteVars
  <2>2. marks = <<>> /\ queue = <<>> /\ frames = <<>>
    BY <2>1, <1>0, WaitingFacts DEF WaitingIsSuffix, IInv, QueueIsSuffix
  <2> QED
    BY <2>1, <2>2, <1>0, <1>s DEF LogOrdered
<1>10. CASE EnsureSeeded
  BY <1>10, <1>1 DEF EnsureSeeded, sqliteVars, deferVars
<1>11. CASE TimerFires
  BY <1>11, <1>1 DEF TimerFires, sqliteVars, deferVars
<1>12. CASE FlushAndSuspend
  BY <1>12, <1>1 DEF FlushAndSuspend, sqliteVars, deferVars
<1>13. CASE \E r \in Remote, S \in SUBSET Modeled : S # {} /\ RemoteMerge(r, S)
  BY <1>13, <1>1 DEF RemoteMerge, sqliteVars, deferVars
<1>14. CASE Restart
  <2>1. /\ nextOp' = nextOp /\ oplog' = SubSeq(oplog, 1, CommittedLen)
        /\ frames' = <<>> /\ queue' = <<>> /\ direct' = NoOp
    BY <1>14 DEF Restart
  <2>2. LogOrdered'
    BY <2>1, <1>0, CommittedPart, OrderedPrefix DEF IInv
  <2> QED
    BY <2>1, <2>2, <1>s
<1>15. CASE UNCHANGED vars
  <2>1. UNCHANGED <<oplog, nextOp, frames, queue, direct, marks, doc, file>>
    BY <1>15 DEF vars, sqliteVars, deferVars
  <2> QED
    BY <2>1, <1>0 DEF Order, LogOrdered, WaitingIsSuffix, DocsBehind, Waiting, Base, Within
<1> QED
  BY <1>2, <1>3, <1>4, <1>5, <1>6, <1>7, <1>8, <1>9, <1>10, <1>11, <1>12, <1>13, <1>14, <1>15
     DEF Next

-----------------------------------------------------------------------------
(* What a mirrored sequence of writes leaves in the document               *)

\* A set of naturals has a least element, one with a bound a greatest.
LEMMA Least ==
    ASSUME NEW T \in SUBSET Nat, T # {}
    PROVE  \E x \in T : \A y \in T : x <= y
<1> DEFINE R == {r \in Nat \X Nat : r[1] < r[2]}
<1>1. IsWellFoundedOn(R, Nat)
  <2>1. OpToRel(<, Nat) = R
    BY DEF OpToRel
  <2> QED
    BY <2>1, NatLessThanWellFounded
<1>2. \A x, y \in Nat : <<y, x>> \in R <=> y < x
  OBVIOUS
<1> HIDE DEF R
<1>3. PICK x \in T : \A y \in T : ~(<<y, x>> \in R)
  BY <1>1, WFMin
<1>4. \A y \in T : x \in Nat /\ y \in Nat /\ ~(y < x)
  BY <1>2, <1>3
<1> QED
  BY <1>4

LEMMA Greatest ==
    ASSUME NEW n \in Nat, NEW T \in SUBSET (1..n), T # {}
    PROVE  \E x \in T : \A y \in T : y <= x
<1> DEFINE U == {n - x : x \in T}
<1>1. U \in SUBSET Nat /\ U # {}
  <2>1. \A x \in T : x \in 1..n /\ n - x \in Nat
    OBVIOUS
  <2>2. \A u \in U : u \in Nat
    BY <2>1
  <2>3. PICK x : x \in T
    OBVIOUS
  <2>4. n - x \in U
    BY <2>3
  <2> QED
    BY <2>2, <2>4
<1>2. PICK u \in U : \A y \in U : u <= y
  BY <1>1, Least
<1>3. PICK x \in T : u = n - x
  OBVIOUS
<1>4. \A y \in T : y <= x
  <2> SUFFICES ASSUME NEW y \in T
               PROVE  y <= x
    OBVIOUS
  <2>1. n - y \in U /\ x \in Int /\ y \in Int
    OBVIOUS
  <2> QED
    BY <1>2, <1>3, <2>1
<1> QED
  BY <1>4

\* n is where the last write of s on k that is not in F stands.
LastIs(s, F, k, n) ==
    /\ n \in 1..Len(s) /\ s[n].key = k /\ s[n].id \notin F
    /\ \A j \in 1..Len(s) : s[j].key = k /\ s[j].id \notin F => j <= n

NoneOn(s, F, k) == \A j \in 1..Len(s) : s[j].key = k => s[j].id \in F

LEMMA LastWriteFacts ==
    ASSUME NEW s \in Seq(Ops), NEW F, NEW k
    PROVE  \/ LastWrite(s, F, k) = 0 /\ NoneOn(s, F, k)
           \/ LastWrite(s, F, k) # 0 /\ LastIs(s, F, k, LastWrite(s, F, k))
<1> DEFINE hits == {i \in DOMAIN s : s[i].key = k /\ s[i].id \notin F}
           last == {i \in hits : \A j \in hits : j <= i}
<1>1. Len(s) \in Nat /\ DOMAIN s = 1..Len(s)
  BY LenProperties
<1>2. CASE hits = {}
  <2>1. LastWrite(s, F, k) = 0
    BY <1>2 DEF LastWrite
  <2>2. NoneOn(s, F, k)
    BY <1>1, <1>2 DEF NoneOn
  <2> QED
    BY <2>1, <2>2
<1>3. CASE hits # {}
  <2>1. hits \in SUBSET (1..Len(s))
    BY <1>1
  <2>2. \E x \in hits : \A y \in hits : y <= x
    <3> HIDE DEF hits
    <3> QED
      BY <1>1, <1>3, <2>1, Greatest
  <2>3. last # {}
    BY <2>2
  <2>4. LastWrite(s, F, k) \in last
    BY <2>3 DEF LastWrite
  <2> QED
    BY <2>1, <2>4, <1>1 DEF LastIs
<1> QED
  BY <1>2, <1>3

LEMMA MirrorAt ==
    ASSUME NEW d, NEW s \in Seq(Ops), NEW F, NEW k \in Modeled
    PROVE  \/ NoneOn(s, F, k) /\ Mirror(d, s, F)[k] = d[k]
           \/ \E n \in 1..Len(s) : LastIs(s, F, k, n) /\ Mirror(d, s, F)[k] = s[n].id
<1>1. Mirror(d, s, F)[k] = IF LastWrite(s, F, k) = 0 THEN d[k] ELSE s[LastWrite(s, F, k)].id
  BY DEF Mirror
<1> QED
  BY <1>1, LastWriteFacts DEF LastIs

LEMMA RecordFacts ==
    ASSUME NEW F, Record(F)
    PROVE  failed' \cup unrecorded' = failed \cup unrecorded \cup F
<1>1. PICK R \in SUBSET F : failed' = failed \cup R /\ unrecorded' = unrecorded \cup (F \ R)
  BY DEF Record
<1> QED
  BY <1>1

LEMMA ScheduleFacts ==
    ASSUME TypeOK, NEW ids \in SUBSET OpIds, NEW local \in BOOLEAN, ScheduleSave(ids, local)
    PROVE  /\ pend' # NoSave /\ timer' = TRUE
           /\ ids \subseteq pend'.ops /\ (pend # NoSave => pend.ops \subseteq pend'.ops)
           /\ local => pend'.local
           /\ pend # NoSave /\ pend.local => pend'.local
<1>1. pend # NoSave => pend \in [local : BOOLEAN, ops : SUBSET OpIds]
  BY DEF TypeOK
<1>2. CASE pend = NoSave
  <2>1. pend' = [local |-> local, ops |-> ids]
    BY <1>2 DEF ScheduleSave
  <2>2. pend' \in [local : BOOLEAN, ops : SUBSET OpIds]
    BY <2>1
  <2> QED
    BY <1>2, <2>1, <2>2, NoSaveAssumption DEF ScheduleSave
<1>3. CASE pend # NoSave
  <2>1. pend' = [local |-> local \/ pend.local, ops |-> ids \cup pend.ops]
    BY <1>3 DEF ScheduleSave
  <2>2. pend' \in [local : BOOLEAN, ops : SUBSET OpIds]
    BY <1>1, <1>3, <2>1
  <2> QED
    BY <1>1, <1>3, <2>1, <2>2, NoSaveAssumption DEF ScheduleSave
<1> QED
  BY <1>2, <1>3

LEMMA ModelingFacts ==
    ASSUME NEW s \in Seq(Ops), NEW n \in 1..Len(s)
    PROVE  s[n].key \in Modeled => s[n].id \in Modeling(s)
<1>1. n \in DOMAIN s
  BY LenProperties
<1> QED
  BY <1>1 DEF Modeling

\* One field of the two documents after the writes of s, none of them loaded
\* before or one of them already there.
LEMMA MirrorFields ==
    ASSUME NEW d, NEW s \in Seq(Ops), NEW F, NEW p \in 0..Len(s), NEW k \in Modeled
    PROVE  /\ \/ NoneOn(SubSeq(s, 1, p), F, k) /\ Mirror(d, SubSeq(s, 1, p), F)[k] = d[k]
              \/ \E n \in 1..p : /\ s[n].key = k /\ s[n].id \notin F
                                  /\ Mirror(d, SubSeq(s, 1, p), F)[k] = s[n].id
           /\ NoneOn(s, F, k) => Mirror(d, SubSeq(s, 1, p), F)[k] = d[k]
<1> DEFINE t == SubSeq(s, 1, p)
<1>1. /\ t \in Seq(Ops) /\ Len(t) = p /\ Len(s) \in Nat
      /\ \A i \in 1..p : t[i] = s[i] /\ i \in 1..Len(s)
  BY Prefix, LenProperties
<1> HIDE DEF t
<1>2. \/ NoneOn(t, F, k) /\ Mirror(d, t, F)[k] = d[k]
      \/ \E n \in 1..Len(t) : LastIs(t, F, k, n) /\ Mirror(d, t, F)[k] = t[n].id
  BY <1>1, MirrorAt
<1>3. \/ NoneOn(t, F, k) /\ Mirror(d, t, F)[k] = d[k]
      \/ \E n \in 1..p : s[n].key = k /\ s[n].id \notin F /\ Mirror(d, t, F)[k] = s[n].id
  BY <1>1, <1>2 DEF LastIs
<1>4. NoneOn(s, F, k) => Mirror(d, t, F)[k] = d[k]
  BY <1>1, <1>3 DEF NoneOn
<1> QED
  BY <1>3, <1>4 DEF t

\* What MirrorAll does to the save window and the ledger.
LEMMA MirrorBooks ==
    ASSUME IInv, NEW s, MirrorsLogged(s), NEW F \in SUBSET Modeling(s),
           NEW published \in 0..Len(s), MirrorAll(s, F, published)
    PROVE  /\ failed' \cup unrecorded' = failed \cup unrecorded \cup F
           /\ Modeling(s) \ F = {} => UNCHANGED <<pend, timer, unsent>>
           /\ Modeling(s) \ F # {} =>
                 /\ pend' # NoSave /\ timer' = TRUE /\ pend'.local
                 /\ Modeling(s) \ F \subseteq pend'.ops
                 /\ pend # NoSave => pend.ops \subseteq pend'.ops
           /\ doc = NoDoc /\ Modeling(s) \ F = {} => UNCHANGED <<doc, file>>
<1>0. TypeOK /\ s \in Seq(Ops) /\ Len(s) \in Nat /\ frames = <<>>
  BY LenProperties DEF IInv, MirrorsLogged
<1> DEFINE done == Modeling(s) \ F
<1>1. failed' \cup unrecorded' = failed \cup unrecorded \cup F
  BY RecordFacts DEF MirrorAll
<1>2. done = {} => UNCHANGED <<pend, timer, unsent>>
  BY DEF MirrorAll, saveVars
<1>3. done # {} => /\ pend' # NoSave /\ timer' = TRUE /\ pend'.local
                   /\ done \subseteq pend'.ops
                   /\ pend # NoSave => pend.ops \subseteq pend'.ops
  <2>1. done \in SUBSET OpIds
    BY <1>0, ModelingTyped
  <2>2. done # {} => ScheduleSave(done, TRUE)
    BY DEF MirrorAll
  <2> HIDE DEF done
  <2> QED
    BY <1>0, <2>1, <2>2, ScheduleFacts
<1>4. doc = NoDoc /\ done = {} => UNCHANGED <<doc, file>>
  BY DEF MirrorAll
<1> QED
  BY <1>1, <1>2, <1>3, <1>4

\* One field of a document that was loaded already: the last write on it that
\* did not fail, or no write, or (from a batch that failed later) one of those
\* that failed.
LEMMA MirrorLoaded ==
    ASSUME IInv, NEW s, MirrorsLogged(s), NEW F \in SUBSET Modeling(s),
           NEW published \in 0..Len(s), MirrorAll(s, F, published),
           doc # NoDoc, NEW k \in Modeled
    PROVE  /\ file' = file /\ doc' # NoDoc
           /\ \/ \E n \in 1..Len(s) : LastIs(s, F, k, n) /\ doc'[k] = s[n].id
              \/ /\ NoneOn(s, F, k)
                 /\ \/ doc'[k] = doc[k]
                    \/ \E n \in 1..Len(s) : s[n].key = k /\ doc'[k] = s[n].id
<1>0. TypeOK /\ s \in Seq(Ops) /\ Len(s) \in Nat
  BY LenProperties DEF IInv, MirrorsLogged
<1> DEFINE base == Mirror(doc, SubSeq(s, 1, published), {})
<1>1. file' = file /\ doc' = Mirror(base, s, F)
  BY DEF MirrorAll
<1>2. base \in Docs
  <2>1. SubSeq(s, 1, published) \in Seq(Ops)
    BY <1>0, Prefix
  <2> QED
    BY <1>0, <2>1, MirrorValues DEF TypeOK
<1>3. \/ base[k] = doc[k]
      \/ \E n \in 1..Len(s) : s[n].key = k /\ base[k] = s[n].id
  <2>1. \/ base[k] = doc[k]
        \/ \E n \in 1..published : s[n].key = k /\ base[k] = s[n].id
    BY <1>0, MirrorFields
  <2> HIDE DEF base
  <2> QED
    BY <2>1, <1>0
<1> HIDE DEF base
<1>4. doc' \in Docs /\ doc' # NoDoc
  BY <1>0, <1>1, <1>2, MirrorValues, NullAssumption
<1>5. \/ NoneOn(s, F, k) /\ doc'[k] = base[k]
      \/ \E n \in 1..Len(s) : LastIs(s, F, k, n) /\ doc'[k] = s[n].id
  BY <1>0, <1>1, MirrorAt
<1> QED
  BY <1>1, <1>3, <1>4, <1>5

\* One field of a document loaded or seeded here, and of the file saved with
\* it: the file may be some writes behind.
LEMMA MirrorSeeds ==
    ASSUME IInv, NEW s, MirrorsLogged(s), NEW F \in SUBSET Modeling(s),
           NEW published \in 0..Len(s), MirrorAll(s, F, published),
           doc = NoDoc, Modeling(s) \ F # {}, NEW k \in Modeled
    PROVE  /\ doc' # NoDoc /\ file' # NoDoc
           /\ \/ \E n \in 1..Len(s) :
                    /\ LastIs(s, F, k, n) /\ doc'[k] = s[n].id
                    /\ \/ file'[k] = LoadOrSeed[k]
                       \/ \E m \in 1..n : s[m].key = k /\ file'[k] = s[m].id
              \/ /\ NoneOn(s, F, k)
                 /\ doc'[k] = LoadOrSeed[k] /\ file'[k] = LoadOrSeed[k]
<1>0. TypeOK /\ s \in Seq(Ops) /\ Len(s) \in Nat /\ frames = <<>> /\ LoadOrSeed \in Docs
  BY LenProperties, LoadOrSeedTyped DEF IInv, MirrorsLogged
<1>1. doc' = Mirror(LoadOrSeed, s, F)
  BY DEF MirrorAll
<1>2. PICK p \in 0..Len(s) : file' = Mirror(LoadOrSeed, SubSeq(s, 1, p), F)
  BY DEF MirrorAll
<1>3. SubSeq(s, 1, p) \in Seq(Ops)
  BY <1>0, Prefix
<1>4. doc' # NoDoc /\ file' # NoDoc
  BY <1>0, <1>1, <1>2, <1>3, MirrorValues, NullAssumption
<1>5. \/ NoneOn(s, F, k) /\ doc'[k] = LoadOrSeed[k]
      \/ \E n \in 1..Len(s) : LastIs(s, F, k, n) /\ doc'[k] = s[n].id
  BY <1>0, <1>1, MirrorAt
<1>6. /\ \/ file'[k] = LoadOrSeed[k]
         \/ \E m \in 1..p : s[m].key = k /\ s[m].id \notin F /\ file'[k] = s[m].id
      /\ NoneOn(s, F, k) => file'[k] = LoadOrSeed[k]
  BY <1>0, <1>2, MirrorFields
<1>7. ASSUME NEW n \in 1..Len(s), LastIs(s, F, k, n)
      PROVE  \/ file'[k] = LoadOrSeed[k]
             \/ \E m \in 1..n : s[m].key = k /\ file'[k] = s[m].id
  <2>1. ASSUME NEW m \in 1..p, s[m].key = k, s[m].id \notin F
        PROVE  m \in 1..n
    BY <2>1, <1>7, <1>0 DEF LastIs
  <2> QED
    BY <2>1, <1>6
<1> QED
  BY <1>4, <1>5, <1>6, <1>7

LEMMA MirrorKeepsDoc ==
    ASSUME IInv, NEW s, MirrorsLogged(s), NEW F \in SUBSET Modeling(s),
           NEW published \in 0..Len(s), MirrorAll(s, F, published),
           doc # NoDoc \/ Modeling(s) \ F # {}
    PROVE  doc' # NoDoc /\ (file' = file \/ file' # NoDoc)
<1>0. TypeOK /\ s \in Seq(Ops) /\ LoadOrSeed \in Docs
  BY LoadOrSeedTyped DEF IInv, MirrorsLogged
<1>1. \A n \in 0..Len(s) : SubSeq(s, 1, n) \in Seq(Ops)
  BY <1>0, Prefix
<1> DEFINE base == IF doc = NoDoc THEN LoadOrSeed
                   ELSE Mirror(doc, SubSeq(s, 1, published), {})
<1>2. base \in Docs
  BY <1>0, <1>1, MirrorValues DEF TypeOK
<1>3. doc' = Mirror(base, s, F)
  BY DEF MirrorAll
<1>4. file' = file \/ \E n \in 0..Len(s) : file' = Mirror(LoadOrSeed, SubSeq(s, 1, n), F)
  BY DEF MirrorAll
<1> HIDE DEF base
<1>5. doc' \in Docs
  BY <1>0, <1>2, <1>3, MirrorValues
<1>6. file' = file \/ file' \in Docs
  BY <1>0, <1>1, <1>4, MirrorValues
<1> QED
  BY <1>5, <1>6, NullAssumption

\* A flush and a top-level write's mirror both mirror what was waiting, and
\* settle the outcome of every op of it.
LEMMA MirroringFacts ==
    ASSUME IInv, Order, FlushQueue \/ MirrorDirect
    PROVE  /\ frames = <<>> /\ UNCHANGED <<sql, oplog, frames, nextOp, stale, lost>>
           /\ queue' = <<>> /\ direct' = NoOp /\ marks' = <<>>
           /\ MirrorsLogged(Waiting)
           /\ \E F \in SUBSET Modeling(Waiting), p \in 0..Len(Waiting) :
                 MirrorAll(Waiting, F, p)
           /\ \A i \in OpIds :
                 IF i \in Ids(Waiting) THEN outcome'[i] \notin {"none", "deferred"}
                 ELSE outcome'[i] = outcome[i]
<1>0. TypeOK /\ WaitingIsSuffix
  BY DEF IInv, Order
<1>1. CASE FlushQueue
  <2>1. /\ frames = <<>> /\ UNCHANGED <<sql, oplog, frames, nextOp, stale, lost, direct>>
        /\ queue' = <<>> /\ marks' = <<>> /\ marks # <<>>
    BY <1>1 DEF FlushQueue, FlushDue, sqliteVars
  <2>2. direct = NoOp /\ Waiting = queue
    BY <1>0, <2>1, WaitingFacts DEF WaitingIsSuffix
  <2>3. PICK F \in SUBSET Modeling(queue), p \in 0..Len(queue) :
           MirrorAll(queue, F, p) /\ outcome' = Stamped(F)
    BY <1>1 DEF FlushQueue
  <2>4. MirrorsLogged(queue)
    BY <2>1 DEF MirrorsLogged, IInv, TypeOK, WaitingInLog
  <2>5. F \subseteq Ids(queue)
    BY DEF Modeling, Ids
  <2>6. \A i \in OpIds : IF i \in Ids(queue) THEN outcome'[i] \notin {"none", "deferred"}
                        ELSE outcome'[i] = outcome[i]
    BY <2>3, <2>5 DEF Stamped
  <2> QED
    BY <2>1, <2>2, <2>3, <2>4, <2>6
<1>2. CASE MirrorDirect
  <2>1. /\ direct # NoOp /\ UNCHANGED <<sql, oplog, frames, nextOp, stale, lost, queue, marks>>
        /\ direct' = NoOp
    BY <1>2 DEF MirrorDirect, DirectDue, sqliteVars
  <2>2. /\ frames = <<>> /\ marks = <<>> /\ queue = <<>>
        /\ Waiting = <<direct>> /\ Len(Waiting) = 1 /\ direct \in Ops
    BY <1>0, <2>1, WaitingFacts DEF WaitingIsSuffix, IInv, QueueIsSuffix
  <2>3. PICK F \in SUBSET Modeling(<<direct>>) :
           /\ MirrorAll(<<direct>>, F, 0)
           /\ outcome' = [outcome EXCEPT ![direct.id] =
                             IF direct.key \notin Modeled THEN "not-modeled"
                             ELSE IF F = {} THEN "applied" ELSE "failed"]
    BY <1>2 DEF MirrorDirect
  <2>4. MirrorsLogged(<<direct>>)
    <3>1. <<direct>> \in Seq(Ops) /\ Len(<<direct>>) = 1 /\ <<direct>>[1] = direct
      BY <2>2
    <3>2. Within(oplog, direct.id, Len(oplog))
      BY <2>1 DEF IInv, WaitingInLog
    <3> QED
      BY <2>2, <3>1, <3>2 DEF MirrorsLogged
  <2>5. Ids(<<direct>>) = {direct.id}
    <3>1. DOMAIN <<direct>> = {1} /\ <<direct>>[1] = direct
      OBVIOUS
    <3> QED
      BY <3>1 DEF Ids
  <2>6. \A i \in OpIds : IF i \in Ids(<<direct>>) THEN outcome'[i] \notin {"none", "deferred"}
                        ELSE outcome'[i] = outcome[i]
    BY <1>0, <2>3, <2>5 DEF TypeOK
  <2>7. 0 \in 0..Len(Waiting)
    BY <2>2
  <2> QED
    BY <2>1, <2>2, <2>3, <2>4, <2>6, <2>7
<1> QED
  BY <1>1, <1>2

-----------------------------------------------------------------------------
(* What is not saved yet is due                                            *)

\* The states of one field that UnsavedIsScheduled allows.
Due(k) ==
    \/ file # NoDoc /\ doc[k] = file[k]
    \/ doc[k] \in failed \cup unrecorded
    \/ pend # NoSave /\ (doc[k] \in OpIds => doc[k] \in pend.ops)
    \/ doc[k] \notin OpIds /\ SaveEvent \in failed \cup unrecorded

LEMMA DueMirror ==
    ASSUME IInv, Order, SaveIsDue, FlushQueue \/ MirrorDirect
    PROVE  SaveIsDue'
<1> DEFINE s == Waiting
<1>0. MirrorsLogged(s) /\ s \in Seq(Ops)
  BY MirroringFacts, WaitingFacts
<1>1. PICK F \in SUBSET Modeling(s), p \in 0..Len(s) : MirrorAll(s, F, p)
  BY MirroringFacts
<1> DEFINE done == Modeling(s) \ F
<1> HIDE DEF s
<1>2. /\ failed' \cup unrecorded' = failed \cup unrecorded \cup F
      /\ done = {} => UNCHANGED <<pend, timer, unsent>>
      /\ done # {} => /\ pend' # NoSave /\ timer' = TRUE /\ pend'.local
                      /\ done \subseteq pend'.ops
                      /\ pend # NoSave => pend.ops \subseteq pend'.ops
      /\ doc = NoDoc /\ done = {} => UNCHANGED <<doc, file>>
  BY <1>0, <1>1, MirrorBooks
<1>3. \A k \in Modeled : \A n : LastIs(s, F, k, n) => s[n].id \in done
  BY <1>0, ModelingFacts DEF LastIs
<1>4. /\ UnsavedIsScheduled /\ WindowIsArmed /\ UnsentIsScheduled
      /\ \A k \in Modeled : doc # NoDoc => Due(k)
  BY DEF SaveIsDue, UnsavedIsScheduled, Due
<1>5. doc # NoDoc \/ done # {} => doc' # NoDoc
  BY <1>0, <1>1, MirrorKeepsDoc
<1>6. WindowIsArmed'
  BY <1>2, <1>4, <1>5 DEF WindowIsArmed
<1>7. UnsentIsScheduled'
  BY <1>2, <1>4 DEF UnsentIsScheduled
<1>8. ASSUME doc' # NoDoc, NEW k \in Modeled
      PROVE  Due(k)'
  <2>1. CASE doc # NoDoc
    <3>1. /\ file' = file
          /\ \/ \E n \in 1..Len(s) : LastIs(s, F, k, n) /\ doc'[k] = s[n].id
             \/ /\ NoneOn(s, F, k)
                /\ \/ doc'[k] = doc[k]
                   \/ \E n \in 1..Len(s) : s[n].key = k /\ doc'[k] = s[n].id
      BY <2>1, <1>0, <1>1, MirrorLoaded
    <3>2. CASE \E n \in 1..Len(s) : LastIs(s, F, k, n) /\ doc'[k] = s[n].id
      BY <3>2, <1>2, <1>3 DEF Due
    <3>3. CASE NoneOn(s, F, k) /\ \E n \in 1..Len(s) : s[n].key = k /\ doc'[k] = s[n].id
      BY <3>3, <1>2 DEF Due, NoneOn
    <3>4. CASE doc'[k] = doc[k]
      BY <3>1, <3>4, <2>1, <1>2, <1>4 DEF Due
    <3> QED
      BY <3>1, <3>2, <3>3, <3>4
  <2>2. CASE doc = NoDoc
    <3>1. done # {}
      BY <2>2, <1>2, <1>8
    <3>2. /\ file' # NoDoc
          /\ \/ \E n \in 1..Len(s) : LastIs(s, F, k, n) /\ doc'[k] = s[n].id
             \/ doc'[k] = LoadOrSeed[k] /\ file'[k] = LoadOrSeed[k]
      <4>1. /\ file' # NoDoc
            /\ \/ \E n \in 1..Len(s) :
                     /\ LastIs(s, F, k, n) /\ doc'[k] = s[n].id
                     /\ \/ file'[k] = LoadOrSeed[k]
                        \/ \E m \in 1..n : s[m].key = k /\ file'[k] = s[m].id
               \/ /\ NoneOn(s, F, k)
                  /\ doc'[k] = LoadOrSeed[k] /\ file'[k] = LoadOrSeed[k]
        BY <2>2, <3>1, <1>0, <1>1, MirrorSeeds
      <4> QED
        BY <4>1
    <3> QED
      BY <3>1, <3>2, <1>2, <1>3 DEF Due
  <2> QED
    BY <2>1, <2>2
<1>9. UnsavedIsScheduled'
  BY <1>8 DEF UnsavedIsScheduled, Due
<1> QED
  BY <1>6, <1>7, <1>9 DEF SaveIsDue

\* What closing the window leaves: the file has caught up, or the failure is
\* on record with every write of the window.
LEMMA SaveWindowFacts ==
    ASSUME TypeOK, SaveWindow
    PROVE  /\ pend' = NoSave /\ timer' = FALSE
           /\ failed \cup unrecorded \subseteq failed' \cup unrecorded'
           /\ \/ UNCHANGED <<file, unsent, failed, unrecorded>> /\ (pend = NoSave \/ doc = NoDoc)
              \/ /\ pend # NoSave /\ doc # NoDoc /\ file' = doc
                 /\ unsent' = (unsent /\ ~pend.local) /\ UNCHANGED <<failed, unrecorded>>
              \/ /\ pend # NoSave /\ doc # NoDoc /\ UNCHANGED <<file, unsent>>
                 /\ pend.ops \cup {SaveEvent} \subseteq failed' \cup unrecorded'
<1>1. ASSUME Record(pend.ops \cup {SaveEvent})
      PROVE  failed' \cup unrecorded' = failed \cup unrecorded \cup (pend.ops \cup {SaveEvent})
  BY <1>1, RecordFacts
<1> QED
  BY <1>1 DEF SaveWindow, ledgerVars

LEMMA DueSaved ==
    ASSUME IInv, SaveIsDue, SaveWindow, doc' = doc
    PROVE  SaveIsDue'
<1>0. TypeOK /\ UnsavedIsScheduled /\ WindowIsArmed /\ UnsentIsScheduled
  BY DEF SaveIsDue, IInv
<1>1. /\ pend' = NoSave /\ timer' = FALSE
      /\ failed \cup unrecorded \subseteq failed' \cup unrecorded'
      /\ \/ UNCHANGED <<file, unsent, failed, unrecorded>> /\ (pend = NoSave \/ doc = NoDoc)
         \/ /\ pend # NoSave /\ doc # NoDoc /\ file' = doc
            /\ unsent' = (unsent /\ ~pend.local) /\ UNCHANGED <<failed, unrecorded>>
         \/ /\ pend # NoSave /\ doc # NoDoc /\ UNCHANGED <<file, unsent>>
            /\ pend.ops \cup {SaveEvent} \subseteq failed' \cup unrecorded'
  BY <1>0, SaveWindowFacts
<1>2. WindowIsArmed'
  BY <1>1 DEF WindowIsArmed
<1>3. UnsentIsScheduled'
  BY <1>0, <1>1 DEF UnsentIsScheduled, WindowIsArmed
<1>4. ASSUME doc # NoDoc, NEW k \in Modeled
      PROVE  Due(k)'
  <2>1. Due(k)
    BY <1>0, <1>4 DEF UnsavedIsScheduled, Due
  <2>2. CASE UNCHANGED <<file, failed, unrecorded>> /\ pend = NoSave
    BY <2>1, <2>2, <1>1 DEF Due
  <2>3. CASE file' = doc
    BY <2>3, <1>4 DEF Due
  <2>4. CASE /\ pend # NoSave /\ file' = file
             /\ pend.ops \cup {SaveEvent} \subseteq failed' \cup unrecorded'
    BY <2>1, <2>4, <1>1 DEF Due
  <2> QED
    BY <2>2, <2>3, <2>4, <1>1, <1>4
<1>5. UnsavedIsScheduled'
  BY <1>4 DEF UnsavedIsScheduled, Due
<1> QED
  BY <1>2, <1>3, <1>5 DEF SaveIsDue

LEMMA DueMerge ==
    ASSUME IInv, SaveIsDue, NEW r \in Remote, NEW S \in SUBSET Modeled, RemoteMerge(r, S)
    PROVE  SaveIsDue'
<1>0. TypeOK /\ UnsavedIsScheduled /\ WindowIsArmed /\ UnsentIsScheduled
  BY DEF SaveIsDue, IInv
<1>1. /\ doc # NoDoc /\ doc' = [k \in Modeled |-> IF k \in S THEN r ELSE doc[k]]
      /\ ScheduleSave({}, FALSE) /\ UNCHANGED <<file, unsent, failed, unrecorded>>
  BY DEF RemoteMerge, ledgerVars
<1>2. /\ pend' # NoSave /\ timer' = TRUE
      /\ pend # NoSave => pend.ops \subseteq pend'.ops
      /\ pend # NoSave /\ pend.local => pend'.local
  BY <1>0, <1>1, ScheduleFacts
<1>3. r \notin OpIds
  BY ValueAssumption DEF OpIds
<1>4. doc' # NoDoc
  <2>1. doc \in Docs /\ r \in Values
    BY <1>0, <1>1 DEF TypeOK, Values
  <2>2. doc' \in Docs
    BY <2>1, <1>1 DEF Docs
  <2> QED
    BY <2>2, NullAssumption
<1>5. ASSUME NEW k \in Modeled
      PROVE  Due(k)'
  <2>1. CASE k \in S
    BY <2>1, <1>1, <1>2, <1>3 DEF Due
  <2>2. CASE k \notin S
    <3>1. doc'[k] = doc[k] /\ Due(k)
      BY <2>2, <1>0, <1>1 DEF UnsavedIsScheduled, Due
    <3> QED
      BY <3>1, <1>1, <1>2 DEF Due
  <2> QED
    BY <2>1, <2>2
<1>6. UnsavedIsScheduled'
  BY <1>5 DEF UnsavedIsScheduled, Due
<1> QED
  BY <1>0, <1>1, <1>2, <1>4, <1>6 DEF SaveIsDue, WindowIsArmed, UnsentIsScheduled

LEMMA DueStep == IInv /\ Order /\ SaveIsDue /\ [Next]_vars => SaveIsDue'
<1> SUFFICES ASSUME IInv, Order, SaveIsDue, [Next]_vars
             PROVE  SaveIsDue'
  OBVIOUS
<1>1. CASE UNCHANGED <<doc, file, pend, timer, unsent, failed, unrecorded>>
  BY <1>1 DEF SaveIsDue, UnsavedIsScheduled, WindowIsArmed, UnsentIsScheduled
<1>2. CASE BeginAtomic \/ Throw \/ CommitInner \/ CommitOutermost
  BY <1>1, <1>2 DEF BeginAtomic, Throw, CommitInner, CommitOutermost, saveVars, ledgerVars
<1>3. CASE \E k \in Keys : AppendInBody(k) \/ AppendTopLevel(k)
  BY <1>1, <1>3 DEF AppendInBody, AppendTopLevel, saveVars, ledgerVars
<1>4. CASE FlushQueue \/ MirrorDirect
  BY <1>4, DueMirror
<1>5. CASE EnsureSeeded
  <2>1. /\ doc' = LoadOrSeed /\ file' = LoadOrSeed /\ doc = NoDoc
        /\ UNCHANGED <<pend, timer, unsent, failed, unrecorded>>
    BY <1>5 DEF EnsureSeeded, saveVars, ledgerVars
  <2>2. doc' # NoDoc
    BY <1>5, <2>1, EnsureSeededStep, LoadOrSeedTyped, NullAssumption DEF EnsureSeeded, Idle
  <2> QED
    BY <2>1, <2>2 DEF SaveIsDue, UnsavedIsScheduled, WindowIsArmed, UnsentIsScheduled
<1>6. CASE TimerFires \/ FlushAndSuspend
  BY <1>6, DueSaved DEF TimerFires, FlushAndSuspend
<1>7. CASE \E r \in Remote, S \in SUBSET Modeled : S # {} /\ RemoteMerge(r, S)
  BY <1>7, DueMerge
<1>8. CASE Restart
  BY <1>8 DEF Restart, SaveIsDue, UnsavedIsScheduled, WindowIsArmed, UnsentIsScheduled
<1>9. CASE UNCHANGED vars
  BY <1>1, <1>9 DEF vars, saveVars, ledgerVars
<1> QED
  BY <1>2, <1>3, <1>4, <1>5, <1>6, <1>7, <1>8, <1>9 DEF Next

-----------------------------------------------------------------------------
(* No outcome is left open                                                 *)

\* Every op before the ones that wait has been given its outcome, or a crash
\* took it.
OutcomesDue ==
    \A i \in 1..Base : outcome[oplog[i].id] \in {"none", "deferred"} => oplog[i].id \in lost

LEMMA ThrowFacts ==
    ASSUME IInv, IInv', Throw
    PROVE  /\ Waiting = queue /\ Waiting' = queue' /\ Base' = Base
           /\ Len(frames) \in 1..Len(frames)
           /\ Len(Waiting') = marks[Len(frames)] /\ Len(Waiting') \in 0..Len(Waiting)
           /\ \A i \in 1..Len(Waiting') : Waiting'[i] = Waiting[i]
           /\ Len(oplog') \in 0..Len(oplog) /\ \A i \in 1..Len(oplog') : oplog'[i] = oplog[i]
           /\ Len(frames') = Len(frames) - 1
           /\ \A f \in 1..Len(frames') : /\ frames'[f] = frames[f] /\ marks'[f] = marks[f]
                                         /\ marks[f] \in 0..Len(Waiting')
<1>0. /\ InBody /\ frames # <<>>
      /\ frames' = SubSeq(frames, 1, Len(frames) - 1)
      /\ marks' = SubSeq(marks, 1, Len(marks) - 1)
      /\ queue' = SubSeq(queue, 1, marks[Len(marks)])
      /\ oplog' = SubSeq(oplog, 1, frames[Len(frames)].len)
      /\ direct' = direct
  BY DEF Throw, InBody, CutQueue
<1>1. /\ direct = NoOp /\ Waiting = queue /\ Base \in Nat
      /\ Len(queue) \in Nat /\ Len(frames) \in Nat /\ Len(frames) >= 1
      /\ Len(marks) = Len(frames)
      /\ \A i \in 1..Len(marks) : marks[i] = frames[i].len - Base /\ marks[i] \in 0..Len(queue)
  BY <1>0, BodyFacts
<1>2. /\ frames \in Seq([sql : [Keys -> Values], len : Nat]) /\ marks \in Seq(Nat)
      /\ queue \in Seq(Ops) /\ oplog \in Seq(Ops) /\ Len(oplog) \in Nat
  BY SequenceTypes DEF IInv, TypeOK
<1>3. \A i \in 1..Len(frames) : /\ frames[i].len \in 0..Len(oplog)
                                /\ frames[i].len <= frames[Len(frames)].len
  BY <1>1, SequenceTypes DEF IInv, FramesNest
<1> DEFINE top == Len(frames)
<1>4. top \in 1..top /\ top - 1 \in 0..top
  BY <1>1
<1> HIDE DEF top
<1>5. top = Len(frames) /\ top = Len(marks)
  BY <1>1 DEF top
<1>u. /\ frames' = SubSeq(frames, 1, top - 1) /\ top - 1 \in 0..Len(frames)
      /\ marks' = SubSeq(marks, 1, top - 1) /\ top - 1 \in 0..Len(marks)
      /\ queue' = SubSeq(queue, 1, marks[top])
      /\ oplog' = SubSeq(oplog, 1, frames[top].len)
  BY <1>0, <1>4, <1>5
<1>6. /\ Len(frames') = top - 1 /\ Len(marks') = top - 1
      /\ \A f \in 1..(top - 1) : frames'[f] = frames[f] /\ marks'[f] = marks[f]
  <2>1. Len(frames') = top - 1 /\ \A f \in 1..(top - 1) : frames'[f] = frames[f]
    BY <1>u, <1>2, Prefix
  <2>2. Len(marks') = top - 1 /\ \A f \in 1..(top - 1) : marks'[f] = marks[f]
    BY <1>u, <1>2, Prefix
  <2> QED
    BY <2>1, <2>2
<1>7. marks[top] \in 0..Len(queue) /\ marks[top] = frames[top].len - Base
  BY <1>1, <1>4, <1>5
<1>8. /\ Len(queue') = marks[top] /\ \A i \in 1..marks[top] : queue'[i] = queue[i]
  BY <1>u, <1>2, <1>7, Prefix
<1>9. frames[top].len \in 0..Len(oplog)
  BY <1>3, <1>4, <1>5
<1>10. /\ Len(oplog') = frames[top].len
       /\ \A i \in 1..frames[top].len : oplog'[i] = oplog[i]
  BY <1>u, <1>2, <1>9, Prefix
<1>11. Waiting' = queue'
  BY <1>0, <1>1 DEF Waiting
<1>12. Base' = Base
  BY <1>1, <1>7, <1>8, <1>9, <1>10, <1>11 DEF Base
<1>13. \A f \in 1..(top - 1) : marks[f] \in 0..marks[top]
  <2> SUFFICES ASSUME NEW f \in 1..(top - 1)
               PROVE  marks[f] \in 0..marks[top]
    OBVIOUS
  <2>1. f \in 1..Len(frames) /\ f \in 1..Len(marks)
    BY <1>4, <1>5
  <2>2. /\ frames[f].len <= frames[top].len /\ frames[f].len \in Int
        /\ marks[f] = frames[f].len - Base /\ marks[f] \in 0..Len(queue)
    BY <2>1, <1>1, <1>3, <1>5
  <2> QED
    BY <2>2, <1>1, <1>7, <1>9
<1> QED
  BY <1>1, <1>4, <1>5, <1>6, <1>7, <1>8, <1>9, <1>10, <1>11, <1>12, <1>13

\* The steps of a body, and its COMMIT, that neither append nor throw.
LEMMA SameWaiting ==
    ASSUME IInv, BeginAtomic \/ CommitInner \/ CommitOutermost
    PROVE  /\ Waiting' = Waiting /\ Base' = Base
           /\ UNCHANGED <<sql, oplog, doc, file, stale, outcome, lost, failed, unrecorded, nextOp>>
  BY DEF BeginAtomic, CommitInner, CommitOutermost, Waiting, Base, deferVars, ledgerVars

LEMMA AppendFacts ==
    ASSUME IInv, Order, NEW k \in Keys, AppendInBody(k) \/ AppendTopLevel(k)
    PROVE  /\ Base' = Base /\ nextOp \in OpIds
           /\ Len(oplog') = Len(oplog) + 1
           /\ \A i \in 1..Len(oplog) : oplog'[i] = oplog[i]
           /\ oplog'[Len(oplog) + 1] = [id |-> nextOp, key |-> k]
           /\ Len(Waiting') = Len(Waiting) + 1
           /\ \A i \in 1..Len(Waiting) : Waiting'[i] = Waiting[i]
           /\ Waiting'[Len(Waiting) + 1] = [id |-> nextOp, key |-> k]
           /\ sql' = [sql EXCEPT ![k] = nextOp] /\ nextOp' = nextOp + 1
           /\ UNCHANGED <<frames, marks, doc, file, stale, lost, failed, unrecorded>>
           /\ \A i \in OpIds \ {nextOp} : outcome'[i] = outcome[i]
<1> DEFINE op == [id |-> nextOp, key |-> k]
<1>0. InsertOp(k) /\ sql' = [sql EXCEPT ![k] = nextOp] /\ nextOp' = nextOp + 1
  BY DEF AppendInBody, AppendTopLevel, InsertOp
<1>1. /\ Len(oplog') = Len(oplog) + 1 /\ Len(oplog) \in Nat
      /\ \A i \in 1..Len(oplog) : oplog'[i] = oplog[i]
      /\ oplog'[Len(oplog) + 1] = op /\ nextOp \in OpIds /\ op \in Ops /\ op # NoOp
  BY <1>0, InsertStep, WaitingFacts, NullAssumption
<1>2. UNCHANGED <<frames, marks, doc, file, stale, lost, failed, unrecorded>>
  BY DEF AppendInBody, AppendTopLevel, ledgerVars
<1>3. \A i \in OpIds \ {nextOp} : outcome'[i] = outcome[i]
  BY DEF AppendInBody, AppendTopLevel, IInv, TypeOK
<1>4. /\ Len(Waiting') = Len(Waiting) + 1 /\ Len(Waiting) \in Nat
      /\ \A i \in 1..Len(Waiting) : Waiting'[i] = Waiting[i]
      /\ Waiting'[Len(Waiting) + 1] = op
  <2>1. CASE AppendInBody(k)
    <3>1. direct = NoOp /\ direct' = NoOp /\ Waiting = queue
      BY <2>1, BodyFacts DEF AppendInBody, InBody
    <3>2. Waiting' = Append(queue, op) /\ queue \in Seq(Ops)
      BY <2>1, <3>1 DEF AppendInBody, Waiting, IInv, TypeOK
    <3> HIDE DEF op
    <3> QED
      BY <3>1, <3>2, <1>1, Appended, LenProperties
  <2>2. CASE AppendTopLevel(k)
    <3>1. Waiting = <<>> /\ Len(Waiting) = 0 /\ direct' = op
      BY <2>2, IdleFacts, SettledFacts DEF AppendTopLevel
    <3>2. Waiting' = <<op>>
      BY <3>1, <1>1 DEF Waiting
    <3> HIDE DEF op
    <3> QED
      BY <3>1, <3>2
  <2> QED
    BY <2>1, <2>2
<1>5. Base' = Base
  BY <1>1, <1>4 DEF Base
<1> QED
  BY <1>0, <1>1, <1>2, <1>3, <1>4, <1>5

LEMMA WaitingIds ==
    ASSUME IInv, Order, NEW i \in 1..Len(oplog), i > Base
    PROVE  oplog[i].id \in Ids(Waiting)
<1>1. /\ Base \in Nat /\ Base = Len(oplog) - Len(Waiting) /\ Len(oplog) \in Nat
      /\ Waiting \in Seq(Ops)
      /\ \A j \in 1..Len(Waiting) : Waiting[j] = oplog[Base + j]
  BY WaitingFacts DEF Order, WaitingIsSuffix, Base
<1>2. i - Base \in 1..Len(Waiting) /\ Base + (i - Base) = i
  BY <1>1, WaitingFacts
<1>3. Waiting[i - Base] = oplog[i] /\ i - Base \in DOMAIN Waiting
  BY <1>1, <1>2, LenProperties
<1> QED
  BY <1>3 DEF Ids

LEMMA OutcomesStep ==
    IInv /\ IInv' /\ Order /\ Order' /\ OutcomesDue /\ [Next]_vars => OutcomesDue'
<1> SUFFICES ASSUME IInv, IInv', Order, Order', OutcomesDue, [Next]_vars
             PROVE  OutcomesDue'
  OBVIOUS
<1>0. /\ Base \in 0..Len(oplog) /\ Len(oplog) \in Nat
      /\ \A i \in 1..Len(oplog) : oplog[i].id \in OpIds /\ oplog[i].id < nextOp
  BY WaitingFacts, OpFacts DEF Order, WaitingIsSuffix, LogOrdered, Base
<1>1. CASE UNCHANGED <<oplog, queue, direct, outcome, lost>>
  BY <1>1 DEF OutcomesDue, Waiting, Base
<1>2. CASE BeginAtomic \/ CommitInner \/ CommitOutermost
  BY <1>2, SameWaiting DEF OutcomesDue
<1>3. CASE Throw
  <2>1. /\ Base' = Base /\ Base' \in 0..Len(oplog') /\ UNCHANGED <<outcome, lost>>
        /\ \A i \in 1..Len(oplog') : oplog'[i] = oplog[i]
    <3>1. /\ Base' = Base /\ Len(oplog') \in 0..Len(oplog) /\ Len(Waiting') \in 0..Len(Waiting)
          /\ \A i \in 1..Len(oplog') : oplog'[i] = oplog[i]
      BY <1>3, ThrowFacts
    <3>2. Base' \in Nat /\ Base' = Len(oplog') - Len(Waiting') /\ Len(Waiting) \in Nat
      BY WaitingFacts DEF Order, WaitingIsSuffix, Base
    <3>3. Base' \in 0..Len(oplog')
      BY <3>1, <3>2, <1>0
    <3>4. UNCHANGED <<outcome, lost>>
      BY <1>3 DEF Throw
    <3> QED
      BY <3>1, <3>3, <3>4
  <2> QED
    BY <2>1 DEF OutcomesDue
<1>4. CASE \E k \in Keys : AppendInBody(k) \/ AppendTopLevel(k)
  <2>1. /\ Base' = Base /\ lost' = lost /\ nextOp \in OpIds
        /\ \A i \in 1..Len(oplog) : oplog'[i] = oplog[i]
        /\ \A i \in OpIds \ {nextOp} : outcome'[i] = outcome[i]
    BY <1>4, AppendFacts
  <2>2. \A i \in 1..Base : /\ oplog'[i] = oplog[i]
                           /\ outcome'[oplog[i].id] = outcome[oplog[i].id]
    <3>1. \A i \in 1..Base : i \in 1..Len(oplog) /\ oplog[i].id \in OpIds \ {nextOp}
      BY <1>0, <2>1 DEF OpIds
    <3> QED
      BY <2>1, <3>1
  <2> QED
    BY <2>1, <2>2 DEF OutcomesDue
<1>5. CASE FlushQueue \/ MirrorDirect
  <2>1. /\ oplog' = oplog /\ lost' = lost
        /\ \A i \in OpIds : IF i \in Ids(Waiting) THEN outcome'[i] \notin {"none", "deferred"}
                             ELSE outcome'[i] = outcome[i]
        /\ queue' = <<>> /\ direct' = NoOp
    BY <1>5, MirroringFacts
  <2>2. Base' = Len(oplog)
    BY <2>1, <1>0 DEF Base, Waiting
  <2>3. ASSUME NEW i \in 1..Len(oplog), outcome'[oplog[i].id] \in {"none", "deferred"}
        PROVE  oplog[i].id \in lost
    <3>1. oplog[i].id \in OpIds
      BY <1>0
    <3>2. oplog[i].id \notin Ids(Waiting) /\ outcome'[oplog[i].id] = outcome[oplog[i].id]
      BY <2>1, <2>3, <3>1
    <3>3. i \in 1..Base
      BY <3>2, <1>0, WaitingIds
    <3> QED
      BY <3>2, <3>3, <2>3 DEF OutcomesDue
  <2> QED
    BY <2>1, <2>2, <2>3 DEF OutcomesDue
<1>6. CASE EnsureSeeded
  BY <1>1, <1>6 DEF EnsureSeeded, deferVars, sqliteVars
<1>7. CASE TimerFires \/ FlushAndSuspend
  BY <1>1, <1>7 DEF TimerFires, FlushAndSuspend, deferVars, sqliteVars
<1>8. CASE \E r \in Remote, S \in SUBSET Modeled : S # {} /\ RemoteMerge(r, S)
  BY <1>1, <1>8 DEF RemoteMerge, deferVars
<1>9. CASE Restart
  <2>1. /\ oplog' = SubSeq(oplog, 1, CommittedLen) /\ outcome' = outcome
        /\ queue' = <<>> /\ direct' = NoOp /\ lost \subseteq lost'
        /\ (FlushDue => Ids(queue) \subseteq lost') /\ (direct # NoOp => direct.id \in lost')
    BY <1>9 DEF Restart
  <2>2. /\ CommittedLen \in 0..Len(oplog) /\ Len(oplog') = CommittedLen
        /\ \A i \in 1..CommittedLen : oplog'[i] = oplog[i]
    BY <2>1, CommittedPart, Prefix DEF IInv, TypeOK
  <2>3. Base' = CommittedLen
    BY <2>1, <2>2, <1>0 DEF Base, Waiting
  <2>4. ASSUME NEW i \in 1..CommittedLen, outcome[oplog[i].id] \in {"none", "deferred"}
        PROVE  oplog[i].id \in lost'
    <3>1. CASE i \in 1..Base
      BY <3>1, <2>1, <2>4 DEF OutcomesDue
    <3>2. CASE i > Base
      <4>1. frames = <<>>
        BY <3>2, BodyFacts
      <4>2. oplog[i].id \in Ids(Waiting)
        BY <3>2, <2>2, <1>0, WaitingIds
      <4>3. CASE direct = NoOp
        <5>1. oplog[i].id \in Ids(queue) /\ queue # <<>>
          BY <4>2, <4>3 DEF Waiting, Ids
        <5>2. FlushDue
          BY <4>1, <5>1 DEF FlushDue, IInv, QueueIsSuffix
        <5> QED
          BY <5>1, <5>2, <2>1
      <4>4. CASE direct # NoOp
        <5>1. DOMAIN <<direct>> = {1} /\ <<direct>>[1] = direct
          OBVIOUS
        <5>2. oplog[i].id = direct.id
          BY <4>2, <4>4, <5>1 DEF Waiting, Ids
        <5> QED
          BY <4>4, <5>2, <2>1
      <4> QED
        BY <4>3, <4>4
    <3> QED
      BY <3>1, <3>2, <2>2, <1>0
  <2> QED
    BY <2>1, <2>2, <2>3, <2>4 DEF OutcomesDue
<1>10. CASE UNCHANGED vars
  BY <1>1, <1>10 DEF vars, deferVars, sqliteVars
<1> QED
  BY <1>2, <1>3, <1>4, <1>5, <1>6, <1>7, <1>8, <1>9, <1>10 DEF Next

-----------------------------------------------------------------------------
(* SQLite's rows follow the document and what waits for it                 *)

\* The i-th of the first n writes of w is the last of them on k.
LastOn(w, n, k, i) ==
    /\ i \in 1..n /\ w[i].key = k
    /\ \A j \in 1..n : w[j].key = k => j <= i

\* A row's value is that of the last write waiting on it; with none waiting
\* there, ok must hold of it.
Follows(w, n, k, v, ok) ==
    \/ \E i \in 1..n : LastOn(w, n, k, i) /\ v = w[i].id
    \/ (\A i \in 1..n : w[i].key # k) /\ ok

\* The value v of field k is in d, or the difference is on record.
Explains(d, noted, k, v) ==
    d # NoDoc => \/ v = d[k] \/ v \in noted
                 \/ v \in Remote /\ SaveEvent \in noted

\* The document, or the file it will be loaded from.
Newest == IF doc # NoDoc THEN doc ELSE file

\* So for SQLite's rows, and for the rows each open frame would go back to.
RowsFollow ==
    \A k \in Modeled :
        /\ Follows(Waiting, Len(Waiting), k, sql[k],
                   stale \/ Explains(Newest, Accounted, k, sql[k]))
        /\ \A f \in 1..Len(frames) :
              Follows(Waiting, marks[f], k, frames[f].sql[k],
                      stale \/ Explains(Newest, Accounted, k, frames[f].sql[k]))

\* A later write, another device's, or the older one's failure is on record.
NewerOrNoted(old, new, noted) ==
    \/ new \in Remote
    \/ new \in OpIds /\ new >= old
    \/ old \in noted

\* The file is never ahead of the document.
FileBehindDoc ==
    doc # NoDoc =>
        /\ file # NoDoc
        /\ \A k \in Modeled :
              /\ file[k] # Blank => doc[k] # Blank
              /\ file[k] \in OpIds => NewerOrNoted(file[k], doc[k], failed \cup unrecorded)

LEMMA FollowsKept ==
    ASSUME NEW w, NEW u, NEW n \in Nat, \A i \in 1..n : u[i] = w[i],
           NEW k, NEW v, NEW ok \in BOOLEAN, Follows(w, n, k, v, ok)
    PROVE  Follows(u, n, k, v, ok)
  BY DEF Follows, LastOn

LEMMA FollowsNext ==
    ASSUME NEW w, NEW u, NEW n \in Nat, \A i \in 1..n : u[i] = w[i],
           NEW k, NEW v, NEW ok \in BOOLEAN,
           \/ u[n + 1].key = k /\ v = u[n + 1].id
           \/ u[n + 1].key # k /\ Follows(w, n, k, v, ok)
    PROVE  Follows(u, n + 1, k, v, ok)
<1>1. CASE u[n + 1].key = k /\ v = u[n + 1].id
  <2>1. LastOn(u, n + 1, k, n + 1)
    BY <1>1 DEF LastOn
  <2> QED
    BY <1>1, <2>1 DEF Follows
<1>2. ASSUME u[n + 1].key # k, NEW i \in 1..n, LastOn(w, n, k, i), v = w[i].id
      PROVE  Follows(u, n + 1, k, v, ok)
  <2>1. \A j \in 1..(n + 1) : j \in 1..n \/ j = n + 1
    OBVIOUS
  <2>2. LastOn(u, n + 1, k, i) /\ i \in 1..(n + 1) /\ v = u[i].id
    BY <1>2, <2>1 DEF LastOn
  <2> QED
    BY <2>2 DEF Follows
<1>3. CASE u[n + 1].key # k /\ (\A i \in 1..n : w[i].key # k) /\ ok
  <2>1. \A j \in 1..(n + 1) : j \in 1..n \/ j = n + 1
    OBVIOUS
  <2>2. \A j \in 1..(n + 1) : u[j].key # k
    BY <1>3, <2>1
  <2> QED
    BY <1>3, <2>2 DEF Follows
<1> QED
  BY <1>1, <1>2, <1>3 DEF Follows

\* In a body the rows are those of the writes it made, and the documents wait.
LEMMA RowsBody ==
    ASSUME IInv, IInv', Order, RowsFollow,
           \/ BeginAtomic \/ Throw \/ CommitInner \/ CommitOutermost
           \/ \E k \in Keys : AppendInBody(k) \/ AppendTopLevel(k)
    PROVE  RowsFollow'
<1> DEFINE Ok(k, v) == stale \/ Explains(Newest, Accounted, k, v)
<1>0. UNCHANGED <<stale, Newest, Accounted>>
  BY DEF BeginAtomic, Throw, CommitInner, CommitOutermost, AppendInBody, AppendTopLevel,
     ledgerVars, Newest, Accounted
<1>1. SUFFICES \A k \in Modeled :
         /\ Follows(Waiting', Len(Waiting'), k, sql'[k], Ok(k, sql'[k]))
         /\ \A f \in 1..Len(frames') :
               Follows(Waiting', marks'[f], k, frames'[f].sql[k], Ok(k, frames'[f].sql[k]))
  BY <1>0 DEF RowsFollow
<1> SUFFICES ASSUME NEW k \in Modeled
             PROVE  /\ Follows(Waiting', Len(Waiting'), k, sql'[k], Ok(k, sql'[k]))
                    /\ \A f \in 1..Len(frames') :
                          Follows(Waiting', marks'[f], k, frames'[f].sql[k], Ok(k, frames'[f].sql[k]))
  OBVIOUS
<1>2. \A v : Ok(k, v) \in BOOLEAN
  BY DEF Explains, IInv, TypeOK
<1>3. /\ Follows(Waiting, Len(Waiting), k, sql[k], Ok(k, sql[k]))
      /\ \A f \in 1..Len(frames) :
            Follows(Waiting, marks[f], k, frames[f].sql[k], Ok(k, frames[f].sql[k]))
  BY DEF RowsFollow
<1>4. /\ Len(Waiting) \in Nat /\ Len(frames) \in Nat
      /\ frames # <<>> => /\ Len(marks) = Len(frames) /\ Waiting = queue
                         /\ \A f \in 1..Len(frames) : marks[f] \in 0..Len(Waiting)
  BY WaitingFacts, BodyFacts, SequenceTypes DEF IInv
<1> HIDE DEF Ok
<1>5. CASE BeginAtomic
  <2>1. Waiting' = Waiting /\ sql' = sql
    BY <1>5, SameWaiting
  <2>2. /\ Len(frames') = Len(frames) + 1 /\ Len(marks') = Len(frames) + 1
        /\ \A f \in 1..Len(frames) : frames'[f] = frames[f] /\ marks'[f] = marks[f]
        /\ frames'[Len(frames) + 1].sql = sql /\ marks'[Len(frames) + 1] = Len(Waiting)
    <3>1. Len(marks) = Len(frames) /\ Waiting = queue
      <4>1. CASE frames # <<>>
        BY <4>1, <1>4
      <4>2. CASE Idle
        BY <4>2, IdleFacts, SettledFacts
      <4> QED
        BY <4>1, <4>2, <1>5 DEF BeginAtomic, InBody
    <3> DEFINE frame == [sql |-> sql, len |-> Len(oplog)]
    <3>2. /\ frames' = Append(frames, frame) /\ marks' = Append(marks, Len(queue))
          /\ frames \in Seq([sql : [Keys -> Values], len : Nat]) /\ marks \in Seq(Nat)
          /\ frame \in [sql : [Keys -> Values], len : Nat] /\ Len(queue) \in Nat
          /\ frame.sql = sql
      BY <1>5, WaitingFacts, SequenceTypes DEF BeginAtomic, OpenFrame, IInv, TypeOK
    <3> HIDE DEF frame
    <3>3. /\ Len(frames') = Len(frames) + 1 /\ frames'[Len(frames) + 1] = frame
          /\ \A f \in 1..Len(frames) : frames'[f] = frames[f]
      BY <3>2, Appended
    <3>4. /\ Len(marks') = Len(marks) + 1 /\ marks'[Len(marks) + 1] = Len(queue)
          /\ \A f \in 1..Len(marks) : marks'[f] = marks[f]
      BY <3>2, Appended
    <3> QED
      BY <3>1, <3>2, <3>3, <3>4
  <2>3. \A f \in 1..Len(frames') : f \in 1..Len(frames) \/ f = Len(frames) + 1
    BY <2>2, <1>4
  <2> QED
    BY <2>1, <2>2, <2>3, <1>3
<1>6. CASE Throw
  <2>1. /\ Len(frames) \in 1..Len(frames) /\ Len(Waiting') = marks[Len(frames)]
        /\ Len(Waiting') \in Nat
        /\ \A i \in 1..Len(Waiting') : Waiting'[i] = Waiting[i]
        /\ Len(frames') = Len(frames) - 1
        /\ \A f \in 1..Len(frames') : /\ frames'[f] = frames[f] /\ marks'[f] = marks[f]
                                       /\ marks[f] \in 0..Len(Waiting')
        /\ sql' = frames[Len(frames)].sql
    <3>1. sql' = frames[Len(frames)].sql
      BY <1>6 DEF Throw
    <3> QED
      BY <3>1, <1>4, <1>6, ThrowFacts
  <2>2. Follows(Waiting', Len(Waiting'), k, sql'[k], Ok(k, sql'[k]))
    <3> DEFINE n == marks[Len(frames)]
               v == frames[Len(frames)].sql[k]
    <3>1. n \in Nat /\ \A i \in 1..n : Waiting'[i] = Waiting[i]
      BY <2>1
    <3>2. Follows(Waiting, n, k, v, Ok(k, v)) /\ Ok(k, v) \in BOOLEAN
      BY <2>1, <1>2, <1>3
    <3>3. Len(Waiting') = n /\ sql'[k] = v
      BY <2>1
    <3> HIDE DEF n, v
    <3>4. Follows(Waiting', n, k, v, Ok(k, v))
      BY <3>1, <3>2, FollowsKept
    <3> QED
      BY <3>3, <3>4
  <2>3. ASSUME NEW f \in 1..Len(frames')
        PROVE  Follows(Waiting', marks'[f], k, frames'[f].sql[k], Ok(k, frames'[f].sql[k]))
    <3>1. /\ f \in 1..Len(frames) /\ marks[f] \in Nat
          /\ \A i \in 1..marks[f] : Waiting'[i] = Waiting[i]
      BY <2>1, <1>4
    <3> DEFINE n == marks[f]
               v == frames[f].sql[k]
    <3>2. Follows(Waiting, n, k, v, Ok(k, v)) /\ Ok(k, v) \in BOOLEAN
      BY <3>1, <1>2, <1>3
    <3>3. marks'[f] = n /\ frames'[f].sql[k] = v
      BY <2>1, <2>3
    <3>4. n \in Nat /\ \A i \in 1..n : Waiting'[i] = Waiting[i]
      BY <3>1
    <3> HIDE DEF n, v
    <3>5. Follows(Waiting', n, k, v, Ok(k, v))
      BY <3>2, <3>4, FollowsKept
    <3> QED
      BY <3>3, <3>5
  <2> QED
    BY <2>2, <2>3
<1>7. CASE CommitInner
  <2>1. Waiting' = Waiting /\ sql' = sql
    BY <1>7, SameWaiting
  <2>2. /\ Len(frames') = Len(frames) - 1
        /\ \A f \in 1..Len(frames') : frames'[f] = frames[f] /\ marks'[f] = marks[f]
    <3>1. /\ Len(frames) > 1 /\ Len(marks) = Len(frames)
          /\ Len(frames) - 1 \in 0..Len(frames)
          /\ frames' = SubSeq(frames, 1, Len(frames) - 1)
          /\ marks' = SubSeq(marks, 1, Len(frames) - 1)
          /\ frames \in Seq([sql : [Keys -> Values], len : Nat]) /\ marks \in Seq(Nat)
      BY <1>4, <1>7, SequenceTypes DEF CommitInner, IInv, TypeOK
    <3>2. /\ Len(frames') = Len(frames) - 1
          /\ \A f \in 1..(Len(frames) - 1) : frames'[f] = frames[f]
      BY <3>1, Prefix
    <3>3. Len(frames) - 1 \in 0..Len(marks)
      BY <3>1
    <3>4. \A f \in 1..(Len(frames) - 1) : marks'[f] = marks[f]
      BY <3>1, <3>3, Prefix
    <3> QED
      BY <3>2, <3>4
  <2>3. \A f \in 1..Len(frames') : f \in 1..Len(frames)
    BY <2>2, <1>4
  <2> QED
    BY <2>1, <2>2, <2>3, <1>3
<1>8. CASE CommitOutermost
  <2>1. Waiting' = Waiting /\ sql' = sql /\ Len(frames') = 0
    BY <1>8, SameWaiting DEF CommitOutermost
  <2> QED
    BY <2>1, <1>3
<1>9. CASE \E h \in Keys : AppendInBody(h) \/ AppendTopLevel(h)
  <2>1. PICK h \in Keys : AppendInBody(h) \/ AppendTopLevel(h)
    BY <1>9
  <2>2. /\ Len(Waiting') = Len(Waiting) + 1
        /\ \A i \in 1..Len(Waiting) : Waiting'[i] = Waiting[i]
        /\ Waiting'[Len(Waiting) + 1] = [id |-> nextOp, key |-> h]
        /\ sql' = [sql EXCEPT ![h] = nextOp] /\ UNCHANGED <<frames, marks>>
    BY <2>1, AppendFacts
  <2>3. Follows(Waiting', Len(Waiting'), k, sql'[k], Ok(k, sql'[k]))
    <3>1. \/ h = k /\ sql'[k] = nextOp
          \/ h # k /\ sql'[k] = sql[k]
      BY <2>2, KeysAssumption DEF IInv, TypeOK
    <3>2. Waiting'[Len(Waiting) + 1].key = h /\ Waiting'[Len(Waiting) + 1].id = nextOp
      BY <2>2
    <3> DEFINE n == Len(Waiting)
               v == sql'[k]
    <3>3. n \in Nat /\ Len(Waiting') = n + 1 /\ \A i \in 1..n : Waiting'[i] = Waiting[i]
      BY <2>2, <1>4
    <3>4. \/ Waiting'[n + 1].key = k /\ v = Waiting'[n + 1].id
          \/ Waiting'[n + 1].key # k /\ Follows(Waiting, n, k, v, Ok(k, v))
      BY <3>1, <3>2, <1>3
    <3>5. Ok(k, v) \in BOOLEAN
      BY <1>2
    <3> HIDE DEF n, v
    <3>6. Follows(Waiting', n + 1, k, v, Ok(k, v))
      BY <3>3, <3>4, <3>5, FollowsNext
    <3> QED
      BY <3>3, <3>6 DEF v
  <2>4. ASSUME NEW f \in 1..Len(frames')
        PROVE  Follows(Waiting', marks'[f], k, frames'[f].sql[k], Ok(k, frames'[f].sql[k]))
    <3>1. frames # <<>> /\ f \in 1..Len(frames)
      BY <2>2, <2>4, <1>4, SequenceTypes DEF IInv
    <3>2. /\ marks[f] \in Nat /\ \A i \in 1..marks[f] : Waiting'[i] = Waiting[i]
      BY <3>1, <2>2, <1>4
    <3> DEFINE n == marks[f]
               v == frames[f].sql[k]
    <3>3. Follows(Waiting, n, k, v, Ok(k, v)) /\ Ok(k, v) \in BOOLEAN
      BY <3>1, <1>2, <1>3
    <3>4. marks'[f] = n /\ frames'[f].sql[k] = v
      BY <2>2
    <3>5. n \in Nat /\ \A i \in 1..n : Waiting'[i] = Waiting[i]
      BY <3>2
    <3> HIDE DEF n, v
    <3>6. Follows(Waiting', n, k, v, Ok(k, v))
      BY <3>3, <3>5, FollowsKept
    <3> QED
      BY <3>4, <3>6
  <2> QED
    BY <2>3, <2>4
<1> QED
  BY <1>5, <1>6, <1>7, <1>8, <1>9

\* Once nothing waits, every row is in the newest document or explained.
LEMMA RowsSettled ==
    ASSUME frames' = <<>>, queue' = <<>>, direct' = NoOp,
           \A k \in Modeled : stale' \/ Explains(Newest', Accounted', k, sql'[k])
    PROVE  RowsFollow'
<1>1. Waiting' = <<>> /\ Len(Waiting') = 0 /\ Len(frames') = 0
  BY DEF Waiting
<1>2. ASSUME NEW k \in Modeled
      PROVE  Follows(Waiting', 0, k, sql'[k], stale' \/ Explains(Newest', Accounted', k, sql'[k]))
  BY DEF Follows
<1> QED
  BY <1>1, <1>2 DEF RowsFollow

LEMMA IdleRows ==
    ASSUME IInv, RowsFollow, Idle, NEW k \in Modeled
    PROVE  stale \/ Explains(Newest, Accounted, k, sql[k])
<1>1. Len(Waiting) = 0
  BY IdleFacts, SettledFacts
<1>2. Follows(Waiting, Len(Waiting), k, sql[k], stale \/ Explains(Newest, Accounted, k, sql[k]))
  BY DEF RowsFollow
<1> QED
  BY <1>1, <1>2 DEF Follows

LEMMA ExplainsMore ==
    ASSUME NEW d, NEW noted, NEW more, noted \subseteq more, NEW k, NEW v,
           Explains(d, noted, k, v)
    PROVE  Explains(d, more, k, v)
  BY DEF Explains

\* The mirror brings the document to where the rows are, failures excepted.
LEMMA RowsMirror ==
    ASSUME IInv, Order, RowsFollow, FlushQueue \/ MirrorDirect
    PROVE  RowsFollow'
<1> DEFINE s == Waiting
<1>0. MirrorsLogged(s) /\ s \in Seq(Ops) /\ Len(s) \in Nat
  BY MirroringFacts, WaitingFacts
<1>1. PICK F \in SUBSET Modeling(s), p \in 0..Len(s) : MirrorAll(s, F, p)
  BY MirroringFacts
<1> DEFINE done == Modeling(s) \ F
<1>2. /\ failed' \cup unrecorded' = failed \cup unrecorded \cup F
      /\ doc = NoDoc /\ done = {} => UNCHANGED <<doc, file>>
  BY <1>0, <1>1, MirrorBooks
<1>3. /\ UNCHANGED <<sql, stale, lost>> /\ frames' = <<>> /\ queue' = <<>> /\ direct' = NoOp
  BY MirroringFacts
<1>4. Accounted \subseteq Accounted' /\ F \subseteq Accounted'
  BY <1>2, <1>3 DEF Accounted
<1>5. ASSUME NEW k \in Modeled
      PROVE  Follows(s, Len(s), k, sql[k], stale \/ Explains(Newest, Accounted, k, sql[k]))
  BY <1>5 DEF RowsFollow
<1>6. \A n \in 1..Len(s) : s[n].key \in Modeled => s[n].id \in Modeling(s)
  BY <1>0, ModelingFacts
<1> HIDE DEF s, done
<1>7. ASSUME NEW k \in Modeled
      PROVE  stale \/ Explains(Newest', Accounted', k, sql[k])
  <2>1. ASSUME NEW i \in 1..Len(s), LastOn(s, Len(s), k, i), sql[k] = s[i].id
        PROVE  Explains(Newest', Accounted', k, sql[k])
    <3>1. CASE s[i].id \in F
      BY <3>1, <2>1, <1>4 DEF Explains
    <3>2. CASE s[i].id \notin F
      <4>1. s[i].id \in done
        BY <3>2, <2>1, <1>6 DEF done, LastOn
      <4>2. ~NoneOn(s, F, k)
        BY <3>2, <2>1 DEF NoneOn, LastOn
      <4>3. \A n \in 1..Len(s) : LastIs(s, F, k, n) => n = i
        BY <3>2, <2>1 DEF LastIs, LastOn
      <4>4. doc' # NoDoc /\ \E n \in 1..Len(s) : LastIs(s, F, k, n) /\ doc'[k] = s[n].id
        <5>1. CASE doc # NoDoc
          BY <5>1, <4>2, <1>0, <1>1, MirrorLoaded
        <5>2. CASE doc = NoDoc
          BY <5>2, <4>1, <4>2, <1>0, <1>1, MirrorSeeds DEF done
        <5> QED
          BY <5>1, <5>2
      <4> QED
        BY <4>3, <4>4, <2>1 DEF Explains, Newest
    <3> QED
      BY <3>1, <3>2
  <2>2. ASSUME \A i \in 1..Len(s) : s[i].key # k, Explains(Newest, Accounted, k, sql[k])
        PROVE  Explains(Newest', Accounted', k, sql[k])
    <3>0. Explains(Newest, Accounted', k, sql[k])
      BY <2>2, <1>4, ExplainsMore
    <3>1. \A n \in 1..Len(s) : ~LastIs(s, F, k, n)
      BY <2>2 DEF LastIs
    <3>2. CASE doc # NoDoc
      <4>1. doc' # NoDoc /\ doc'[k] = doc[k]
        <5>1. /\ doc' # NoDoc
              /\ \/ \E n \in 1..Len(s) : LastIs(s, F, k, n) /\ doc'[k] = s[n].id
                 \/ /\ NoneOn(s, F, k)
                    /\ \/ doc'[k] = doc[k]
                       \/ \E n \in 1..Len(s) : s[n].key = k /\ doc'[k] = s[n].id
          BY <3>2, <1>0, <1>1, MirrorLoaded
        <5> QED
          BY <5>1, <3>1, <2>2
      <4> QED
        BY <3>0, <3>2, <4>1 DEF Explains, Newest
    <3>3. CASE doc = NoDoc /\ done = {}
      BY <3>0, <3>3, <1>2 DEF Explains, Newest
    <3>4. CASE doc = NoDoc /\ done # {}
      <4>1. doc' # NoDoc /\ doc'[k] = LoadOrSeed[k]
        <5>1. /\ doc' # NoDoc
              /\ \/ \E n \in 1..Len(s) :
                       /\ LastIs(s, F, k, n) /\ doc'[k] = s[n].id
                       /\ \/ file'[k] = LoadOrSeed[k]
                          \/ \E m \in 1..n : s[m].key = k /\ file'[k] = s[m].id
                 \/ /\ NoneOn(s, F, k)
                    /\ doc'[k] = LoadOrSeed[k] /\ file'[k] = LoadOrSeed[k]
          BY <3>4, <1>0, <1>1, MirrorSeeds DEF done
        <5> QED
          BY <5>1, <3>1
      <4>2. CASE file # NoDoc
        BY <3>0, <3>4, <4>1, <4>2 DEF Explains, Newest, LoadOrSeed
      <4>3. CASE file = NoDoc
        BY <4>1, <4>3 DEF Explains, Newest, LoadOrSeed
      <4> QED
        BY <4>2, <4>3
    <3> QED
      BY <3>2, <3>3, <3>4
  <2> QED
    BY <2>1, <2>2, <1>5 DEF Follows
<1> QED
  BY <1>3, <1>7, RowsSettled

\* What a restart loses of the rows is on record: the writes that waited, and
\* those the file did not have yet.
LEMMA RowsRestart ==
    ASSUME IInv, Order, RowsFollow, FileBehindDoc, SaveIsDue, Restart
    PROVE  RowsFollow'
<1>0. TypeOK
  BY DEF IInv
<1>1. /\ frames' = <<>> /\ queue' = <<>> /\ direct' = NoOp /\ doc' = NoDoc
      /\ UNCHANGED <<file, failed, unrecorded, stale>>
      /\ sql' = IF InBody THEN frames[1].sql ELSE sql
      /\ lost \subseteq lost' /\ (pend # NoSave => pend.ops \cup {SaveEvent} \subseteq lost')
      /\ (FlushDue => Ids(queue) \subseteq lost') /\ (direct # NoOp => direct.id \in lost')
  BY DEF Restart, ledgerVars
<1>2. Newest' = file /\ Accounted \subseteq Accounted' /\ lost' \subseteq Accounted'
  BY <1>1 DEF Newest, Accounted
<1>3. ASSUME NEW k \in Modeled, NEW v, Explains(Newest, Accounted, k, v)
      PROVE  Explains(file, Accounted', k, v)
  <2>1. CASE doc = NoDoc
    BY <2>1, <1>2, <1>3, ExplainsMore DEF Newest
  <2>2. CASE doc # NoDoc /\ v # doc[k]
    BY <2>2, <1>2, <1>3 DEF Newest, Explains
  <2>3. CASE doc # NoDoc /\ v = doc[k]
    <3>1. Due(k)
      BY <2>3, <1>3 DEF SaveIsDue, UnsavedIsScheduled, Due
    <3>2. doc[k] \notin OpIds => doc[k] \in Remote \/ doc[k] = file[k]
      <4>1. doc[k] \in Values /\ file[k] \in Values
        BY <2>3, <1>0 DEF FileBehindDoc, TypeOK, Docs
      <4> QED
        BY <2>3, <4>1 DEF FileBehindDoc, Values
    <3>3. CASE file # NoDoc /\ doc[k] = file[k]
      BY <3>3, <2>3 DEF Explains
    <3>4. CASE doc[k] \in failed \cup unrecorded
      BY <3>4, <2>3, <1>2 DEF Explains, Accounted
    <3>5. CASE pend # NoSave /\ (doc[k] \in OpIds => doc[k] \in pend.ops)
      BY <3>5, <3>2, <2>3, <1>1, <1>2 DEF Explains
    <3>6. CASE doc[k] \notin OpIds /\ SaveEvent \in failed \cup unrecorded
      BY <3>6, <3>2, <2>3, <1>2 DEF Explains, Accounted
    <3> QED
      BY <3>1, <3>3, <3>4, <3>5, <3>6 DEF Due
  <2> QED
    BY <2>1, <2>2, <2>3
<1>4. ASSUME NEW k \in Modeled
      PROVE  stale \/ Explains(file, Accounted', k, sql'[k])
  <2>1. CASE InBody
    <3>1. marks[1] = 0 /\ 1 \in 1..Len(frames) /\ sql' = frames[1].sql
      BY <2>1, <1>1, BodyFacts DEF InBody
    <3>2. Follows(Waiting, marks[1], k, frames[1].sql[k],
                  stale \/ Explains(Newest, Accounted, k, frames[1].sql[k]))
      BY <3>1 DEF RowsFollow
    <3>3. stale \/ Explains(Newest, Accounted, k, frames[1].sql[k])
      BY <3>1, <3>2 DEF Follows
    <3> QED
      BY <3>1, <3>3, <1>3
  <2>2. CASE ~InBody
    <3>1. sql' = sql /\ frames = <<>>
      BY <2>2, <1>1 DEF InBody
    <3>2. Follows(Waiting, Len(Waiting), k, sql[k],
                  stale \/ Explains(Newest, Accounted, k, sql[k]))
      BY DEF RowsFollow
    <3>3. ASSUME NEW i \in 1..Len(Waiting), sql[k] = Waiting[i].id
          PROVE  Explains(file, Accounted', k, sql[k])
      <4>1. sql[k] \in lost'
        <5>1. CASE direct = NoOp
          <6>0. Waiting = queue /\ queue \in Seq(Ops) /\ i \in 1..Len(queue)
            BY <5>1, <3>3, <1>0 DEF Waiting, TypeOK
          <6>1. Waiting = queue /\ i \in DOMAIN queue /\ queue # <<>>
            <7>1. i \in DOMAIN queue
              BY <6>0, LenProperties
            <7>2. Len(queue) # 0
              BY <6>0
            <7> QED
              BY <6>0, <7>1, <7>2, EmptyLen
          <6>2. FlushDue
            <7>1. marks = <<>> => queue = <<>>
              BY DEF IInv, QueueIsSuffix
            <7> QED
              BY <3>1, <6>1, <7>1 DEF FlushDue
          <6>3. sql[k] \in Ids(queue)
            BY <3>3, <6>1 DEF Ids
          <6> QED
            BY <6>2, <6>3, <1>1
        <5>2. CASE direct # NoOp
          <6>1. Len(Waiting) = 1 /\ Waiting[1] = direct
            BY <5>2, WaitingFacts
          <6>2. sql[k] = direct.id
            BY <6>1, <3>3
          <6> QED
            BY <5>2, <6>2, <1>1
        <5> QED
          BY <5>1, <5>2
      <4> QED
        BY <4>1, <1>2 DEF Explains
    <3>4. ASSUME Explains(Newest, Accounted, k, sql[k])
          PROVE  Explains(file, Accounted', k, sql[k])
      BY <3>4, <1>3
    <3> QED
      BY <3>1, <3>2, <3>3, <3>4 DEF Follows
  <2> QED
    BY <2>1, <2>2
<1> QED
  BY <1>1, <1>2, <1>4, RowsSettled

LEMMA RowsStep ==
    /\ IInv /\ IInv' /\ Order /\ SaveIsDue /\ FileBehindDoc /\ RowsFollow
    /\ [Next]_vars
    => RowsFollow'
<1> SUFFICES ASSUME IInv, IInv', Order, SaveIsDue, FileBehindDoc, RowsFollow, [Next]_vars
             PROVE  RowsFollow'
  OBVIOUS
<1>1. CASE \/ BeginAtomic \/ Throw \/ CommitInner \/ CommitOutermost
           \/ \E k \in Keys : AppendInBody(k) \/ AppendTopLevel(k)
  BY <1>1, RowsBody
<1>2. CASE FlushQueue \/ MirrorDirect
  BY <1>2, RowsMirror
<1>3. CASE EnsureSeeded
  <2>1. /\ Idle /\ doc = NoDoc /\ doc' = LoadOrSeed /\ UNCHANGED <<sql, stale, Accounted>>
        /\ frames' = <<>> /\ queue' = <<>> /\ direct' = NoOp
    BY <1>3, IdleFacts DEF EnsureSeeded, sqliteVars, deferVars, ledgerVars, Accounted
  <2>2. doc' # NoDoc
    BY <2>1, LoadOrSeedTyped, NullAssumption DEF Idle
  <2>3. ASSUME NEW k \in Modeled
        PROVE  stale \/ Explains(doc', Accounted, k, sql[k])
    <3>1. stale \/ Explains(Newest, Accounted, k, sql[k])
      BY <2>1, IdleRows
    <3>2. CASE file # NoDoc
      BY <3>1, <3>2, <2>1 DEF Explains, Newest, LoadOrSeed
    <3>3. CASE file = NoDoc
      BY <3>3, <2>1 DEF Explains, LoadOrSeed
    <3> QED
      BY <3>2, <3>3
  <2> QED
    BY <2>1, <2>2, <2>3, RowsSettled DEF Newest
<1>4. CASE TimerFires \/ FlushAndSuspend
  <2>1. /\ Idle /\ SaveWindow /\ UNCHANGED <<sql, stale, doc, lost>>
        /\ frames' = <<>> /\ queue' = <<>> /\ direct' = NoOp
    BY <1>4, IdleFacts DEF TimerFires, FlushAndSuspend, sqliteVars, deferVars
  <2>2. /\ Accounted \subseteq Accounted' /\ Newest' = Newest
    <3>1. failed \cup unrecorded \subseteq failed' \cup unrecorded' /\ (doc = NoDoc => file' = file)
      BY <2>1, SaveWindowFacts DEF IInv
    <3> QED
      BY <3>1, <2>1 DEF Accounted, Newest
  <2>3. ASSUME NEW k \in Modeled
        PROVE  stale \/ Explains(Newest', Accounted', k, sql[k])
    BY <2>1, <2>2, IdleRows, ExplainsMore
  <2> QED
    BY <2>1, <2>3, RowsSettled
<1>5. ASSUME NEW r \in Remote, NEW S \in SUBSET Modeled, RemoteMerge(r, S)
      PROVE  RowsFollow'
  <2>1. /\ Idle /\ doc # NoDoc /\ UNCHANGED <<frames, queue, direct>>
        /\ doc' = [k \in Modeled |-> IF k \in S THEN r ELSE doc[k]]
        /\ stale' \/ sql' = [k \in Keys |-> IF k \in Modeled THEN doc'[k] ELSE sql[k]]
    BY <1>5 DEF RemoteMerge, deferVars
  <2>2. frames' = <<>> /\ queue' = <<>> /\ direct' = NoOp
    BY <2>1, IdleFacts
  <2>3. doc' # NoDoc
    <3>1. doc \in Docs /\ r \in Values
      BY <2>1 DEF IInv, TypeOK, Values
    <3>2. doc' \in Docs
      BY <2>1, <3>1 DEF Docs
    <3> QED
      BY <3>2, NullAssumption
  <2>4. ASSUME NEW k \in Modeled
        PROVE  stale' \/ Explains(doc', Accounted', k, sql'[k])
    <3>1. stale' \/ sql'[k] = doc'[k]
      BY <2>1, KeysAssumption
    <3> QED
      BY <3>1 DEF Explains
  <2> QED
    BY <2>2, <2>3, <2>4, RowsSettled DEF Newest
<1>6. CASE Restart
  BY <1>6, RowsRestart
<1>7. CASE UNCHANGED vars
  <2>1. UNCHANGED <<Waiting, Newest, Accounted, sql, frames, marks, stale>>
    BY <1>7 DEF vars, sqliteVars, deferVars, ledgerVars, Waiting, Newest, Accounted
  <2> QED
    BY <2>1 DEF RowsFollow
<1> QED
  BY <1>1, <1>2, <1>3, <1>4, <1>5, <1>6, <1>7 DEF Next

-----------------------------------------------------------------------------
(* The file stays behind the document                                      *)

\* What waits is later than anything the documents hold.
LEMMA LaterThanDocs ==
    ASSUME IInv, Order, NEW d \in {doc, file} \ {NoDoc}, NEW k \in Modeled, d[k] \in OpIds,
           NEW i \in 1..Len(Waiting)
    PROVE  d[k] < Waiting[i].id
<1>1. /\ Base \in Nat /\ Waiting[i] = oplog[Base + i]
      /\ Base = Len(oplog) - Len(Waiting) /\ Len(oplog) \in Nat /\ Len(Waiting) \in Nat
  BY WaitingFacts DEF Order, WaitingIsSuffix, Base
<1>2. Within(oplog, d[k], Base)
  BY DEF Order, DocsBehind
<1>3. PICK j \in 1..Base : oplog[j].id = d[k]
  BY <1>2 DEF Within
<1>4. j \in 1..Len(oplog) /\ Base + i \in 1..Len(oplog) /\ j < Base + i
  BY <1>1
<1>5. oplog[j].id < oplog[Base + i].id
  BY <1>4 DEF Order, LogOrdered
<1> QED
  BY <1>1, <1>3, <1>5

LEMMA WaitingOrdered ==
    ASSUME IInv, Order, NEW i \in 1..Len(Waiting), NEW j \in 1..i
    PROVE  /\ j \in 1..Len(Waiting) /\ Waiting[i].id \in OpIds /\ Waiting[j].id \in OpIds
           /\ Waiting[j].id <= Waiting[i].id
<1>1. /\ Base \in Nat /\ Base = Len(oplog) - Len(Waiting)
      /\ Len(oplog) \in Nat /\ Len(Waiting) \in Nat /\ j \in 1..Len(Waiting)
  BY WaitingFacts DEF Order, WaitingIsSuffix, Base
<1>2. Waiting[i] = oplog[Base + i] /\ Waiting[j] = oplog[Base + j]
  BY <1>1 DEF Order, WaitingIsSuffix
<1>3. Waiting[i].id \in OpIds /\ Waiting[j].id \in OpIds /\ Waiting[i].id \in Int
  BY <1>1, WaitingFacts, OpFacts
<1>4. Base + i \in 1..Len(oplog) /\ Base + j \in 1..Len(oplog)
  BY <1>1
<1>5. j < i => oplog[Base + j].id < oplog[Base + i].id
  <2>1. j < i => Base + j < Base + i
    BY <1>1
  <2> QED
    BY <2>1, <1>4 DEF Order, LogOrdered
<1>6. CASE j = i
  BY <1>1, <1>3, <1>6
<1>7. CASE j < i
  BY <1>1, <1>2, <1>3, <1>5, <1>7 DEF OpIds
<1> QED
  BY <1>6, <1>7

\* Where the file is when a value of it is looked at.
LEMMA ValueFacts ==
    /\ \A v : v \in OpIds => v \in Int /\ v # Blank /\ v \notin Remote /\ v # SaveEvent
    /\ \A v : v \in Remote => v # Blank /\ v \notin OpIds
  BY BoundsAssumption, ValueAssumption DEF OpIds, SaveEvent

LEMMA BehindMirror ==
    ASSUME IInv, Order, RowsFollow, FileBehindDoc, FlushQueue \/ MirrorDirect
    PROVE  FileBehindDoc'
<1> DEFINE s == Waiting
           noted == failed \cup unrecorded
<1>0. /\ MirrorsLogged(s) /\ s \in Seq(Ops) /\ Len(s) \in Nat
      /\ \A i \in 1..Len(s) : s[i].id \in OpIds
  BY MirroringFacts, WaitingFacts, OpFacts
<1>1. PICK F \in SUBSET Modeling(s), p \in 0..Len(s) : MirrorAll(s, F, p)
  BY MirroringFacts
<1> DEFINE done == Modeling(s) \ F
<1>2. /\ noted' = noted \cup F
      /\ doc = NoDoc /\ done = {} => UNCHANGED <<doc, file>>
  BY <1>0, <1>1, MirrorBooks
<1>3. \A d \in {doc, file} \ {NoDoc}, k \in Modeled, i \in 1..Len(s) :
         d[k] \in OpIds => d[k] < s[i].id
  BY LaterThanDocs
<1>4. \A i \in 1..Len(s), j \in 1..Len(s) : j <= i => s[j].id <= s[i].id
  BY <1>0, WaitingOrdered
<1>5. \A k \in Modeled : Follows(s, Len(s), k, sql[k],
                                 stale \/ Explains(Newest, Accounted, k, sql[k]))
  BY DEF RowsFollow
<1> HIDE DEF s, noted
<1>6. CASE doc # NoDoc
  <2>1. ASSUME NEW k \in Modeled
        PROVE  /\ file' = file /\ doc' # NoDoc
               /\ doc'[k] = doc[k] \/ \E n \in 1..Len(s) : doc'[k] = s[n].id
    <3>1. /\ file' = file /\ doc' # NoDoc
          /\ \/ \E n \in 1..Len(s) : LastIs(s, F, k, n) /\ doc'[k] = s[n].id
             \/ /\ NoneOn(s, F, k)
                /\ \/ doc'[k] = doc[k]
                   \/ \E n \in 1..Len(s) : s[n].key = k /\ doc'[k] = s[n].id
      BY <1>6, <1>0, <1>1, MirrorLoaded
    <3> QED
      BY <3>1
  <2>2. file # NoDoc
    BY <1>6 DEF FileBehindDoc
  <2>3. file' # NoDoc
    BY <2>2, <1>0, <1>1, <1>6, MirrorKeepsDoc
  <2>4. ASSUME NEW k \in Modeled
        PROVE  /\ file'[k] # Blank => doc'[k] # Blank
               /\ file'[k] \in OpIds => NewerOrNoted(file'[k], doc'[k], noted')
    <3>1. CASE doc'[k] = doc[k]
      BY <3>1, <2>1, <1>2, <1>6 DEF FileBehindDoc, NewerOrNoted, noted
    <3>2. ASSUME NEW n \in 1..Len(s), doc'[k] = s[n].id
          PROVE  /\ file'[k] # Blank => doc'[k] # Blank
                 /\ file'[k] \in OpIds => NewerOrNoted(file'[k], doc'[k], noted')
      <4>1. doc'[k] \in OpIds /\ file' = file
        BY <3>2, <2>1, <1>0
      <4>2. file[k] \in OpIds => file[k] < doc'[k]
        BY <3>2, <2>2, <1>3
      <4>3. file[k] \in OpIds => doc'[k] >= file[k]
        BY <4>1, <4>2, ValueFacts
      <4> QED
        BY <4>1, <4>3, ValueFacts DEF NewerOrNoted
    <3> QED
      BY <3>1, <3>2, <2>1
  <2> QED
    BY <2>3, <2>4 DEF FileBehindDoc, noted
<1>7. CASE doc = NoDoc /\ done = {}
  BY <1>2, <1>7 DEF FileBehindDoc
<1>8. CASE doc = NoDoc /\ done # {}
  <2>1. ASSUME NEW k \in Modeled
        PROVE  /\ doc' # NoDoc /\ file' # NoDoc
               /\ \/ \E n \in 1..Len(s) :
                        /\ LastIs(s, F, k, n) /\ doc'[k] = s[n].id
                        /\ \/ file'[k] = LoadOrSeed[k]
                           \/ \E m \in 1..n : s[m].key = k /\ file'[k] = s[m].id
                  \/ doc'[k] = LoadOrSeed[k] /\ file'[k] = LoadOrSeed[k]
    <3>1. /\ doc' # NoDoc /\ file' # NoDoc
          /\ \/ \E n \in 1..Len(s) :
                   /\ LastIs(s, F, k, n) /\ doc'[k] = s[n].id
                   /\ \/ file'[k] = LoadOrSeed[k]
                      \/ \E m \in 1..n : s[m].key = k /\ file'[k] = s[m].id
             \/ /\ NoneOn(s, F, k)
                /\ doc'[k] = LoadOrSeed[k] /\ file'[k] = LoadOrSeed[k]
      BY <1>8, <1>0, <1>1, MirrorSeeds
    <3> QED
      BY <3>1
  <2>2. ASSUME NEW k \in Modeled, NEW n \in 1..Len(s), LastIs(s, F, k, n), LoadOrSeed[k] \in OpIds
        PROVE  LoadOrSeed[k] <= s[n].id \/ LoadOrSeed[k] \in noted'
    <3>1. CASE file # NoDoc
      <4>1. LoadOrSeed[k] = file[k]
        BY <3>1 DEF LoadOrSeed
      <4>2. file[k] < s[n].id
        BY <3>1, <4>1, <2>2, <1>3
      <4>3. file[k] \in Int /\ s[n].id \in Int
        BY <4>1, <2>2, <1>0, ValueFacts
      <4> QED
        BY <4>1, <4>2, <4>3
    <3>2. CASE file = NoDoc
      <4>1. LoadOrSeed[k] = sql[k]
        BY <3>2 DEF LoadOrSeed
      <4>2. PICK i \in 1..Len(s) : LastOn(s, Len(s), k, i) /\ sql[k] = s[i].id
        BY <2>2, <1>5 DEF Follows, LastIs
      <4>3. CASE s[i].id \in F
        BY <4>1, <4>2, <4>3, <1>2
      <4>4. CASE s[i].id \notin F
        <5>1. i = n
          BY <4>2, <4>4, <2>2, <1>0 DEF LastIs, LastOn
        <5> QED
          BY <5>1, <4>1, <4>2, <1>0, ValueFacts
      <4> QED
        BY <4>3, <4>4
    <3> QED
      BY <3>1, <3>2
  <2>3. ASSUME NEW k \in Modeled
        PROVE  /\ file'[k] # Blank => doc'[k] # Blank
               /\ file'[k] \in OpIds => NewerOrNoted(file'[k], doc'[k], noted')
    <3>1. CASE doc'[k] = file'[k]
      <4>1. file'[k] \in OpIds => doc'[k] >= file'[k]
        BY <3>1, ValueFacts
      <4> QED
        BY <3>1, <4>1 DEF NewerOrNoted
    <3>2. ASSUME NEW n \in 1..Len(s), LastIs(s, F, k, n), doc'[k] = s[n].id,
                 file'[k] \in OpIds,
                 \/ file'[k] = LoadOrSeed[k]
                 \/ \E m \in 1..n : s[m].key = k /\ file'[k] = s[m].id
          PROVE  NewerOrNoted(file'[k], doc'[k], noted')
      <4>1. CASE file'[k] = LoadOrSeed[k]
        <5>1. file'[k] <= s[n].id \/ file'[k] \in noted'
          BY <4>1, <3>2, <2>2
        <5>2. file'[k] \in Int /\ s[n].id \in Int /\ s[n].id \in OpIds
          BY <3>2, <1>0, ValueFacts
        <5> QED
          BY <5>1, <5>2, <3>2 DEF NewerOrNoted
      <4>2. CASE \E m \in 1..n : s[m].key = k /\ file'[k] = s[m].id
        <5>1. PICK m \in 1..n : file'[k] = s[m].id
          BY <4>2
        <5>2. m \in 1..Len(s) /\ m <= n
          BY <1>0
        <5>3. s[m].id <= s[n].id
          BY <5>2, <1>4
        <5>4. s[m].id \in Int /\ s[n].id \in Int /\ s[n].id \in OpIds
          BY <5>2, <1>0, ValueFacts
        <5> QED
          BY <5>1, <5>3, <5>4, <3>2 DEF NewerOrNoted
      <4> QED
        BY <4>1, <4>2, <3>2
    <3>3. \/ doc'[k] = file'[k]
          \/ \E n \in 1..Len(s) :
                /\ LastIs(s, F, k, n) /\ doc'[k] = s[n].id
                /\ \/ file'[k] = LoadOrSeed[k]
                   \/ \E m \in 1..n : s[m].key = k /\ file'[k] = s[m].id
      BY <2>1
    <3>4. \A n \in 1..Len(s) : s[n].id # Blank
      BY <1>0, ValueFacts
    <3> QED
      BY <3>1, <3>2, <3>3, <3>4
  <2>4. doc' # NoDoc /\ file' # NoDoc
    <3>1. \E k \in Keys : k \in Modeled
      BY <1>8, KeysAssumption DEF done, Modeling
    <3> QED
      BY <3>1, <2>1
  <2> QED
    BY <2>3, <2>4 DEF FileBehindDoc, noted
<1> QED
  BY <1>6, <1>7, <1>8

LEMMA BehindStep ==
    IInv /\ Order /\ RowsFollow /\ FileBehindDoc /\ [Next]_vars => FileBehindDoc'
<1> SUFFICES ASSUME IInv, Order, RowsFollow, FileBehindDoc, [Next]_vars
             PROVE  FileBehindDoc'
  OBVIOUS
<1>1. CASE UNCHANGED <<doc, file, failed, unrecorded>>
  BY <1>1 DEF FileBehindDoc
<1>2. CASE BeginAtomic \/ Throw \/ CommitInner \/ CommitOutermost
  BY <1>1, <1>2 DEF BeginAtomic, Throw, CommitInner, CommitOutermost, ledgerVars
<1>3. CASE \E k \in Keys : AppendInBody(k) \/ AppendTopLevel(k)
  BY <1>1, <1>3 DEF AppendInBody, AppendTopLevel, ledgerVars
<1>4. CASE FlushQueue \/ MirrorDirect
  BY <1>4, BehindMirror
<1>5. ASSUME doc' # NoDoc, file' = doc'
      PROVE  FileBehindDoc'
  <2>1. \A k \in Modeled : doc'[k] \in OpIds => doc'[k] >= doc'[k]
    BY ValueFacts
  <2> QED
    BY <1>5, <2>1 DEF FileBehindDoc, NewerOrNoted
<1>6. CASE EnsureSeeded
  <2>1. doc' = LoadOrSeed /\ file' = LoadOrSeed /\ frames = <<>>
    BY <1>6 DEF EnsureSeeded, Idle
  <2>2. doc' # NoDoc
    BY <2>1, LoadOrSeedTyped, NullAssumption
  <2> QED
    BY <2>1, <2>2, <1>5
<1>7. CASE TimerFires \/ FlushAndSuspend
  <2>1. SaveWindow /\ doc' = doc
    BY <1>7 DEF TimerFires, FlushAndSuspend
  <2>2. /\ failed \cup unrecorded \subseteq failed' \cup unrecorded'
        /\ file' = file \/ (doc # NoDoc /\ file' = doc)
    BY <2>1, SaveWindowFacts DEF IInv
  <2>3. CASE file' = file
    BY <2>1, <2>2, <2>3 DEF FileBehindDoc, NewerOrNoted
  <2>4. CASE doc # NoDoc /\ file' = doc
    BY <2>1, <2>4, <1>5
  <2> QED
    BY <2>2, <2>3, <2>4
<1>8. ASSUME NEW r \in Remote, NEW S \in SUBSET Modeled, RemoteMerge(r, S)
      PROVE  FileBehindDoc'
  <2>1. /\ doc # NoDoc /\ UNCHANGED <<file, failed, unrecorded>>
        /\ doc' = [k \in Modeled |-> IF k \in S THEN r ELSE doc[k]]
    BY <1>8 DEF RemoteMerge, ledgerVars
  <2>2. \A k \in Modeled : doc'[k] = r \/ doc'[k] = doc[k]
    BY <2>1
  <2> QED
    BY <2>1, <2>2, ValueFacts DEF FileBehindDoc, NewerOrNoted
<1>9. CASE Restart
  BY <1>9 DEF Restart, FileBehindDoc
<1>10. CASE UNCHANGED vars
  BY <1>1, <1>10 DEF vars, ledgerVars
<1> QED
  BY <1>2, <1>3, <1>4, <1>6, <1>7, <1>8, <1>9, <1>10 DEF Next

-----------------------------------------------------------------------------
(* The books balance                                                       *)

\* The order of the log, and what is due, settled, explained and behind.
Books == Order /\ OutcomesDue /\ SaveIsDue /\ RowsFollow /\ FileBehindDoc

LEMMA InitBooks == Init => Books
<1> SUFFICES ASSUME Init
             PROVE  Books
  OBVIOUS
<1>1. IInv /\ oplog = <<>> /\ Len(oplog) = 0 /\ frames = <<>> /\ queue = <<>> /\ direct = NoOp
  BY InitInv DEF Init
<1>2. LogOrdered
  BY <1>1 DEF LogOrdered
<1>3. Order
  BY <1>1, <1>2, SettledOrder
<1>4. OutcomesDue
  BY <1>1, SettledFacts DEF OutcomesDue
<1>5. SaveIsDue
  BY DEF Init, SaveIsDue, UnsavedIsScheduled, WindowIsArmed, UnsentIsScheduled
<1>6. RowsFollow
  <2>1. Len(Waiting) = 0 /\ Len(frames) = 0 /\ Newest = NoDoc
    BY <1>1, SettledFacts DEF Init, Newest
  <2> QED
    BY <2>1 DEF RowsFollow, Follows, Explains
<1>7. FileBehindDoc
  BY DEF Init, FileBehindDoc
<1> QED
  BY <1>3, <1>4, <1>5, <1>6, <1>7 DEF Books

LEMMA BooksStep == IInv /\ IInv' /\ Books /\ [Next]_vars => Books'
<1> SUFFICES ASSUME IInv, IInv', Books, [Next]_vars
             PROVE  Books'
  OBVIOUS
<1>1. Order /\ OutcomesDue /\ SaveIsDue /\ RowsFollow /\ FileBehindDoc
  BY DEF Books
<1>2. Order'
  BY <1>1, OrderStep
<1>3. OutcomesDue'
  BY <1>1, <1>2, OutcomesStep
<1>4. SaveIsDue'
  BY <1>1, DueStep
<1>5. RowsFollow'
  BY <1>1, RowsStep
<1>6. FileBehindDoc'
  BY <1>1, BehindStep
<1> QED
  BY <1>2, <1>3, <1>4, <1>5, <1>6 DEF Books

\* The second invariant, on top of the first.
THEOREM BooksInvariance == Spec => [](IInv /\ Books)
<1>1. Init => IInv /\ Books
  BY InitInv, InitBooks
<1>2. (IInv /\ Books) /\ [Next]_vars => (IInv /\ Books)'
  BY Inductive, BooksStep
<1> QED
  BY <1>1, <1>2, PTL DEF Spec

\* scheduleSave's shared window, whatever merges into it and whichever save
\* fails: a field the file lacks, and a write the peers lack, is due or on
\* record.
THEOREM SavesAreDue == Spec => []SaveIsDue
<1>1. Books => SaveIsDue
  BY DEF Books
<1> QED
  BY <1>1, BooksInvariance, PTL

\* documentOutcome.js: a call that has returned leaves no op it committed
\* without an outcome, unless a crash ended the call.
THEOREM OutcomesGiven == Spec => []NoneReadsDeferred
<1>1. IInv /\ Books => NoneReadsDeferred
  <2> SUFFICES ASSUME IInv, Books, Idle, NEW i \in CommittedIds, outcome[i] \in {"none", "deferred"}
               PROVE  i \in lost
    BY DEF NoneReadsDeferred
  <2>1. Base = CommittedLen
    BY IdleFacts, SettledFacts
  <2>2. PICK j \in 1..Base : i = oplog[j].id
    BY <2>1 DEF CommittedIds
  <2> QED
    BY <2>2 DEF Books, OutcomesDue
<1> QED
  BY <1>1, BooksInvariance, PTL

\* liveDoc.js's bound on the divergence: whatever fails, merges or dies,
\* SQLite and the document differ only where the loss is on record.
THEOREM StoresDivergeOnRecord == Spec => []StoresAgree
<1>1. IInv /\ Books => StoresAgree
  <2> SUFFICES ASSUME IInv, Books, Idle, doc # NoDoc, ~stale, NEW k \in Modeled
               PROVE  \/ sql[k] = doc[k]
                      \/ sql[k] \in Accounted
                      \/ sql[k] \in Remote /\ SaveEvent \in Accounted
    BY DEF StoresAgree
  <2>1. stale \/ Explains(Newest, Accounted, k, sql[k])
    BY IdleRows DEF Books
  <2> QED
    BY <2>1 DEF Explains, Newest
<1> QED
  BY <1>1, BooksInvariance, PTL

-----------------------------------------------------------------------------
(* What reached the file stays                                             *)

LEMMA MirrorKeepsFile ==
    ASSUME IInv, Order, FlushQueue \/ MirrorDirect, file # NoDoc, NEW k \in Modeled, file[k] \in OpIds
    PROVE  file' # NoDoc /\ file'[k] \in OpIds /\ file'[k] >= file[k]
<1> DEFINE s == Waiting
<1>0. /\ MirrorsLogged(s) /\ s \in Seq(Ops) /\ Len(s) \in Nat
      /\ \A i \in 1..Len(s) : s[i].id \in OpIds /\ file[k] < s[i].id
  BY MirroringFacts, WaitingFacts, OpFacts, LaterThanDocs
<1>1. PICK F \in SUBSET Modeling(s), p \in 0..Len(s) : MirrorAll(s, F, p)
  BY MirroringFacts
<1> DEFINE done == Modeling(s) \ F
<1> HIDE DEF s
<1>2. CASE file' = file
  BY <1>2, ValueFacts
<1>3. CASE file' # file
  <2>1. doc = NoDoc /\ done # {}
    BY <1>3, <1>1 DEF MirrorAll
  <2>2. /\ file' # NoDoc
        /\ file'[k] = LoadOrSeed[k] \/ \E m \in 1..Len(s) : file'[k] = s[m].id
    <3>1. /\ file' # NoDoc
          /\ \/ \E n \in 1..Len(s) :
                   /\ LastIs(s, F, k, n) /\ doc'[k] = s[n].id
                   /\ \/ file'[k] = LoadOrSeed[k]
                      \/ \E m \in 1..n : s[m].key = k /\ file'[k] = s[m].id
             \/ file'[k] = LoadOrSeed[k]
      <4>1. /\ doc' # NoDoc /\ file' # NoDoc
            /\ \/ \E n \in 1..Len(s) :
                     /\ LastIs(s, F, k, n) /\ doc'[k] = s[n].id
                     /\ \/ file'[k] = LoadOrSeed[k]
                        \/ \E m \in 1..n : s[m].key = k /\ file'[k] = s[m].id
               \/ /\ NoneOn(s, F, k)
                  /\ doc'[k] = LoadOrSeed[k] /\ file'[k] = LoadOrSeed[k]
        BY <2>1, <1>0, <1>1, MirrorSeeds
      <4> QED
        BY <4>1
    <3>2. \A n \in 1..Len(s) : \A m \in 1..n : m \in 1..Len(s)
      BY <1>0
    <3> QED
      BY <3>1, <3>2
  <2>3. LoadOrSeed[k] = file[k]
    BY DEF LoadOrSeed
  <2>4. \A m \in 1..Len(s) : s[m].id \in OpIds /\ s[m].id >= file[k]
    BY <1>0, ValueFacts
  <2> QED
    BY <2>2, <2>3, <2>4, ValueFacts
<1> QED
  BY <1>2, <1>3

\* A crash loses what waited, never what was saved: a write of the file leaves
\* it only for a later write or another device's, or with its failure on record.
THEOREM FileKeeps == Spec => FileKeepsCommitted
<1> DEFINE Kept(k) ==
      /\ file' # NoDoc
      /\ \/ file'[k] \in Remote
         \/ file'[k] \in OpIds /\ file'[k] >= file[k]
         \/ file[k] \in failed \cup unrecorded
<1>1. ASSUME IInv, Books, [Next]_vars, NEW k \in Modeled, file # NoDoc, file[k] \in OpIds
      PROVE  Kept(k)
  <2>0. Order /\ FileBehindDoc
    BY <1>1 DEF Books
  <2>1. CASE file' = file
    BY <2>1, <1>1, ValueFacts
  <2>2. CASE FlushQueue \/ MirrorDirect
    BY <2>2, <2>0, <1>1, MirrorKeepsFile
  <2>3. CASE SaveWindow
    <3>1. file' = file \/ (doc # NoDoc /\ file' = doc)
      BY <2>3, <1>1, SaveWindowFacts DEF IInv
    <3>2. CASE doc # NoDoc /\ file' = doc
      BY <3>2, <2>0, <1>1 DEF FileBehindDoc, NewerOrNoted
    <3> QED
      BY <3>1, <3>2, <2>1
  <2>4. CASE EnsureSeeded
    BY <2>4, <2>1, <1>1 DEF EnsureSeeded, LoadOrSeed
  <2>5. CASE TimerFires \/ FlushAndSuspend
    BY <2>5, <2>3 DEF TimerFires, FlushAndSuspend
  <2>6. CASE BeginAtomic \/ Throw \/ CommitInner \/ CommitOutermost \/ Restart
    BY <2>6, <2>1 DEF BeginAtomic, Throw, CommitInner, CommitOutermost, Restart
  <2>7. CASE \E h \in Keys : AppendInBody(h) \/ AppendTopLevel(h)
    BY <2>7, <2>1 DEF AppendInBody, AppendTopLevel
  <2>8. CASE \E r \in Remote, S \in SUBSET Modeled : S # {} /\ RemoteMerge(r, S)
    BY <2>8, <2>1 DEF RemoteMerge
  <2>9. CASE UNCHANGED vars
    BY <2>9, <2>1 DEF vars
  <2> HIDE DEF Kept
  <2> QED
    BY <1>1, <2>2, <2>4, <2>5, <2>6, <2>7, <2>8, <2>9 DEF Next
<1>2. /\ IInv /\ Books /\ [Next]_vars
      => [\A k \in Modeled : file # NoDoc /\ file[k] \in OpIds =>
             /\ file' # NoDoc
             /\ \/ file'[k] \in Remote
                \/ file'[k] \in OpIds /\ file'[k] >= file[k]
                \/ file[k] \in failed \cup unrecorded]_vars
  BY <1>1
<1> QED
  BY <1>2, BooksInvariance, PTL DEF Spec, FileKeepsCommitted

-----------------------------------------------------------------------------
(* One rollback boundary                                                   *)

\* The writes before the ones that wait, and those.
Early == {oplog[j].id : j \in 1..Base}
Late == {oplog[j].id : j \in {i \in 1..Len(oplog) : i > Base}}

\* The stage of a write, by its place in the log.
Stage(early, late, body, next, out, i) ==
    IF i >= next THEN "unborn"
    ELSE IF i \in late THEN IF body THEN "open" ELSE "committed"
    ELSE IF i \notin early THEN "discarded"
    ELSE IF out[i] \in {"applied", "not-modeled"} THEN "mirrored"
    ELSE "excused"

Life == [i \in OpIds |-> OpStatus(i)]

LEMMA PlaceFacts ==
    ASSUME IInv, Order
    PROVE  /\ Early \cap Late = {} /\ Ids(oplog) = Early \cup Late
           /\ Early \cup Late \in SUBSET OpIds
           /\ \A i \in Early \cup Late : i < nextOp
           /\ frames = <<>> => Late = Ids(Waiting)
           /\ InBody => CommittedIds = Early
           /\ ~InBody => CommittedIds = Early \cup Late
<1>0. /\ oplog \in Seq(Ops) /\ DOMAIN oplog = 1..Len(oplog)
      /\ Len(oplog) \in Nat /\ Base \in 0..Len(oplog) /\ Len(Waiting) \in Nat
      /\ Base = Len(oplog) - Len(Waiting)
      /\ \A i \in 1..Len(oplog) : oplog[i].id \in OpIds /\ oplog[i].id \in Int /\ oplog[i].id < nextOp
      /\ \A i, j \in 1..Len(oplog) : i < j => oplog[i].id < oplog[j].id
      /\ \A i \in 1..Len(Waiting) : Waiting[i] = oplog[Base + i]
  BY WaitingFacts, OpFacts, LenProperties DEF Order, LogOrdered, WaitingIsSuffix, Base, IInv, TypeOK
<1>1. \A i \in 1..Base : i \in 1..Len(oplog)
  BY <1>0
<1>2. Early \cap Late = {}
  <2>1. \A i, j \in 1..Len(oplog) : i <= Base /\ j > Base => oplog[i].id # oplog[j].id
    BY <1>0
  <2> QED
    BY <1>1, <2>1, <1>0 DEF Early, Late
<1>3. Ids(oplog) = Early \cup Late
  <2>1. \A i \in 1..Len(oplog) : i \in 1..Base \/ i > Base
    BY <1>0
  <2> QED
    BY <2>1, <1>1, <1>0 DEF Ids, Early, Late
<1>4. Early \cup Late \in SUBSET OpIds /\ \A i \in Early \cup Late : i < nextOp
  BY <1>0, <1>3 DEF Ids
<1>5. Late = Ids(Waiting)
  <2>1. DOMAIN Waiting = 1..Len(Waiting)
    BY WaitingFacts, LenProperties
  <2>2. \A i \in 1..Len(Waiting) : Base + i \in 1..Len(oplog) /\ Base + i > Base
    BY <1>0
  <2>3. Ids(Waiting) \subseteq Late
    BY <2>1, <2>2, <1>0 DEF Ids, Late
  <2>4. Late \subseteq Ids(Waiting)
    BY WaitingIds DEF Late
  <2> QED
    BY <2>3, <2>4
<1>6. InBody => CommittedIds = Early
  BY BodyFacts DEF InBody, CommittedIds, Early
<1>7. ~InBody => CommittedIds = Ids(oplog)
  BY <1>0 DEF InBody, CommittedIds, CommittedLen, Ids
<1> QED
  BY <1>2, <1>3, <1>4, <1>5, <1>6, <1>7

LEMMA LifeStage ==
    IInv /\ Order => Life = [i \in OpIds |-> Stage(Early, Late, InBody, nextOp, outcome, i)]
<1> SUFFICES ASSUME IInv, Order, NEW i \in OpIds
             PROVE  OpStatus(i) = Stage(Early, Late, InBody, nextOp, outcome, i)
  BY DEF Life
<1>0. /\ Early \cap Late = {} /\ Ids(oplog) = Early \cup Late
      /\ frames = <<>> => Late = Ids(Waiting)
      /\ InBody => CommittedIds = Early
      /\ ~InBody => CommittedIds = Early \cup Late
  BY PlaceFacts
<1>1. CASE InBody
  <2>1. direct = NoOp /\ ~FlushDue
    BY <1>1, BodyFacts DEF InBody, FlushDue
  <2> QED
    BY <1>0, <1>1, <2>1 DEF OpStatus, Stage
<1>2. CASE ~InBody
  <2>0. frames = <<>>
    BY <1>2 DEF InBody
  <2>1. (FlushDue /\ i \in Ids(queue)) \/ (direct # NoOp /\ i = direct.id) <=> i \in Late
    <3>1. CASE direct = NoOp
      <4>1. Waiting = queue /\ (marks = <<>> => queue = <<>>)
        BY <3>1 DEF Waiting, IInv, QueueIsSuffix
      <4>2. i \in Ids(queue) => FlushDue
        BY <4>1, <2>0 DEF Ids, FlushDue
      <4> QED
        BY <3>1, <4>1, <4>2, <2>0, <1>0
    <3>2. CASE direct # NoOp
      <4>1. ~FlushDue /\ Waiting = <<direct>>
        BY <3>2 DEF FlushDue, Waiting, Order, WaitingIsSuffix
      <4>2. DOMAIN <<direct>> = {1} /\ <<direct>>[1] = direct
        OBVIOUS
      <4>3. Ids(<<direct>>) = {direct.id}
        BY <4>2 DEF Ids
      <4> QED
        BY <3>2, <4>1, <4>3, <2>0, <1>0
    <3> QED
      BY <3>1, <3>2
  <2> QED
    BY <1>0, <1>2, <2>1 DEF OpStatus, Stage
<1> QED
  BY <1>1, <1>2

\* How the places change: what a step appends, cuts, settles or leaves.
LEMMA PlacesSame ==
    ASSUME Base' = Base, oplog' = oplog
    PROVE  Early' = Early /\ Late' = Late
  BY DEF Early, Late

LEMMA PlacesAppend ==
    ASSUME IInv, Order, NEW k \in Keys, AppendInBody(k) \/ AppendTopLevel(k)
    PROVE  Early' = Early /\ Late' = Late \cup {nextOp}
<1>1. /\ Base' = Base /\ Len(oplog') = Len(oplog) + 1
      /\ \A i \in 1..Len(oplog) : oplog'[i] = oplog[i]
      /\ oplog'[Len(oplog) + 1].id = nextOp
  <2>1. oplog'[Len(oplog) + 1] = [id |-> nextOp, key |-> k]
    BY AppendFacts
  <2> QED
    BY <2>1, AppendFacts
<1>2. Base \in 0..Len(oplog) /\ Len(oplog) \in Nat
  BY WaitingFacts DEF Order, WaitingIsSuffix, Base
<1>3. Early' = Early
  <2>1. \A i \in 1..Base : i \in 1..Len(oplog) /\ oplog'[i] = oplog[i]
    BY <1>1, <1>2
  <2> QED
    BY <2>1, <1>1 DEF Early
<1>4. ASSUME NEW v, v \in Late'
      PROVE  v \in Late \cup {nextOp}
  <2>1. PICK i \in 1..Len(oplog') : i > Base /\ v = oplog'[i].id
    BY <1>1, <1>4 DEF Late
  <2>2. i \in 1..Len(oplog) \/ i = Len(oplog) + 1
    BY <1>1, <1>2
  <2> QED
    BY <2>1, <2>2, <1>1 DEF Late
<1>5. ASSUME NEW v, v \in Late \cup {nextOp}
      PROVE  v \in Late'
  <2>1. CASE v = nextOp
    <3>1. Len(oplog) + 1 \in 1..Len(oplog') /\ Len(oplog) + 1 > Base'
      BY <1>1, <1>2
    <3> QED
      BY <2>1, <3>1, <1>1 DEF Late
  <2>2. CASE v \in Late
    <3>1. PICK i \in 1..Len(oplog) : i > Base /\ v = oplog[i].id
      BY <2>2 DEF Late
    <3>2. i \in 1..Len(oplog') /\ i > Base' /\ v = oplog'[i].id
      BY <3>1, <1>1, <1>2
    <3> QED
      BY <3>2 DEF Late
  <2> QED
    BY <2>1, <2>2, <1>5
<1> QED
  BY <1>3, <1>4, <1>5

LEMMA WaitingLen == IInv => Len(Waiting) \in Nat
  BY WaitingFacts

LEMMA PlacesThrow ==
    ASSUME IInv, IInv', Order, Order', Throw
    PROVE  Early' = Early /\ Late' \subseteq Late /\ (~InBody' => Late' = {})
<1>1. /\ Base' = Base /\ Len(oplog') \in 0..Len(oplog)
      /\ \A i \in 1..Len(oplog') : oplog'[i] = oplog[i]
  BY ThrowFacts
<1>2. /\ Base' \in Nat /\ Base' = Len(oplog') - Len(Waiting')
      /\ Len(Waiting') \in Nat /\ Len(oplog) \in Nat
  <2>1. (IInv => Len(Waiting) \in Nat)'
    BY WaitingLen, PTL
  <2> QED
    BY <2>1, WaitingFacts DEF Order, WaitingIsSuffix, Base
<1>3. Early' = Early
  <2>1. \A i \in 1..Base : oplog'[i] = oplog[i]
    BY <1>1, <1>2
  <2> QED
    BY <2>1, <1>1 DEF Early
<1>4. Late' \subseteq Late
  <2> SUFFICES ASSUME NEW i \in 1..Len(oplog'), i > Base'
               PROVE  oplog'[i].id \in Late
    BY DEF Late
  <2>1. i \in 1..Len(oplog) /\ i > Base /\ oplog'[i] = oplog[i]
    BY <1>1, <1>2
  <2> QED
    BY <2>1 DEF Late
<1>5. ASSUME ~InBody'
      PROVE  Late' = {}
  <2>1. Len(frames) = 1
    <3>1. Len(frames') = Len(frames) - 1 /\ Len(frames) \in 1..Len(frames)
      BY ThrowFacts
    <3>2. frames' \in Seq([sql : [Keys -> Values], len : Nat])
      BY DEF IInv, TypeOK
    <3>3. frames' = <<>>
      BY <1>5 DEF InBody
    <3>4. Len(frames') = 0
      BY <3>2, <3>3, EmptyLen
    <3>5. Len(frames) \in Nat
      BY SequenceTypes DEF IInv
    <3> QED
      BY <3>1, <3>4, <3>5
  <2>2. Len(Waiting') = marks[1] /\ marks[1] = frames[1].len - Base /\ frames[1].len = Base /\ Base \in Nat
    BY <2>1, ThrowFacts, BodyFacts DEF Throw, InBody
  <2>3. Base' = Len(oplog')
    BY <2>2, <1>1, <1>2
  <2>4. \A i \in 1..Len(oplog') : ~(i > Base')
    BY <2>3, <1>2
  <2> QED
    BY <2>4 DEF Late
<1> QED
  BY <1>3, <1>4, <1>5

\* The waiting ones join the settled ones, or are cut off with their frame.
LEMMA PlacesSettle ==
    ASSUME IInv, Order, queue' = <<>>, direct' = NoOp, NEW n \in {Base, Len(oplog)},
           oplog' = SubSeq(oplog, 1, n)
    PROVE  /\ Late' = {}
           /\ n = Base => Early' = Early
           /\ n = Len(oplog) => Early' = Early \cup Late
<1>0. /\ oplog \in Seq(Ops) /\ Len(oplog) \in Nat /\ Base \in 0..Len(oplog)
  BY WaitingFacts DEF Order, WaitingIsSuffix, Base, IInv, TypeOK
<1>1. n \in 0..Len(oplog)
  BY <1>0
<1>2. Len(oplog') = n /\ \A i \in 1..n : oplog'[i] = oplog[i]
  BY <1>0, <1>1, Prefix
<1>3. Base' = n
  BY <1>0, <1>2 DEF Waiting, Base
<1>4. Late' = {}
  <2>1. \A i \in 1..n : ~(i > n)
    BY <1>1
  <2> QED
    BY <2>1, <1>2, <1>3 DEF Late
<1>5. Early' = {oplog[i].id : i \in 1..n}
  BY <1>2, <1>3 DEF Early
<1>6. {oplog[i].id : i \in 1..Len(oplog)} = Early \cup Late
  <2>1. \A i \in 1..Len(oplog) : i \in 1..Base \/ i > Base
    BY <1>0
  <2>2. \A i \in 1..Base : i \in 1..Len(oplog)
    BY <1>0
  <2> QED
    BY <2>1, <2>2 DEF Early, Late
<1> QED
  BY <1>4, <1>5, <1>6 DEF Early

\* The stages of DocumentBoundary, in those terms.
LEMMA StageFacts ==
    ASSUME IInv, Order, NEW i \in OpIds
    PROVE  /\ Life[i] = "unborn" <=> i >= nextOp
           /\ Life[i] = "open" <=> i \in Late /\ InBody
           /\ Life[i] = "committed" <=> i \in Late /\ ~InBody
<1>1. Life[i] = Stage(Early, Late, InBody, nextOp, outcome, i)
  BY LifeStage
<1>2. i \in Early \cup Late => ~(i >= nextOp)
  <2>1. i \in Int /\ nextOp \in Int
    BY BoundsAssumption DEF OpIds, IInv, TypeOK
  <2> QED
    BY <2>1, PlaceFacts
<1> QED
  BY <1>1, <1>2 DEF Stage

LEMMA BoundaryInit == Init => Boundary!Init
<1> SUFFICES ASSUME Init, NEW i \in OpIds
             PROVE  OpStatus(i) = "unborn"
  BY DEF Boundary!Init
<1>1. i >= nextOp
  BY BoundsAssumption DEF Init, OpIds
<1> QED
  BY <1>1 DEF OpStatus

LEMMA LifeNext ==
    (IInv /\ Order => Life = [i \in OpIds |-> Stage(Early, Late, InBody, nextOp, outcome, i)])'
  BY LifeStage, PTL

LEMMA BoundaryStutter ==
    ASSUME IInv, IInv', Order, Order', Early' = Early, Late' = Late, Late = {} \/ InBody' = InBody,
           UNCHANGED <<nextOp, outcome>>
    PROVE  Life' = Life
<1>1. \A i \in OpIds : Stage(Early', Late', InBody', nextOp', outcome', i)
                       = Stage(Early, Late, InBody, nextOp, outcome, i)
  BY DEF Stage
<1> QED
  BY <1>1, LifeStage, LifeNext

\* Each step, on the lives of the writes.
LEMMA LifeAppend ==
    ASSUME IInv, IInv', Order, Order', NEW k \in Keys, AppendInBody(k) \/ AppendTopLevel(k)
    PROVE  /\ nextOp \in OpIds /\ Life[nextOp] = "unborn"
           /\ AppendTopLevel(k) => \A i \in OpIds : Life[i] # "open"
           /\ Life' = [i \in OpIds |-> IF i \in {nextOp}
                                       THEN IF AppendInBody(k) THEN "open" ELSE "committed"
                                       ELSE Life[i]]
<1>1. /\ Early' = Early /\ Late' = Late \cup {nextOp}
      /\ nextOp \in OpIds /\ nextOp \in Int /\ nextOp' = nextOp + 1 /\ frames' = frames
      /\ \A i \in OpIds \ {nextOp} : outcome'[i] = outcome[i]
  BY PlacesAppend, AppendFacts, ValueFacts
<1>2. InBody' = InBody
  BY <1>1 DEF InBody
<1>3. Life[nextOp] = "unborn"
  BY <1>1, StageFacts
<1>4. AppendInBody(k) <=> InBody
  BY DEF AppendInBody, AppendTopLevel, InBody, Idle
<1>5. AppendTopLevel(k) => ~InBody
  BY DEF AppendTopLevel, InBody, Idle
<1>6. nextOp \notin Early
  BY <1>1, PlaceFacts
<1>7. ASSUME NEW i \in OpIds, i # nextOp
      PROVE  Stage(Early', Late', InBody', nextOp', outcome', i)
             = Stage(Early, Late, InBody, nextOp, outcome, i)
  <2>1. i \in Int
    BY <1>7, ValueFacts
  <2>2. i >= nextOp' <=> i >= nextOp
    BY <2>1, <1>1, <1>7
  <2> QED
    BY <2>2, <1>1, <1>2, <1>7 DEF Stage
<1>8. Stage(Early', Late', InBody', nextOp', outcome', nextOp)
      = IF AppendInBody(k) THEN "open" ELSE "committed"
  <2>1. ~(nextOp >= nextOp')
    BY <1>1
  <2> QED
    BY <2>1, <1>1, <1>2, <1>4 DEF Stage
<1>9. Life' = [i \in OpIds |-> IF i \in {nextOp}
                               THEN IF AppendInBody(k) THEN "open" ELSE "committed"
                               ELSE Life[i]]
  BY <1>7, <1>8, LifeStage, LifeNext
<1> QED
  BY <1>1, <1>3, <1>5, <1>9, StageFacts

LEMMA LifeThrow ==
    ASSUME IInv, IInv', Order, Order', Throw
    PROVE  /\ InBody
           /\ Life' = [i \in OpIds |-> IF i \in Late \ Late' THEN "discarded" ELSE Life[i]]
<1>1. /\ Early' = Early /\ Late' \subseteq Late /\ (~InBody' => Late' = {})
      /\ UNCHANGED <<nextOp, outcome>> /\ InBody
  BY PlacesThrow DEF Throw
<1>2. \A i \in Late : ~(i >= nextOp) /\ i \notin Early
  <2>1. \A i \in Late : i \in OpIds /\ i < nextOp /\ i \notin Early
    BY PlaceFacts
  <2>2. \A i \in Late : i \in Int /\ nextOp \in Int
    BY <2>1, ValueFacts DEF IInv, TypeOK
  <2> QED
    BY <2>1, <2>2
<1>3. ASSUME NEW i \in OpIds
      PROVE  Stage(Early', Late', InBody', nextOp', outcome', i)
             = IF i \in Late \ Late' THEN "discarded"
               ELSE Stage(Early, Late, InBody, nextOp, outcome, i)
  BY <1>1, <1>2 DEF Stage
<1>4. Life' = [i \in OpIds |-> Stage(Early', Late', InBody', nextOp', outcome', i)]
  BY LifeNext
<1>5. \A i \in OpIds : Life[i] = Stage(Early, Late, InBody, nextOp, outcome, i)
  BY LifeStage
<1> QED
  BY <1>1, <1>3, <1>4, <1>5

LEMMA LifeCommit ==
    ASSUME IInv, IInv', Order, Order', CommitOutermost
    PROVE  /\ InBody
           /\ Life' = [i \in OpIds |-> IF i \in Late THEN "committed" ELSE Life[i]]
<1>1. /\ Early' = Early /\ Late' = Late /\ UNCHANGED <<nextOp, outcome>>
      /\ InBody /\ ~InBody'
  <2>1. frames # <<>> /\ frames' = <<>>
    BY SequenceTypes DEF CommitOutermost, IInv
  <2> QED
    BY <2>1, SameWaiting, PlacesSame DEF InBody
<1>2. \A i \in Late : ~(i >= nextOp)
  <2>1. \A i \in Late : i \in OpIds /\ i < nextOp
    BY PlaceFacts
  <2>2. \A i \in Late : i \in Int /\ nextOp \in Int
    BY <2>1, ValueFacts DEF IInv, TypeOK
  <2> QED
    BY <2>1, <2>2
<1>3. ASSUME NEW i \in OpIds
      PROVE  Stage(Early', Late', InBody', nextOp', outcome', i)
             = IF i \in Late THEN "committed"
               ELSE Stage(Early, Late, InBody, nextOp, outcome, i)
  BY <1>1, <1>2 DEF Stage
<1>4. Life' = [i \in OpIds |-> Stage(Early', Late', InBody', nextOp', outcome', i)]
  BY LifeNext
<1>5. \A i \in OpIds : Life[i] = Stage(Early, Late, InBody, nextOp, outcome, i)
  BY LifeStage
<1> QED
  BY <1>1, <1>3, <1>4, <1>5

LEMMA LifeSettle ==
    ASSUME IInv, IInv', Order, Order', ~InBody,
           FlushQueue \/ MirrorDirect \/ Restart
    PROVE  LET S == {i \in Late : outcome'[i] \in {"applied", "not-modeled"}}
           IN  Life' = [i \in OpIds |-> IF i \in S THEN "mirrored"
                                        ELSE IF i \in Late THEN "excused"
                                        ELSE Life[i]]
<1> DEFINE S == {i \in Late : outcome'[i] \in {"applied", "not-modeled"}}
<1>0. oplog \in Seq(Ops) /\ frames = <<>>
  BY DEF IInv, TypeOK, InBody
<1>1. /\ Late' = {} /\ Early' = Early \cup Late /\ nextOp' = nextOp
      /\ \A i \in OpIds \ Late : outcome'[i] = outcome[i]
  <2>1. CASE FlushQueue \/ MirrorDirect
    <3>1. /\ queue' = <<>> /\ direct' = NoOp /\ oplog' = oplog /\ nextOp' = nextOp
          /\ \A i \in OpIds : i \notin Ids(Waiting) => outcome'[i] = outcome[i]
      BY <2>1, MirroringFacts
    <3>2. oplog' = SubSeq(oplog, 1, Len(oplog))
      BY <3>1, <1>0, SubSeqFull
    <3>3. Late = Ids(Waiting)
      BY <1>0, PlaceFacts
    <3> QED
      BY <3>1, <3>2, <3>3, PlacesSettle
  <2>2. CASE Restart
    <3>1. /\ queue' = <<>> /\ direct' = NoOp /\ UNCHANGED <<nextOp, outcome>>
          /\ oplog' = SubSeq(oplog, 1, Len(oplog))
      BY <2>2, <1>0 DEF Restart, CommittedLen
    <3> QED
      BY <3>1, PlacesSettle
  <2> QED
    BY <2>1, <2>2
<1>2. \A i \in Late : ~(i >= nextOp)
  <2>1. \A i \in Late : i \in OpIds /\ i < nextOp
    BY PlaceFacts
  <2>2. \A i \in Late : i \in Int /\ nextOp \in Int
    BY <2>1, ValueFacts DEF IInv, TypeOK
  <2> QED
    BY <2>1, <2>2
<1>3. ASSUME NEW i \in OpIds
      PROVE  Stage(Early', Late', InBody', nextOp', outcome', i)
             = IF i \in S THEN "mirrored" ELSE IF i \in Late THEN "excused"
               ELSE Stage(Early, Late, InBody, nextOp, outcome, i)
  BY <1>1, <1>2 DEF Stage
<1> QED
  BY <1>3, LifeStage, LifeNext

LEMMA LifeLost ==
    ASSUME IInv, IInv', Order, Order', InBody, Restart
    PROVE  Life' = [i \in OpIds |-> IF i \in Late THEN "discarded" ELSE Life[i]]
<1>1. /\ Late' = {} /\ Early' = Early /\ UNCHANGED <<nextOp, outcome>>
  <2>1. /\ queue' = <<>> /\ direct' = NoOp /\ UNCHANGED <<nextOp, outcome>>
        /\ oplog' = SubSeq(oplog, 1, CommittedLen)
    BY DEF Restart
  <2>2. oplog' = SubSeq(oplog, 1, Base)
    BY <2>1, BodyFacts DEF InBody
  <2> QED
    BY <2>1, <2>2, PlacesSettle
<1>2. \A i \in Late : ~(i >= nextOp) /\ i \notin Early
  <2>1. \A i \in Late : i \in OpIds /\ i < nextOp /\ i \notin Early
    BY PlaceFacts
  <2>2. \A i \in Late : i \in Int /\ nextOp \in Int
    BY <2>1, ValueFacts DEF IInv, TypeOK
  <2> QED
    BY <2>1, <2>2
<1>3. ASSUME NEW i \in OpIds
      PROVE  Stage(Early', Late', InBody', nextOp', outcome', i)
             = IF i \in Late THEN "discarded"
               ELSE Stage(Early, Late, InBody, nextOp, outcome, i)
  BY <1>1, <1>2 DEF Stage
<1> QED
  BY <1>3, LifeStage, LifeNext

LEMMA LifeSame ==
    ASSUME IInv, IInv', Order, Order',
           \/ BeginAtomic \/ CommitInner \/ EnsureSeeded \/ TimerFires \/ FlushAndSuspend
           \/ \E r \in Remote, S \in SUBSET Modeled : S # {} /\ RemoteMerge(r, S)
           \/ UNCHANGED vars
    PROVE  Life' = Life
<1>1. CASE BeginAtomic \/ CommitInner
  <2>1. Early' = Early /\ Late' = Late /\ UNCHANGED <<nextOp, outcome>>
    BY <1>1, SameWaiting, PlacesSame
  <2>2. Late = {} \/ InBody' = InBody
    <3>1. CASE frames # <<>>
      <4>1. Len(frames) \in Nat /\ Len(frames) >= 1
        BY <3>1, BodyFacts
      <4>2. Len(frames') >= 1
        <5>1. CASE BeginAtomic
          <6>1. frames' = Append(frames, [sql |-> sql, len |-> Len(oplog)])
            BY <5>1 DEF BeginAtomic, OpenFrame
          <6>2. Len(frames') = Len(frames) + 1
            BY <6>1, SequenceTypes DEF IInv, TypeOK
          <6> QED
            BY <6>2, <4>1
        <5>2. CASE CommitInner
          <6>1. frames' = SubSeq(frames, 1, Len(frames) - 1) /\ Len(frames) > 1
            BY <5>2 DEF CommitInner
          <6>2. Len(frames') = Len(frames) - 1
            <7>1. frames \in Seq([sql : [Keys -> Values], len : Nat]) /\ Len(frames) - 1 \in 0..Len(frames)
              BY <4>1, <6>1 DEF IInv, TypeOK
            <7> QED
              BY <6>1, <7>1, Prefix
          <6> QED
            BY <6>1, <6>2, <4>1
        <5> QED
          BY <1>1, <5>1, <5>2
      <4>3. frames' \in Seq([sql : [Keys -> Values], len : Nat])
        BY DEF IInv, TypeOK
      <4>4. frames' = <<>> <=> Len(frames') = 0
        BY <4>3, EmptyLen
      <4> QED
        BY <3>1, <4>2, <4>4 DEF InBody
    <3>2. CASE frames = <<>>
      <4>1. Idle
        <5>1. ~CommitInner
          BY <3>2, SequenceTypes DEF CommitInner, IInv
        <5> QED
          BY <1>1, <3>2, <5>1 DEF BeginAtomic, InBody
      <4>2. Len(Waiting) = 0 /\ Base = Len(oplog) /\ Len(oplog) \in Nat
        BY <4>1, IdleFacts, SettledFacts
      <4>3. \A i \in 1..Len(oplog) : ~(i > Base)
        BY <4>2
      <4> QED
        BY <4>3 DEF Late
    <3> QED
      BY <3>1, <3>2
  <2> QED
    BY <2>1, <2>2, BoundaryStutter
<1>2. CASE \/ EnsureSeeded \/ TimerFires \/ FlushAndSuspend
           \/ \E r \in Remote, S \in SUBSET Modeled : S # {} /\ RemoteMerge(r, S)
           \/ UNCHANGED vars
  <2>1. UNCHANGED <<oplog, frames, queue, direct, nextOp, outcome>>
    <3>1. CASE EnsureSeeded \/ TimerFires \/ FlushAndSuspend
      BY <3>1 DEF EnsureSeeded, TimerFires, FlushAndSuspend, sqliteVars, deferVars
    <3>2. CASE \E r \in Remote, S \in SUBSET Modeled : S # {} /\ RemoteMerge(r, S)
      BY <3>2 DEF RemoteMerge, deferVars
    <3>3. CASE UNCHANGED vars
      BY <3>3 DEF vars, sqliteVars, deferVars
    <3> QED
      BY <1>2, <3>1, <3>2, <3>3
  <2>2. Base' = Base /\ InBody' = InBody
    BY <2>1 DEF Waiting, Base, InBody
  <2> QED
    BY <2>1, <2>2, PlacesSame, BoundaryStutter
<1> QED
  BY <1>1, <1>2

LEMMA BoundaryStep ==
    IInv /\ IInv' /\ Order /\ Order' /\ [Next]_vars => [Boundary!Next]_Life
<1> SUFFICES ASSUME IInv, IInv', Order, Order', [Next]_vars
             PROVE  Boundary!Next \/ Life' = Life
  OBVIOUS
<1>0. \A i \in OpIds : /\ Life[i] = "unborn" <=> i >= nextOp
                       /\ Life[i] = "open" <=> i \in Late /\ InBody
                       /\ Life[i] = "committed" <=> i \in Late /\ ~InBody
  BY StageFacts
<1>l. Late \subseteq OpIds
  BY PlaceFacts
<1>1. /\ Boundary!At("open") = IF InBody THEN Late ELSE {}
      /\ Boundary!At("committed") = IF InBody THEN {} ELSE Late
      /\ \A i \in OpIds : Life[i] = "unborn" => i \in Boundary!At("unborn")
  BY <1>0, <1>l DEF Boundary!At, Life
<1>2. ASSUME NEW k \in Keys, AppendInBody(k)
      PROVE  Boundary!Open
  <2>1. /\ nextOp \in Boundary!At("unborn")
        /\ Life' = [i \in OpIds |-> IF i \in {nextOp} THEN "open" ELSE Life[i]]
    BY <1>2, <1>1, LifeAppend
  <2> QED
    BY <2>1 DEF Boundary!Open, Boundary!Move, Life
<1>3. ASSUME NEW k \in Keys, AppendTopLevel(k)
      PROVE  Boundary!CommitAlone
  <2>1. ~AppendInBody(k) /\ ~InBody
    BY <1>3 DEF AppendTopLevel, AppendInBody, InBody, Idle
  <2>2. /\ nextOp \in Boundary!At("unborn")
        /\ Life' = [i \in OpIds |-> IF i \in {nextOp} THEN "committed" ELSE Life[i]]
    BY <1>3, <2>1, <1>1, LifeAppend
  <2> QED
    BY <2>1, <2>2, <1>1 DEF Boundary!CommitAlone, Boundary!Move, Life
<1>4. CASE Throw
  <2>1. /\ InBody /\ Late \ Late' \subseteq Boundary!At("open")
        /\ Life' = [i \in OpIds |-> IF i \in Late \ Late' THEN "discarded" ELSE Life[i]]
    BY <1>4, <1>1, LifeThrow
  <2>2. CASE Late \ Late' = {}
    BY <2>1, <2>2 DEF Life
  <2>3. CASE Late \ Late' # {}
    <3>1. Boundary!Discard
      BY <2>1, <2>3 DEF Boundary!Discard, Boundary!Move, Life
    <3> QED
      BY <3>1 DEF Boundary!Next
  <2> QED
    BY <2>2, <2>3
<1>5. CASE CommitOutermost
  <2>1. /\ Boundary!At("open") = Late
        /\ Life' = [i \in OpIds |-> IF i \in Late THEN "committed" ELSE Life[i]]
    BY <1>5, <1>1, LifeCommit
  <2>2. CASE Late = {}
    BY <2>1, <2>2 DEF Life
  <2>3. CASE Late # {}
    <3>1. Boundary!CommitAll
      BY <2>1, <2>3 DEF Boundary!CommitAll, Boundary!Move, Life
    <3> QED
      BY <3>1 DEF Boundary!Next
  <2> QED
    BY <2>2, <2>3
<1>6. CASE (FlushQueue \/ MirrorDirect \/ Restart) /\ ~InBody
  <2> DEFINE S == {i \in Late : outcome'[i] \in {"applied", "not-modeled"}}
  <2>1. Life' = [i \in OpIds |-> IF i \in S THEN "mirrored"
                                 ELSE IF i \in Late THEN "excused" ELSE Life[i]]
    BY <1>6, LifeSettle
  <2>2. CASE Late = {}
    BY <2>1, <2>2 DEF Life
  <2>3. CASE Late # {}
    <3>1. S \subseteq Boundary!At("committed") /\ Boundary!At("committed") # {}
      BY <1>1, <1>6, <2>3
    <3>2. \A i \in OpIds : i \in Late <=> Life[i] = "committed"
      BY <1>0, <1>6
    <3> HIDE DEF S
    <3>3. Life' = [i \in OpIds |-> IF i \in S THEN "mirrored"
                                   ELSE IF Life[i] = "committed" THEN "excused" ELSE Life[i]]
      BY <2>1, <3>2
    <3>4. Boundary!Settle
      BY <3>1, <3>3 DEF Boundary!Settle, Life
    <3> QED
      BY <3>4 DEF Boundary!Next
  <2> QED
    BY <2>2, <2>3
<1>7. CASE Restart /\ InBody
  <2>1. /\ Boundary!At("open") = Late
        /\ Life' = [i \in OpIds |-> IF i \in Late THEN "discarded" ELSE Life[i]]
    BY <1>7, <1>1, LifeLost
  <2>2. CASE Late = {}
    BY <2>1, <2>2 DEF Life
  <2>3. CASE Late # {}
    <3>1. Boundary!Discard
      BY <2>1, <2>3 DEF Boundary!Discard, Boundary!Move, Life
    <3> QED
      BY <3>1 DEF Boundary!Next
  <2> QED
    BY <2>2, <2>3
<1>8. FlushQueue \/ MirrorDirect => ~InBody
  BY MirroringFacts DEF InBody
<1>9. CASE \/ BeginAtomic \/ CommitInner \/ EnsureSeeded \/ TimerFires \/ FlushAndSuspend
           \/ \E r \in Remote, S \in SUBSET Modeled : S # {} /\ RemoteMerge(r, S)
           \/ UNCHANGED vars
  BY <1>9, LifeSame
<1>10. CASE \E k \in Keys : AppendInBody(k) \/ AppendTopLevel(k)
  BY <1>10, <1>2, <1>3 DEF Boundary!Next
<1> QED
  BY <1>4, <1>5, <1>6, <1>7, <1>8, <1>9, <1>10 DEF Next

\* SQLite and the document share one rollback boundary (runAtomic with
\* liveDoc's deferred queue): each write opens, commits and settles, or is
\* discarded, as DocumentBoundary says.
THEOREM SharesOneBoundary == Spec => ImplementsBoundary
<1>1. IInv /\ Books /\ (IInv /\ Books)' /\ [Next]_vars => [Boundary!Next]_Life
  BY BoundaryStep DEF Books
<1>2. Init => Boundary!Init
  BY BoundaryInit
<1> QED
  BY <1>1, <1>2, BooksInvariance, PTL DEF Spec, ImplementsBoundary, Boundary!Spec, Life
=============================================================================
