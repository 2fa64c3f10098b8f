-------------------------- MODULE Reconnect_proofs --------------------------
(***************************************************************************)
(* Reconnect for any number of peers, of overlapping sweeps and of errors: *)
(* a demand is waited for, a backoff is armed, a removed peer is forgotten.*)
(*                                                                         *)
(* A demand could outlive its ladder only where a wait ends without the    *)
(* demand being released: when it was cancelled.  The invariant says that  *)
(* whoever cancels a wait has released the demand already.                 *)
(***************************************************************************)
EXTENDS Reconnect, SequenceTheorems, TLAPS

SweepRecords == [all : SUBSET Peers, due : SUBSET Peers,
                 result : [Peers -> Results \cup {"none"}]]

\* Whoever ended a wait early has released the demand.
CancelledIsReleased == \A p \in demanded : waiter[p] # "cancelled"

IInv == TypeOK /\ CancelledIsReleased /\ DemandIsWaited /\ BackoffIsArmed

-----------------------------------------------------------------------------
\* Giving a ladder's result to the sweeps that wait for it: no sweep comes or goes.
LEMMA ResultsKeepSweeps ==
    ASSUME NEW p \in Peers, NEW result \in Results, TypeOK, Ends(p, result)
    PROVE  /\ sweeps' \in Seq(SweepRecords) /\ Len(sweeps') = Len(sweeps)
           /\ sweeps' = <<>> => sweeps = <<>>
<1> DEFINE given(k) == IF p \in sweeps[k].due /\ sweeps[k].result[p] = "none"
                       THEN [sweeps[k] EXCEPT !.result[p] = result] ELSE sweeps[k]
<1>1. sweeps \in Seq(SweepRecords)
  BY DEF TypeOK, SweepRecords
<1>2. sweeps' = [k \in 1 .. Len(sweeps) |-> given(k)]
  BY <1>1 DEF Ends
<1>3. \A k \in 1 .. Len(sweeps) : given(k) \in SweepRecords
  <2> SUFFICES ASSUME NEW k \in 1 .. Len(sweeps) PROVE given(k) \in SweepRecords
    OBVIOUS
  <2>1. sweeps[k] \in SweepRecords
    BY <1>1
  <2> QED
    BY <2>1 DEF SweepRecords, Results
<1> HIDE DEF given
<1>4. sweeps' \in Seq(SweepRecords) /\ Len(sweeps') = Len(sweeps)
  BY <1>1, <1>2, <1>3
<1> QED
  BY <1>1, <1>4

\* The end of a ladder keeps its types.
LEMMA EndsTypes ==
    ASSUME NEW p \in Peers, NEW result \in Results, TypeOK, Ends(p, result)
    PROVE  /\ ladder' \in [Peers -> {"idle", "lan", "rung1", "rung2"} \cup Waits]
           /\ erred' \in [Peers -> BOOLEAN]
           /\ waiter' \in [Peers -> {"waits", "connected", "timeout", "cancelled"}]
           /\ \A q \in Peers : /\ waiter'[q] # "waits" => ladder'[q] \in Waits
                               /\ erred'[q] => ladder'[q] = "rung2"
BY DEF TypeOK, Ends, Waits

LEMMA GoesToTypes ==
    ASSUME NEW p \in Peers, NEW stage \in {"rung1", "rung2"} \cup Waits, TypeOK, GoesTo(p, stage)
    PROVE  /\ ladder' \in [Peers -> {"idle", "lan", "rung1", "rung2"} \cup Waits]
           /\ waiter' \in [Peers -> {"waits", "connected", "timeout", "cancelled"}]
           /\ \A q \in Peers : waiter'[q] # "waits" => ladder'[q] \in Waits
BY DEF TypeOK, GoesTo, Waits

-----------------------------------------------------------------------------
LEMMA InitInv ==
    ASSUME Init PROVE IInv
<1>1. sweeps \in Seq(SweepRecords) /\ Len(sweeps) = 0
  BY DEF Init
<1>2. Len(sweeps) <= MaxSweeps /\ NoErrors \in [1 .. 2 -> 0 .. ErrorLimit]
  BY <1>1, ReconnectAssumption DEF NoErrors
<1>3. TypeOK
  BY <1>1, <1>2 DEF Init, TypeOK, SweepRecords, Waits
<1> QED
  BY <1>3 DEF Init, IInv, CancelledIsReleased, DemandIsWaited, BackoffIsArmed

\* The types of a step of one ladder.
Still == UNCHANGED <<trust, link, memory, timer, stopped>>

LEMMA GoesOnTyped ==
    ASSUME NEW p \in Peers, NEW stage \in {"rung1", "rung2"} \cup Waits, TypeOK, GoesTo(p, stage),
           Still, demanded' \subseteq Peers, errors' \in [Peers -> [1 .. 2 -> 0 .. ErrorLimit]],
           erred' \in [Peers -> BOOLEAN], \A q \in Peers : erred'[q] => ladder'[q] = "rung2"
    PROVE  TypeOK'
<1>1. sweeps' = sweeps
  BY DEF GoesTo
<1>2. UNCHANGED <<trust, link, backoff, due, seen, timer, stopped>>
  BY DEF Still, memory
<1> QED
  BY <1>1, <1>2, GoesToTypes DEF TypeOK

LEMMA EndTyped ==
    ASSUME NEW p \in Peers, NEW result \in Results, TypeOK, Ends(p, result),
           Still, demanded' \subseteq demanded, errors' \in [Peers -> [1 .. 2 -> 0 .. ErrorLimit]]
    PROVE  TypeOK'
<1>1. sweeps' \in Seq(SweepRecords) /\ Len(sweeps') = Len(sweeps)
  BY ResultsKeepSweeps
<1>2. UNCHANGED <<trust, link, backoff, due, seen, timer, stopped>>
  BY DEF Still, memory
<1>3. demanded' \subseteq Peers /\ Len(sweeps') <= MaxSweeps
  BY <1>1 DEF TypeOK
<1>4. /\ ladder' \in [Peers -> {"idle", "lan", "rung1", "rung2"} \cup Waits]
      /\ erred' \in [Peers -> BOOLEAN]
      /\ waiter' \in [Peers -> {"waits", "connected", "timeout", "cancelled"}]
      /\ \A q \in Peers : /\ waiter'[q] # "waits" => ladder'[q] \in Waits
                          /\ erred'[q] => ladder'[q] = "rung2"
  BY EndsTypes
<1> QED
  BY <1>1, <1>2, <1>3, <1>4 DEF TypeOK, SweepRecords

\* Where the ladder of p was not at its second rung, nothing of that is left.
LEMMA ErredKept ==
    ASSUME NEW p \in Peers, NEW stage, TypeOK, GoesTo(p, stage), ladder[p] # "rung2",
           erred' = erred
    PROVE  erred' \in [Peers -> BOOLEAN] /\ \A q \in Peers : erred'[q] => ladder'[q] = "rung2"
<1>1. /\ erred \in [Peers -> BOOLEAN] /\ \A q \in Peers : erred[q] => ladder[q] = "rung2"
      /\ ladder \in [Peers -> {"idle", "lan", "rung1", "rung2"} \cup Waits]
  BY DEF TypeOK
<1>2. \A q \in Peers \ {p} : ladder'[q] = ladder[q]
  BY <1>1 DEF GoesTo
<1> QED
  BY <1>1, <1>2

\* A ladder that goes on makes no demand of its own.
LEMMA OneGoesOn ==
    ASSUME NEW p \in Peers, NEW stage, IInv, TypeOK', GoesTo(p, stage), p \notin demanded,
           UNCHANGED <<link, demanded, backoff, timer, stopped>>
    PROVE  IInv'
<1>1. /\ ladder \in [Peers -> {"idle", "lan", "rung1", "rung2"} \cup Waits]
      /\ waiter \in [Peers -> {"waits", "connected", "timeout", "cancelled"}]
      /\ demanded \subseteq Peers
  BY DEF IInv, TypeOK
<1>2. \A q \in demanded : ladder'[q] = ladder[q] /\ waiter'[q] = waiter[q]
  BY <1>1 DEF GoesTo
<1>3. CancelledIsReleased' /\ DemandIsWaited'
  BY <1>2 DEF IInv, CancelledIsReleased, DemandIsWaited
<1>4. BackoffIsArmed'
  BY DEF IInv, BackoffIsArmed, GoesTo
<1> QED
  BY <1>3, <1>4 DEF IInv

\* A ladder that ends leaves no demand of its own.
LEMMA OneEnds ==
    ASSUME NEW p \in Peers, NEW result \in Results, IInv, TypeOK', Ends(p, result),
           demanded' \subseteq demanded \ {p}, UNCHANGED <<link, backoff, timer, stopped>>
    PROVE  IInv'
<1>1. /\ ladder \in [Peers -> {"idle", "lan", "rung1", "rung2"} \cup Waits]
      /\ waiter \in [Peers -> {"waits", "connected", "timeout", "cancelled"}]
      /\ demanded \subseteq Peers /\ TypeOK
  BY DEF IInv, TypeOK
<1>2. \A q \in demanded \ {p} : ladder'[q] = ladder[q] /\ waiter'[q] = waiter[q]
  BY <1>1 DEF Ends
<1>3. CancelledIsReleased' /\ DemandIsWaited'
  BY <1>2 DEF IInv, CancelledIsReleased, DemandIsWaited
<1>4. sweeps' = <<>> => sweeps = <<>>
  BY <1>1, ResultsKeepSweeps
<1>5. BackoffIsArmed'
  BY <1>4 DEF IInv, BackoffIsArmed
<1> QED
  BY <1>3, <1>5 DEF IInv

\* A ladder that reached its peer releases the demand.
LEMMA ReachedInv ==
    ASSUME NEW p \in Peers, IInv, Reached(p),
           errors' \in [Peers -> [1 .. 2 -> 0 .. ErrorLimit]],
           Still
    PROVE  IInv'
<1>1. Ends(p, "ok") /\ "ok" \in Results /\ demanded' = demanded \ {p}
  BY DEF Reached, Results
<1>2. TypeOK'
  BY <1>1, EndTyped DEF IInv
<1> QED
  BY <1>1, <1>2, OneEnds DEF Still, memory

LEMMA LanInv ==
    ASSUME NEW p \in Peers, IInv, LanEnds(p) PROVE IInv'
<1>1. CASE Reached(p)
  BY <1>1, ReachedInv DEF LanEnds, Still, IInv, TypeOK
<1>2. CASE GoesTo(p, "grace") /\ UNCHANGED <<erred, demanded>>
  <2>1. TypeOK'
    <3>1. /\ TypeOK /\ Still /\ "grace" \in Waits /\ ladder[p] # "rung2" /\ erred' = erred
          /\ demanded' \subseteq Peers /\ errors' \in [Peers -> [1 .. 2 -> 0 .. ErrorLimit]]
      BY <1>2 DEF LanEnds, Still, IInv, TypeOK, Waits
    <3> QED
      BY <1>2, <3>1, ErredKept, GoesOnTyped
  <2>2. p \notin demanded /\ UNCHANGED <<link, backoff, timer, stopped>>
    BY DEF LanEnds, IInv, DemandIsWaited, memory
  <2> QED
    BY <1>2, <2>1, <2>2, OneGoesOn
<1> QED
  BY <1>1, <1>2 DEF LanEnds

LEMMA TimeOutInv ==
    ASSUME NEW p \in Peers, IInv, TimesOut(p) PROVE IInv'
BY DEF TimesOut, IInv, TypeOK, CancelledIsReleased, DemandIsWaited, BackoffIsArmed, memory

LEMMA GraceInv ==
    ASSUME NEW p \in Peers, IInv, GraceEnds(p) PROVE IInv'
<1>1. p \notin demanded
  BY DEF GraceEnds, IInv, DemandIsWaited
<1>2. CASE Ends(p, "cancelled") /\ UNCHANGED demanded
  <2>1. TypeOK'
    <3>1. /\ TypeOK /\ Still /\ "cancelled" \in Results
          /\ errors' \in [Peers -> [1 .. 2 -> 0 .. ErrorLimit]]
      BY DEF GraceEnds, Still, IInv, TypeOK, Results
    <3> QED
      BY <1>2, <3>1, EndTyped
  <2>2. demanded' = demanded /\ "cancelled" \in Results /\ UNCHANGED <<link, backoff, timer, stopped>>
    BY <1>2 DEF GraceEnds, Results, memory
  <2> QED
    BY <1>1, <1>2, <2>1, <2>2, OneEnds
<1>3. CASE Reached(p)
  BY <1>3, ReachedInv DEF GraceEnds, Still, IInv, TypeOK
<1>4. CASE GoesTo(p, "rung1") /\ UNCHANGED <<erred, demanded>>
  <2>1. TypeOK'
    <3>1. /\ TypeOK /\ Still /\ ladder[p] # "rung2" /\ erred' = erred
          /\ demanded' \subseteq Peers /\ errors' \in [Peers -> [1 .. 2 -> 0 .. ErrorLimit]]
      BY <1>4 DEF GraceEnds, Still, IInv, TypeOK
    <3> QED
      BY <1>4, <3>1, ErredKept, GoesOnTyped
  <2>2. UNCHANGED <<link, backoff, timer, stopped>>
    BY DEF GraceEnds, memory
  <2> QED
    BY <1>1, <1>4, <2>1, <2>2, OneGoesOn
<1> QED
  BY <1>2, <1>3, <1>4 DEF GraceEnds

LEMMA RungReachesInv ==
    ASSUME NEW p \in Peers, IInv, RungReaches(p) PROVE IInv'
<1>1. errors' \in [Peers -> [1 .. 2 -> 0 .. ErrorLimit]]
  BY ReconnectAssumption DEF RungReaches, IInv, TypeOK, NoErrors
<1> QED
  BY <1>1, ReachedInv DEF RungReaches, Still

LEMMA CountedType ==
    ASSUME NEW p \in Peers, NEW n \in 1 .. 2, NEW error \in BOOLEAN, TypeOK
    PROVE  Counted(p, n, error) \in 0 .. ErrorLimit
<1>1. ErrorLimit \in Nat \ {0} /\ errors[p][n] \in 0 .. ErrorLimit
  BY ReconnectAssumption DEF TypeOK
<1> QED
  BY <1>1 DEF Counted, AtLimit

LEMMA Rung1Inv ==
    ASSUME NEW p \in Peers, IInv, Rung1Fails(p) PROVE IInv'
<1>1. PICK error \in BOOLEAN :
          /\ errors' = [errors EXCEPT ![p][1] = Counted(p, 1, error)]
          /\ erred' = [erred EXCEPT ![p] = Holds(p, 1, error)]
  BY DEF Rung1Fails, Outcomes
<1>2. errors' \in [Peers -> [1 .. 2 -> 0 .. ErrorLimit]]
  BY <1>1, CountedType DEF IInv, TypeOK
<1>3. erred' \in [Peers -> BOOLEAN] /\ \A q \in Peers \ {p} : erred'[q] = erred[q]
  BY <1>1 DEF IInv, TypeOK, Holds
<1>4. GoesTo(p, "rung2") /\ p \notin demanded
  BY DEF Rung1Fails, IInv, DemandIsWaited
<1>5. TypeOK'
  <2>1. TypeOK /\ Still /\ demanded' \subseteq Peers
    BY DEF Rung1Fails, Still, IInv, TypeOK
  <2>2. \A q \in Peers : erred'[q] => ladder'[q] = "rung2"
    BY <1>3, <1>4 DEF IInv, TypeOK, GoesTo
  <2> QED
    BY <1>2, <1>3, <1>4, <2>1, <2>2, GoesOnTyped
<1>6. UNCHANGED <<link, demanded, backoff, timer, stopped>>
  BY DEF Rung1Fails, memory
<1> QED
  BY <1>4, <1>5, <1>6, OneGoesOn

LEMMA Rung2Inv ==
    ASSUME NEW p \in Peers, IInv, Rung2Fails(p) PROVE IInv'
<1>1. PICK error \in BOOLEAN : errors' = [errors EXCEPT ![p][2] = Counted(p, 2, error)]
  BY DEF Rung2Fails, Outcomes
<1>2. errors' \in [Peers -> [1 .. 2 -> 0 .. ErrorLimit]]
  <2>1. Counted(p, 2, error) \in 0 .. ErrorLimit
    BY CountedType DEF IInv
  <2> QED
    BY <1>1, <2>1 DEF IInv, TypeOK
<1>3. p \notin demanded /\ p \notin Up /\ link[p] = "down"
  BY DEF Rung2Fails, IInv, TypeOK, DemandIsWaited, Up
<1>4. CASE /\ MayAsk(p) /\ GoesTo(p, "rung3")
           /\ erred' = [erred EXCEPT ![p] = FALSE] /\ demanded' = demanded \cup {p}
  <2>1. erred' \in [Peers -> BOOLEAN] /\ \A q \in Peers : erred'[q] => ladder'[q] = "rung2"
    BY <1>4 DEF IInv, TypeOK, GoesTo
  <2>2. demanded' \subseteq Peers /\ Still /\ "rung3" \in Waits /\ TypeOK
    BY <1>4 DEF Rung2Fails, Still, IInv, TypeOK, Waits
  <2>3. TypeOK'
    BY <1>2, <1>4, <2>1, <2>2, GoesOnTyped
  <2>4. /\ ladder \in [Peers -> {"idle", "lan", "rung1", "rung2"} \cup Waits]
        /\ waiter \in [Peers -> {"waits", "connected", "timeout", "cancelled"}]
        /\ demanded \subseteq Peers /\ ~stopped
    BY <1>4 DEF IInv, TypeOK, MayAsk
  <2>5. /\ ladder'[p] = "rung3" /\ waiter'[p] = "waits" /\ sweeps' = sweeps
        /\ \A q \in demanded \ {p} : ladder'[q] = ladder[q] /\ waiter'[q] = waiter[q]
        /\ UNCHANGED <<link, backoff, timer, stopped>>
    BY <1>4, <2>2, <2>4 DEF GoesTo, Still, memory
  <2>6. CancelledIsReleased' /\ DemandIsWaited'
    BY <1>3, <1>4, <2>4, <2>5 DEF IInv, CancelledIsReleased, DemandIsWaited
  <2>7. BackoffIsArmed'
    BY <2>5 DEF IInv, BackoffIsArmed
  <2> QED
    BY <2>3, <2>6, <2>7 DEF IInv
<1>5. CASE \E result \in {"fail", "cancelled"} : Ends(p, result) /\ UNCHANGED demanded
  <2>1. PICK result \in Results : Ends(p, result) /\ UNCHANGED demanded
    BY <1>5 DEF Results
  <2>2. TypeOK'
    BY <1>2, <2>1, EndTyped DEF Rung2Fails, Still, IInv
  <2>3. UNCHANGED <<link, backoff, timer, stopped>>
    BY DEF Rung2Fails, memory
  <2> QED
    BY <1>3, <2>1, <2>2, <2>3, OneEnds
<1> QED
  BY <1>4, <1>5 DEF Rung2Fails

LEMMA Rung3Inv ==
    ASSUME NEW p \in Peers, IInv, Rung3Ends(p) PROVE IInv'
<1>1. PICK result \in Results : Ends(p, result) /\ demanded' \in SUBSET (demanded \ {p})
  BY DEF Rung3Ends, AskedEnds, Results, IInv, TypeOK, CancelledIsReleased
<1>2. TypeOK'
  <2>1. TypeOK /\ Still /\ errors' \in [Peers -> [1 .. 2 -> 0 .. ErrorLimit]]
    BY DEF Rung3Ends, Still, IInv, TypeOK
  <2> QED
    BY <1>1, <2>1, EndTyped
<1>3. UNCHANGED <<link, backoff, timer, stopped>>
  BY DEF Rung3Ends, memory
<1> QED
  BY <1>1, <1>2, <1>3, OneEnds

-----------------------------------------------------------------------------
LEMMA SweepInv ==
    ASSUME NEW present \in SUBSET Peers, IInv, Sweep(present) PROVE IInv'
<1> DEFINE tried == {p \in present : p \notin backoff \ due}
           begins == {p \in tried : ladder[p] = "idle"}
           gone == Forgotten(present)
           new == [all |-> present, due |-> tried,
                   result |-> [p \in Peers |-> IF p \in begins \cap Up THEN "ok" ELSE "none"]]
<1>1. sweeps \in Seq(SweepRecords) /\ new \in SweepRecords /\ sweeps' = Append(sweeps, new)
  BY DEF Sweep, IInv, TypeOK, SweepRecords, Results
<1>2. sweeps' \in Seq(SweepRecords) /\ Len(sweeps') <= MaxSweeps /\ sweeps' # <<>>
  BY <1>1, ReconnectAssumption DEF Sweep
<1> HIDE DEF new
<1>3. NoErrors \in [1 .. 2 -> 0 .. ErrorLimit]
  BY ReconnectAssumption DEF NoErrors
<1>4. /\ backoff' \subseteq Peers /\ due' \subseteq backoff'
      /\ seen' \in [Peers -> {"never", "up", "down"}]
      /\ errors' \in [Peers -> [1 .. 2 -> 0 .. ErrorLimit]]
      /\ demanded' \subseteq demanded
  BY <1>3 DEF Sweep, IInv, TypeOK
<1>5. /\ ladder' = [p \in Peers |-> IF p \in begins \ Up THEN "lan" ELSE ladder[p]]
      /\ waiter' = Woken(gone, "cancelled")
      /\ demanded' = demanded \ (gone \cup (begins \cap Up))
      /\ erred' = erred /\ timer' = "none" /\ UNCHANGED <<trust, link, stopped>> /\ ~stopped
  BY DEF Sweep
<1>6. TypeOK'
  BY <1>2, <1>4, <1>5 DEF IInv, TypeOK, SweepRecords, Woken, Waits
<1>7. CancelledIsReleased' /\ DemandIsWaited'
  BY <1>5 DEF IInv, TypeOK, CancelledIsReleased, DemandIsWaited, Woken
<1> QED
  BY <1>2, <1>5, <1>6, <1>7 DEF IInv, BackoffIsArmed

\* What is left of the sweeps when one of them has ended.
LEMMA RemovedSweep ==
    ASSUME NEW k \in DOMAIN sweeps, TypeOK
    PROVE  RemoveAt(sweeps, k) \in Seq(SweepRecords) /\ Len(RemoveAt(sweeps, k)) <= MaxSweeps
<1>1. sweeps \in Seq(SweepRecords) /\ k \in 1 .. Len(sweeps)
  BY DEF TypeOK, SweepRecords
<1>2. /\ SubSeq(sweeps, 1, k - 1) \in Seq(SweepRecords)
      /\ Len(SubSeq(sweeps, 1, k - 1)) = k - 1
      /\ SubSeq(sweeps, k + 1, Len(sweeps)) \in Seq(SweepRecords)
      /\ Len(SubSeq(sweeps, k + 1, Len(sweeps))) = Len(sweeps) - k
  BY <1>1
<1>3. Len(sweeps) <= MaxSweeps /\ Len(sweeps) \in Nat /\ MaxSweeps \in Nat /\ k \in Nat
  BY <1>1, ReconnectAssumption DEF TypeOK
<1>4. RemoveAt(sweeps, k) = SubSeq(sweeps, 1, k - 1) \o SubSeq(sweeps, k + 1, Len(sweeps))
  BY DEF RemoveAt
<1>5. /\ RemoveAt(sweeps, k) \in Seq(SweepRecords)
      /\ Len(RemoveAt(sweeps, k)) = (k - 1) + (Len(sweeps) - k)
  BY <1>2, <1>4, ConcatProperties
<1> QED
  BY <1>3, <1>5

LEMMA SweepEndsInv ==
    ASSUME IInv, SweepEnds PROVE IInv'
<1>1. PICK k \in Ready :
          LET s == sweeps[k]
              failed == {p \in s.due : s.result[p] = "fail"}
              reached == {p \in s.due : s.result[p] = "ok"}
              up == s.all \cap Up
          IN  /\ sweeps' = RemoveAt(sweeps, k)
              /\ IF stopped THEN UNCHANGED <<memory, demanded, timer>>
                 ELSE /\ backoff' = ((backoff \ reached) \cup failed) \ up
                      /\ due' = due \ (reached \cup failed \cup up)
                      /\ seen' = [p \in Peers |-> IF p \in s.all THEN ConnectedNow(p) ELSE seen[p]]
                      /\ demanded' = demanded \ up
                      /\ timer' \in Rescheduled(s)
              /\ UNCHANGED <<trust, link, ladder, erred, waiter, errors, stopped>>
  BY DEF SweepEnds
<1>2. k \in DOMAIN sweeps /\ sweeps[k] \in SweepRecords
  <2>1. sweeps \in Seq(SweepRecords) /\ k \in 1 .. Len(sweeps)
    BY DEF Ready, IInv, TypeOK, SweepRecords
  <2> QED
    BY <2>1
<1>3. sweeps' \in Seq(SweepRecords) /\ Len(sweeps') <= MaxSweeps
  BY <1>1, <1>2, RemovedSweep DEF IInv
<1>4. /\ backoff' \subseteq Peers /\ due' \subseteq backoff'
      /\ seen' \in [Peers -> {"never", "up", "down"}]
      /\ demanded' \subseteq demanded
  <2>1. CASE stopped
    BY <1>1, <2>1 DEF IInv, TypeOK, memory
  <2>2. CASE ~stopped
    <3>1. sweeps[k].due \subseteq Peers
      BY <1>2 DEF SweepRecords
    <3>2. backoff' \subseteq Peers /\ due' \subseteq backoff' /\ demanded' \subseteq demanded
      BY <1>1, <2>2, <3>1 DEF IInv, TypeOK
    <3>3. \E all : seen' = [p \in Peers |-> IF p \in all THEN ConnectedNow(p) ELSE seen[p]]
      BY <1>1, <2>2
    <3>4. seen' \in [Peers -> {"never", "up", "down"}]
      BY <3>3 DEF IInv, TypeOK, ConnectedNow
    <3> QED
      BY <3>2, <3>4
  <2> QED
    BY <2>1, <2>2
<1>5. /\ timer' \in {"none", "soon"} \cup Peers
      /\ stopped => timer' = "none"
      /\ ~stopped /\ backoff' # {} => timer' # "none"
  <2>1. CASE stopped
    BY <1>1, <2>1 DEF IInv, TypeOK, BackoffIsArmed
  <2>2. CASE ~stopped
    BY <1>1, <1>4, <2>2, ReconnectAssumption DEF IInv, TypeOK, Rescheduled
  <2> QED
    BY <2>1, <2>2
<1>6. UNCHANGED <<trust, link, ladder, erred, waiter, errors, stopped>>
  BY <1>1
<1>7. TypeOK'
  BY <1>3, <1>4, <1>5, <1>6 DEF IInv, TypeOK, SweepRecords
<1> QED
  BY <1>4, <1>5, <1>6, <1>7
  DEF IInv, CancelledIsReleased, DemandIsWaited, BackoffIsArmed

LEMMA PeersChangedInv ==
    ASSUME IInv, PeersChanged, link' \in [Peers -> {"down", "dialed", "admitted"}],
           \A p \in Peers : link'[p] = "admitted" => link[p] = "admitted" \/ p \in Members
    PROVE  IInv'
<1> DEFINE here == {p \in Members : link'[p] # "down"}
           gone == IF stopped THEN {} ELSE Forgotten(Members)
<1>1. /\ demanded' = demanded \ (here \cup gone)
      /\ UNCHANGED <<trust, ladder, erred, sweeps, stopped>>
      /\ waiter' = [p \in Peers |-> IF p \in here THEN Woken(here, "connected")[p]
                                                  ELSE Woken(gone, "cancelled")[p]]
  BY DEF PeersChanged
<1>2. NoErrors \in [1 .. 2 -> 0 .. ErrorLimit]
  BY ReconnectAssumption DEF NoErrors
<1>3. /\ backoff' \subseteq Peers /\ due' \subseteq backoff'
      /\ seen' \in [Peers -> {"never", "up", "down"}]
      /\ errors' \in [Peers -> [1 .. 2 -> 0 .. ErrorLimit]]
      /\ timer' \in {"none", "soon"} \cup Peers
      /\ IF stopped THEN timer' = "none" ELSE timer' # "none"
  <2>1. CASE stopped
    BY <2>1 DEF PeersChanged, IInv, TypeOK, BackoffIsArmed, memory
  <2>2. CASE ~stopped
    <3>1. backoff' \subseteq Peers /\ due' \subseteq backoff'
      BY <2>2 DEF PeersChanged, IInv, TypeOK
    <3>2. seen' \in [Peers -> {"never", "up", "down"}]
      BY <2>2 DEF PeersChanged, IInv, TypeOK
    <3>3. errors' \in [Peers -> [1 .. 2 -> 0 .. ErrorLimit]]
      <4>1. \E S : errors' = [p \in Peers |-> IF p \in S THEN NoErrors ELSE errors[p]]
        BY <2>2 DEF PeersChanged
      <4>2. errors \in [Peers -> [1 .. 2 -> 0 .. ErrorLimit]]
        BY DEF IInv, TypeOK
      <4> QED
        BY <1>2, <4>1, <4>2
    <3>4. timer' \in {"none", "soon"} \cup Peers /\ timer' # "none"
      BY <2>2 DEF PeersChanged, IInv, TypeOK
    <3> QED
      BY <2>2, <3>1, <3>2, <3>3, <3>4
  <2> QED
    BY <2>1, <2>2
<1>4. /\ waiter' \in [Peers -> {"waits", "connected", "timeout", "cancelled"}]
      /\ \A p \in Peers : /\ waiter'[p] # "waits" => ladder[p] \in Waits
                          /\ p \in demanded' => waiter'[p] # "cancelled"
  BY <1>1 DEF IInv, TypeOK, Woken, CancelledIsReleased
<1>5. TypeOK'
  BY <1>1, <1>3, <1>4 DEF IInv, TypeOK
<1>6. DemandIsWaited'
  BY <1>1 DEF IInv, TypeOK, DemandIsWaited
<1> QED
  BY <1>1, <1>3, <1>4, <1>5, <1>6 DEF IInv, TypeOK, CancelledIsReleased, BackoffIsArmed

LEMMA LinksInv ==
    ASSUME NEW p \in Peers, IInv,
           Connects(p) \/ Admitted(p) \/ Drops(p) \/ Removes(p)
    PROVE  IInv'
<1>1. CASE Connects(p)
  BY <1>1 DEF Connects, IInv, TypeOK, CancelledIsReleased, DemandIsWaited, BackoffIsArmed,
              ladders, memory
<1>2. CASE Admitted(p)
  <2>1. /\ link' \in [Peers -> {"down", "dialed", "admitted"}]
        /\ \A q \in Peers : link'[q] = "admitted" => link[q] = "admitted" \/ q \in Members
    BY <1>2 DEF Admitted, IInv, TypeOK
  <2> QED
    BY <1>2, <2>1, PeersChangedInv DEF Admitted
<1>3. CASE Drops(p)
  <2>1. /\ link' \in [Peers -> {"down", "dialed", "admitted"}]
        /\ \A q \in Peers : link'[q] = "admitted" => link[q] = "admitted" \/ q \in Members
    BY <1>3 DEF Drops, IInv, TypeOK
  <2> QED
    BY <1>3, <2>1, PeersChangedInv DEF Drops
<1>4. CASE Removes(p)
  BY <1>4 DEF Removes, IInv, TypeOK, CancelledIsReleased, DemandIsWaited, BackoffIsArmed,
              ladders, memory
<1> QED
  BY <1>1, <1>2, <1>3, <1>4

LEMMA StopInv ==
    ASSUME IInv, Stop PROVE IInv'
BY DEF Stop, IInv, TypeOK, CancelledIsReleased, DemandIsWaited, BackoffIsArmed, memory, Woken

LEMMA BacksOffInv ==
    ASSUME NEW p \in Peers, IInv, BacksOff(p) PROVE IInv'
BY DEF BacksOff, IInv, TypeOK, CancelledIsReleased, DemandIsWaited, BackoffIsArmed, ladders

-----------------------------------------------------------------------------
LEMMA Inductive ==
    ASSUME IInv, [Next]_vars PROVE IInv'
<1>1. CASE UNCHANGED vars
  BY <1>1 DEF vars, ladders, memory, IInv, TypeOK, CancelledIsReleased, DemandIsWaited, BackoffIsArmed,
              Woken, Members, Up
<1>2. CASE Continues
  BY <1>2, SweepEndsInv, GraceInv, Rung3Inv DEF Continues, Woke
<1>3. ASSUME NEW p \in Peers, BacksOff(p) PROVE IInv'
  BY <1>3, BacksOffInv
<1>4. CASE Fires
  <2>1. PICK present \in Lists : Sweep(present)
    BY <1>4 DEF Fires
  <2>2. present \in SUBSET Peers
    BY DEF Lists, Members
  <2> QED
    BY <2>1, <2>2, SweepInv
<1>5. CASE Stop
  BY <1>5, StopInv
<1>6. ASSUME NEW p \in Peers, LadderStep(p) PROVE IInv'
  BY <1>6, LanInv, TimeOutInv, Rung1Inv, Rung2Inv, RungReachesInv DEF LadderStep
<1>7. ASSUME NEW p \in Peers, Connects(p) \/ Admitted(p) \/ Drops(p) \/ Removes(p) PROVE IInv'
  BY <1>7, LinksInv
<1> QED
  BY <1>1, <1>2, <1>3, <1>4, <1>5, <1>6, <1>7 DEF Next

\* Every variable keeps its type, for any number of peers and of sweeps.
THEOREM TypeCorrect == Spec => []TypeOK
<1>1. IInv => TypeOK
  BY DEF IInv
<1> QED
  BY <1>1, InitInv, Inductive, PTL DEF Spec

\* No demand outlives the wait it was made for, whoever ends the wait.
THEOREM Waited == Spec => []DemandIsWaited
<1>1. IInv => DemandIsWaited
  BY DEF IInv
<1> QED
  BY <1>1, InitInv, Inductive, PTL DEF Spec

\* Whatever sweeps overlap, a backoff has a sweep or a timer to end it.
THEOREM Armed == Spec => []BackoffIsArmed
<1>1. IInv => BackoffIsArmed
  BY DEF IInv
<1> QED
  BY <1>1, InitInv, Inductive, PTL DEF Spec

\* Of a removed peer: it is not asked for again, and a count that is none stays so.
StaysForgotten(q) ==
    /\ q \in demanded' => q \in demanded
    /\ errors[q] = NoErrors => errors'[q] = NoErrors

\* A rung that ends in an error does not count it for a removed peer.
LEMMA CountKept ==
    ASSUME TypeOK, NEW p \in Peers, NEW n \in 1 .. 2, NEW error \in BOOLEAN,
           errors' = [errors EXCEPT ![p][n] = Counted(p, n, error)],
           NEW q \in Peers, trust[q] = "gone", errors[q] = NoErrors
    PROVE  errors'[q] = NoErrors
<1>1. CASE q # p
  BY <1>1 DEF TypeOK
<1>2. CASE q = p
  <2>1. errors'[q] = [errors[q] EXCEPT ![n] = Counted(p, n, error)]
    BY <1>2 DEF TypeOK
  <2>2. Counted(p, n, error) = 0
    BY <1>2 DEF Counted, Members, NoErrors
  <2> QED
    BY <2>1, <2>2 DEF NoErrors
<1> QED
  BY <1>1, <1>2

LEMMA ForgottenStep ==
    ASSUME TypeOK, [Next]_vars, NEW q \in Peers, trust[q] = "gone"
    PROVE  StaysForgotten(q)
<1>1. CASE UNCHANGED vars
  BY <1>1 DEF vars, ladders, StaysForgotten
<1>2. CASE SweepEnds
  BY <1>2 DEF SweepEnds, StaysForgotten
<1>3. ASSUME NEW p \in Peers, GraceEnds(p) \/ Rung3Ends(p) PROVE StaysForgotten(q)
  BY <1>3 DEF GraceEnds, Rung3Ends, Reached, AskedEnds, StaysForgotten
<1>4. ASSUME NEW p \in Peers, BacksOff(p) PROVE StaysForgotten(q)
  BY <1>4 DEF BacksOff, ladders, StaysForgotten
<1>5. ASSUME NEW present \in Lists, Sweep(present) PROVE StaysForgotten(q)
  <2>1. demanded' \subseteq demanded
    BY <1>5 DEF Sweep
  <2>2. \E S : errors' = [p \in Peers |-> IF p \in S THEN NoErrors ELSE errors[p]]
    BY <1>5 DEF Sweep
  <2> QED
    BY <2>1, <2>2 DEF StaysForgotten
<1>6. CASE Stop
  BY <1>6 DEF Stop, StaysForgotten
<1>7. ASSUME NEW p \in Peers, LadderStep(p) PROVE StaysForgotten(q)
  <2>1. CASE LanEnds(p) \/ TimesOut(p)
    BY <2>1 DEF LanEnds, TimesOut, Reached, StaysForgotten
  <2>2. CASE RungReaches(p)
    BY <2>2 DEF RungReaches, Reached, StaysForgotten, TypeOK
  <2>3. CASE Rung1Fails(p)
    <3>1. errors[q] = NoErrors => errors'[q] = NoErrors
      <4>1. PICK error \in BOOLEAN :
              errors' = [errors EXCEPT ![p][1] = Counted(p, 1, error)]
        BY <2>3 DEF Rung1Fails, Outcomes
      <4>2. 1 \in 1 .. 2
        OBVIOUS
      <4> QED
        BY <4>1, <4>2, CountKept
    <3> QED
      BY <2>3, <3>1 DEF Rung1Fails, StaysForgotten
  <2>4. CASE Rung2Fails(p)
    <3>1. errors[q] = NoErrors => errors'[q] = NoErrors
      <4>1. PICK error \in BOOLEAN :
              errors' = [errors EXCEPT ![p][2] = Counted(p, 2, error)]
        BY <2>4 DEF Rung2Fails, Outcomes
      <4>2. 2 \in 1 .. 2
        OBVIOUS
      <4> QED
        BY <4>1, <4>2, CountKept
    <3>2. q \in demanded' => q \in demanded
      BY <2>4 DEF Rung2Fails, MayAsk, Members
    <3> QED
      BY <3>1, <3>2 DEF StaysForgotten
  <2> QED
    BY <1>7, <2>1, <2>2, <2>3, <2>4 DEF LadderStep
<1>8. ASSUME NEW p \in Peers, Connects(p) \/ Removes(p) PROVE StaysForgotten(q)
  BY <1>8 DEF Connects, Removes, ladders, StaysForgotten
<1>9. ASSUME PeersChanged PROVE StaysForgotten(q)
  <2>1. demanded' \subseteq demanded
    BY <1>9 DEF PeersChanged
  <2>2. CASE stopped
    BY <1>9, <2>1, <2>2 DEF PeersChanged, StaysForgotten
  <2>3. CASE ~stopped
    <3>1. \E S : errors' = [p \in Peers |-> IF p \in S THEN NoErrors ELSE errors[p]]
      BY <1>9, <2>3 DEF PeersChanged
    <3> QED
      BY <2>1, <3>1 DEF StaysForgotten
  <2> QED
    BY <2>2, <2>3
<1> QED
  BY <1>1, <1>2, <1>3, <1>4, <1>5, <1>6, <1>7, <1>8, <1>9
  DEF Next, Continues, Woke, Fires, Admitted, Drops

\* What the coordinator forgot of a removed peer does not come back, whichever
\* step of a ladder, a sweep or a callback finds the peer removed.
THEOREM RemovedForgotten == Spec => RemovedStaysForgotten
<1>1. TypeOK /\ [Next]_vars =>
        [\A p \in Peers : trust[p] = "gone" =>
            /\ p \in demanded' => p \in demanded
            /\ errors[p] = NoErrors => errors'[p] = NoErrors]_vars
  BY ForgottenStep DEF StaysForgotten
<1> QED
  BY <1>1, TypeCorrect, PTL DEF Spec, RemovedStaysForgotten
=============================================================================
