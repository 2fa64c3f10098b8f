----------------------------- MODULE Join_proofs -----------------------------
(***************************************************************************)
(* Join implements both of its halves: each of its steps is a step of the  *)
(* approving computer (Approval) or leaves it alone, and a step of the     *)
(* device's nodes (NodeLifecycle) or leaves them alone.  What was proved   *)
(* of each half holds of the two together.  The halves come first.         *)
(***************************************************************************)
EXTENDS Join, FiniteSetTheorems, TLAPS

-----------------------------------------------------------------------------
(* Approval for every set of sessions and every number of approvals: an    *)
(* authorized row carries a secret somebody was given, and a device let in *)
(* before stays let in.                                                    *)
(*                                                                         *)
(* Neither is inductive.  While answers are on their way the row may carry *)
(* a secret nobody holds, so the invariant says what will be put back:     *)
(* the shared baseline is always a row that may stand, and the row itself  *)
(* may stand or belongs to an answer still on its way.                     *)

\* A row that may stand when no answer is on its way.
Stands(r) == r.authorized => r.secret \in allowed

BaselineStands == sending # {} => Stands(base)
RowIsAccounted == Stands(row) \/ \E a \in sending : a.secret = row.secret
DrawnLater == \A a \in sending : a.secret # 0
PlaceIsKept == 0 \in allowed => row.authorized /\ (sending # {} => base.authorized)

HostInv == TypeOKHost /\ BaselineStands /\ RowIsAccounted /\ DrawnLater /\ PlaceIsKept

-----------------------------------------------------------------------------
LEMMA Approvals ==
    ASSUME NEW secret \in Secrets
    PROVE  /\ Approved(secret) \in Row
           /\ Approved(secret).authorized /\ Approved(secret).secret = secret
  BY DEF Approved, Row, Statuses

\* What an approval draws is new: not the secret of before.
LEMMA Drawn ==
    ASSUME made \in Secrets, made < MaxApprovals, made' = made + 1
    PROVE  made' \in Secrets /\ made' # 0
  BY ApprovalAssumption DEF Secrets

LEMMA InitHostInv ==
    ASSUME NEW known \in BOOLEAN, InitHost(known)
    PROVE  HostInv
<1>1. 0 \in Secrets
  BY ApprovalAssumption DEF Secrets
<1>2. row \in Row /\ base \in Row
  BY <1>1 DEF InitHost, Row, NoRow, Approved, Statuses
<1>3. TypeOKHost
  BY <1>1, <1>2 DEF TypeOKHost, InitHost
<1>4. BaselineStands /\ DrawnLater
  BY DEF BaselineStands, DrawnLater, InitHost
<1>5. RowIsAccounted /\ PlaceIsKept
  BY DEF RowIsAccounted, PlaceIsKept, Stands, InitHost, NoRow, Approved
<1> QED
  BY <1>3, <1>4, <1>5 DEF HostInv

\* What an approval captures may stand, and keeps the device's place.
LEMMA BaselineHolds ==
    ASSUME HostInv
    PROVE  Baseline \in Row /\ Stands(Baseline) /\ (0 \in allowed => Baseline.authorized)
<1>1. CASE sending = {}
  BY <1>1 DEF HostInv, TypeOKHost, RowIsAccounted, PlaceIsKept, Baseline
<1>2. CASE sending # {}
  BY <1>2 DEF HostInv, TypeOKHost, BaselineStands, PlaceIsKept, Baseline
<1> QED
  BY <1>1, <1>2

-----------------------------------------------------------------------------
(* The steps that leave the approvals alone change nothing but the status  *)
(* and the stamp of the row.                                               *)

LEMMA StatusOnly ==
    ASSUME HostInv,
           row' \in Row, row'.authorized = row.authorized, row'.secret = row.secret,
           removed' \in BOOLEAN, enrolled' \in BOOLEAN, waiting' \subseteq Sessions,
           UNCHANGED <<sending, base, made, allowed>>
    PROVE  HostInv'
  BY DEF HostInv, TypeOKHost, BaselineStands, RowIsAccounted, DrawnLater, PlaceIsKept, Stands

LEMMA RequestKeeps ==
    ASSUME HostInv, NEW s \in Sessions, NEW rejoin \in BOOLEAN, Request(s, rejoin)
    PROVE  HostInv'
<1>1. row' \in Row /\ row'.authorized = row.authorized /\ row'.secret = row.secret
  BY DEF HostInv, TypeOKHost, Request, Row, Statuses, Listed
<1> QED
  BY <1>1, StatusOnly DEF HostInv, TypeOKHost, Request

LEMMA DroppedKeeps ==
    ASSUME HostInv, Dropped
    PROVE  HostInv'
  BY StatusOnly DEF HostInv, TypeOKHost, Dropped

LEMMA LapseKeeps ==
    ASSUME HostInv, Lapse
    PROVE  HostInv'
<1>1. row' \in Row /\ row'.authorized = row.authorized /\ row'.secret = row.secret
  BY DEF HostInv, TypeOKHost, Lapse, Row, Statuses
<1> QED
  BY <1>1, StatusOnly DEF HostInv, TypeOKHost, Lapse

LEMMA DenyKeeps ==
    ASSUME HostInv, Deny
    PROVE  HostInv'
<1>1. row' \in Row /\ row'.authorized = row.authorized /\ row'.secret = row.secret
  BY DEF HostInv, TypeOKHost, Deny, TurnedDown, Row, Statuses
<1> QED
  BY <1>1, StatusOnly DEF HostInv, TypeOKHost, Deny

LEMMA RevokeKeeps ==
    ASSUME HostInv, Revoke
    PROVE  HostInv'
<1>1. row' \in Row /\ row'.authorized = row.authorized /\ row'.secret = row.secret
  BY DEF HostInv, TypeOKHost, Revoke, Row, Statuses
<1> QED
  BY <1>1, StatusOnly DEF HostInv, TypeOKHost, Revoke

LEMMA LogsInKeeps ==
    ASSUME HostInv, NEW secret, LogsIn(secret)
    PROVE  HostInv'
  BY StatusOnly DEF HostInv, TypeOKHost, LogsIn

-----------------------------------------------------------------------------
(* The steps of an approval.                                               *)

LEMMA ApproveKeeps ==
    ASSUME HostInv, Approve
    PROVE  HostInv'
<1>1. made' \in Secrets /\ made' # 0
  BY Drawn DEF HostInv, TypeOKHost, Approve
<1>2. PICK s \in waiting : sending' = sending \cup {[secret |-> made', to |-> s]}
  BY DEF Approve
<1>3. row' = Approved(made') /\ row' \in Row /\ row'.authorized /\ row'.secret = made'
  BY <1>1, Approvals DEF Approve
<1>4. base' \in Row /\ (base'.authorized => base'.secret \in allowed')
                    /\ (0 \in allowed' => base'.authorized)
  BY BaselineHolds DEF Approve, Stands
<1>5. TypeOKHost'
  BY <1>1, <1>2, <1>3, <1>4 DEF HostInv, TypeOKHost, Approve
<1>6. BaselineStands'
  BY <1>4 DEF BaselineStands, Stands
<1>7. RowIsAccounted'
  <2>1. [secret |-> made', to |-> s] \in sending'
    BY <1>2
  <2>2. \E a \in sending' : a.secret = row'.secret
    BY <1>3, <2>1
  <2> QED
    BY <2>2 DEF RowIsAccounted
<1>8. DrawnLater'
  BY <1>1, <1>2 DEF HostInv, DrawnLater
<1>9. PlaceIsKept'
  BY <1>3, <1>4 DEF PlaceIsKept
<1> QED
  BY <1>5, <1>6, <1>7, <1>8, <1>9 DEF HostInv

LEMMA ApproveNobodyKeeps ==
    ASSUME HostInv, ApproveNobody
    PROVE  HostInv'
<1>1. made' \in Secrets
  BY Drawn DEF HostInv, TypeOKHost, ApproveNobody
<1>2. row' \in Row /\ (row'.authorized => row'.secret \in allowed')
                   /\ (0 \in allowed' => row'.authorized)
  BY BaselineHolds DEF ApproveNobody, Stands
<1>3. TypeOKHost'
  BY <1>1, <1>2 DEF HostInv, TypeOKHost, ApproveNobody
<1>4. BaselineStands' /\ DrawnLater'
  BY DEF HostInv, BaselineStands, DrawnLater, Stands, ApproveNobody
<1>5. RowIsAccounted'
  BY <1>2 DEF RowIsAccounted, Stands
<1>6. PlaceIsKept'
  BY <1>2 DEF HostInv, PlaceIsKept, ApproveNobody
<1> QED
  BY <1>3, <1>4, <1>5, <1>6 DEF HostInv

LEMMA ApproveToldKeeps ==
    ASSUME HostInv, NEW a \in sending, ApproveTold(a)
    PROVE  HostInv'
<1>1. a.secret \in Secrets /\ a.secret # 0
  BY DEF HostInv, TypeOKHost, DrawnLater
<1>2. base' \in Row /\ base'.authorized /\ base'.secret = a.secret
  BY <1>1, Approvals DEF ApproveTold
<1>3. TypeOKHost'
  BY <1>1, <1>2 DEF HostInv, TypeOKHost, ApproveTold
<1>4. BaselineStands' /\ DrawnLater'
  BY <1>2 DEF HostInv, BaselineStands, DrawnLater, Stands, ApproveTold
<1>5. RowIsAccounted'
  <2>1. CASE Stands(row) \/ row.secret = a.secret
    BY <2>1 DEF RowIsAccounted, Stands, ApproveTold
  <2>2. CASE ~Stands(row) /\ row.secret # a.secret
    BY <2>2 DEF HostInv, RowIsAccounted, ApproveTold
  <2> QED
    BY <2>1, <2>2
<1>6. PlaceIsKept'
  BY <1>1, <1>2 DEF HostInv, PlaceIsKept, ApproveTold
<1> QED
  BY <1>3, <1>4, <1>5, <1>6 DEF HostInv

\* Whether the row is this answer's or another's, it may stand afterwards or
\* belongs to another answer.
LEMMA ApproveFailsKeeps ==
    ASSUME HostInv, NEW a \in sending, ApproveFails(a)
    PROVE  HostInv'
<1>1. Stands(base) /\ base \in Row /\ (0 \in allowed => base.authorized)
  BY DEF HostInv, TypeOKHost, BaselineStands, PlaceIsKept
<1>2. BaselineStands' /\ DrawnLater'
  BY DEF HostInv, BaselineStands, DrawnLater, Stands, ApproveFails
<1>3. CASE row.secret = a.secret
  <2>1. row' = base
    BY <1>3 DEF ApproveFails, PutBack
  <2>2. TypeOKHost'
    BY <1>1, <2>1 DEF HostInv, TypeOKHost, ApproveFails
  <2>3. RowIsAccounted' /\ PlaceIsKept'
    BY <1>1, <2>1 DEF RowIsAccounted, PlaceIsKept, Stands, ApproveFails
  <2> QED
    BY <1>2, <2>2, <2>3 DEF HostInv
<1>4. CASE row.secret # a.secret
  <2>1. row' = row
    BY <1>4 DEF ApproveFails, PutBack
  <2>2. TypeOKHost'
    BY <2>1 DEF HostInv, TypeOKHost, ApproveFails
  <2>3. RowIsAccounted'
    BY <1>4, <2>1 DEF HostInv, RowIsAccounted, Stands, ApproveFails
  <2>4. PlaceIsKept'
    BY <1>1, <2>1 DEF HostInv, PlaceIsKept, ApproveFails
  <2> QED
    BY <1>2, <2>2, <2>3, <2>4 DEF HostInv
<1> QED
  BY <1>3, <1>4

-----------------------------------------------------------------------------
LEMMA HostStepKeeps ==
    ASSUME HostInv, [NextHost]_host
    PROVE  HostInv'
<1>1. CASE UNCHANGED host
  BY <1>1, StatusOnly DEF HostInv, TypeOKHost, host
<1>2. CASE NextHost
  BY <1>2, RequestKeeps, DroppedKeeps, LapseKeeps, DenyKeeps, RevokeKeeps, LogsInKeeps,
     ApproveKeeps, ApproveNobodyKeeps, ApproveToldKeeps, ApproveFailsKeeps DEF NextHost
<1> QED
  BY <1>1, <1>2

LEMMA HostInvImplies ==
    ASSUME HostInv
    PROVE  TypeOKHost /\ SecretIsHeld /\ KeepsItsPlace
  BY DEF HostInv, SecretIsHeld, KeepsItsPlace, RowIsAccounted, PlaceIsKept, Stands

LEMMA HostInvHolds == SpecHost => []HostInv
<1>1. (\E known \in BOOLEAN : InitHost(known)) => HostInv
  BY InitHostInv
<1>2. HostInv /\ [NextHost]_host => HostInv'
  BY HostStepKeeps
<1> QED
  BY <1>1, <1>2, PTL DEF SpecHost

\* The row, the baselines and the answers on their way keep their types.
THEOREM HostTypeCorrect == SpecHost => []TypeOKHost
  BY HostInvHolds, HostInvImplies, PTL

\* However approvals overlap, fail and are delivered, with requests, refusals
\* and removals between them (approveDevice, main.js), an authorized row that
\* waits for no answer carries a secret that was delivered.
THEOREM HostHoldsSecret == SpecHost => []SecretIsHeld
  BY HostInvHolds, HostInvImplies, PTL

\* A device let in before keeps its authorized row whatever comes of an
\* attempt to pair again (denyDevice, approveDevice, main.js).
THEOREM HostKeepsPlace == SpecHost => []KeepsItsPlace
  BY HostInvHolds, HostInvImplies, PTL

-----------------------------------------------------------------------------
(* NodeLifecycle for every number of attempts and of failing starts: one   *)
(* node at a time, and none after a close.                                 *)
(*                                                                         *)
(* The results hold where the screen keeps its calls apart and only        *)
(* joinCancel can fail to stop a node (Apart); TLC shows that each of the  *)
(* other overlaps and failures breaks them.                                *)
(*                                                                         *)
(* The invariant says who may run at each point of a call: while a session *)
(* is active, or its node is being stopped after the data came, no         *)
(* persistent node lives or is coming up; and a start in flight is the one *)
(* the holder waits for, which is why waiting for it is enough.            *)

Apart == Overlaps = {} /\ StopFails \subseteq {"cancel"}

\* Only the holder's own starter starts or has a node.
OneStarter == latch \subseteq {starter} /\ up \subseteq {starter}

\* A start in flight is the one stop() and close() wait for.
StartIsAwaited == latch # {} => awaited = starter

ClosesInOrder ==
    /\ quitting.at = "stop" => latch = {} /\ up \subseteq {quitting.node}
    /\ quitting.at = "done" => latch = {} /\ up = {}

JoinsInOrder ==
    /\ call.at # "idle" => stopping.by = "none" /\ sessions < MaxSessions
    /\ call.at # "idle" /\ ~call.again => starter = 1 /\ latch = {} /\ up = {}
    /\ call.at = "cancel" => active # 0
    /\ call.at \in {"settle", "stop", "start"} => active = 0 /\ temp = {}
    /\ call.at \in {"settle", "stop"} => call.again
    /\ call.at = "stop" => latch = {} /\ up \subseteq {call.node}
    /\ call.at = "start" => latch = {} /\ up = {} /\ (call.again => starter > 1)

SessionIsAlone ==
    /\ active # 0 \/ stopping.by = "data" => latch = {} /\ up = {}
    /\ again => starter > 1
    /\ stopping.by # "data" => temp \subseteq {active}
    /\ stopping.by = "cancel" => active # 0 /\ stopping.of = active
    /\ stopping.by = "data" => active = 0 /\ temp \subseteq {stopping.of}

\* Each fresh starter belongs to a session.
StartersCounted ==
    \/ starter <= sessions + 1
    \/ call.at = "start" /\ starter <= sessions + 2

DeviceInv ==
    /\ TypeOKDevice
    /\ OneStarter /\ StartIsAwaited /\ ClosesInOrder /\ JoinsInOrder /\ SessionIsAlone
    /\ StartersCounted

-----------------------------------------------------------------------------
LEMMA InitDeviceInv ==
    ASSUME NEW known \in BOOLEAN, InitDevice(known)
    PROVE  DeviceInv
<1>1. 1 \in Starters /\ 0 \in 0 .. MaxSessions /\ 0 \in 0 .. MaxFailures
  BY LifecycleAssumption DEF Starters
<1>2. TypeOKDevice
  BY <1>1 DEF InitDevice, TypeOKDevice, Idle, NotStopping
<1>3. OneStarter /\ StartIsAwaited /\ ClosesInOrder
  BY DEF InitDevice, OneStarter, StartIsAwaited, ClosesInOrder
<1>4. JoinsInOrder /\ SessionIsAlone /\ StartersCounted
  BY DEF InitDevice, JoinsInOrder, SessionIsAlone, StartersCounted, Idle, NotStopping
<1> QED
  BY <1>2, <1>3, <1>4 DEF DeviceInv

\* A start with none in flight is the one that is waited for, and there is
\* none once the app is closing.
LEMMA StartKeeps ==
    ASSUME TypeOKDevice, latch = {}, NEW s, NEW camp, Start(s, camp)
    PROVE  /\ latch' \subseteq {starter}
           /\ latch' # {} => awaited' = starter /\ quitting.at = "no"
           /\ latch' \subseteq Starters /\ awaited' \in Starters \cup {0}
  BY DEF TypeOKDevice, Start, Starts

-----------------------------------------------------------------------------
(* The persistent node.                                                    *)

LEMMA StartEndsKeeps ==
    ASSUME DeviceInv, NEW g \in Starters, NEW lands \in BOOLEAN, StartEnds(g, lands)
    PROVE  DeviceInv'
<1>1. g = starter
  BY DEF DeviceInv, OneStarter, StartEnds
<1>2. TypeOKDevice'
  BY LifecycleAssumption DEF DeviceInv, TypeOKDevice, StartEnds, joining
<1>3. OneStarter'
  BY <1>1 DEF DeviceInv, OneStarter, StartEnds, joining
<1>4. StartIsAwaited'
  BY DEF DeviceInv, StartIsAwaited, OneStarter, StartEnds, joining
<1>5. ClosesInOrder'
  BY DEF DeviceInv, ClosesInOrder, StartEnds, joining
<1>6. JoinsInOrder'
  BY DEF DeviceInv, JoinsInOrder, StartEnds, joining
<1>7. SessionIsAlone'
  BY DEF DeviceInv, SessionIsAlone, StartEnds, joining
<1>8. StartersCounted'
  BY DEF DeviceInv, StartersCounted, StartEnds, joining
<1> QED
  BY <1>2, <1>3, <1>4, <1>5, <1>6, <1>7, <1>8 DEF DeviceInv

LEMMA RetryKeeps ==
    ASSUME DeviceInv, Apart, Retry
    PROVE  DeviceInv'
<1>1. latch = {} /\ starter \notin up /\ call.at = "idle" /\ stopping.by = "none" /\ active = 0
  BY DEF Apart, Retry, Quiet, Idle, NotStopping
<1>2. /\ latch' \subseteq {starter}
      /\ latch' # {} => awaited' = starter /\ quitting.at = "no"
      /\ latch' \subseteq Starters /\ awaited' \in Starters \cup {0}
  BY <1>1, StartKeeps DEF DeviceInv, Retry
<1>3. UNCHANGED <<member, starter, up, tried, quitting, joining, failures>>
  BY DEF Retry
<1>4. TypeOKDevice'
  BY <1>1, <1>2, <1>3 DEF DeviceInv, TypeOKDevice, joining
<1>5. OneStarter'
  BY <1>1, <1>2, <1>3 DEF DeviceInv, OneStarter, joining
<1>6. StartIsAwaited'
  BY <1>1, <1>2, <1>3 DEF DeviceInv, StartIsAwaited, joining
<1>7. ClosesInOrder'
  BY <1>1, <1>2, <1>3 DEF DeviceInv, ClosesInOrder, joining
<1>8. JoinsInOrder'
  BY <1>1, <1>2, <1>3 DEF DeviceInv, JoinsInOrder, joining
<1>9. SessionIsAlone'
  BY <1>1, <1>2, <1>3 DEF DeviceInv, SessionIsAlone, joining
<1>10. StartersCounted'
  BY <1>1, <1>2, <1>3 DEF DeviceInv, StartersCounted, joining
<1> QED
  BY <1>4, <1>5, <1>6, <1>7, <1>8, <1>9, <1>10 DEF DeviceInv

LEMMA QuitKeeps ==
    ASSUME DeviceInv, Quit
    PROVE  DeviceInv'
<1>1. TypeOKDevice'
  BY DEF DeviceInv, TypeOKDevice, Quit, holder, joining
<1>2. OneStarter'
  BY DEF DeviceInv, OneStarter, Quit, holder, joining
<1>3. StartIsAwaited'
  BY DEF DeviceInv, StartIsAwaited, Quit, holder, joining
<1>4. ClosesInOrder'
  BY DEF DeviceInv, ClosesInOrder, Quit, holder, joining
<1>5. JoinsInOrder'
  BY DEF DeviceInv, JoinsInOrder, Quit, holder, joining
<1>6. SessionIsAlone'
  BY DEF DeviceInv, SessionIsAlone, Quit, holder, joining
<1>7. StartersCounted'
  BY DEF DeviceInv, StartersCounted, Quit, holder, joining
<1> QED
  BY <1>1, <1>2, <1>3, <1>4, <1>5, <1>6, <1>7 DEF DeviceInv

\* What settles is all there is to wait for, and the node is the only one.
LEMMA QuitSettlesKeeps ==
    ASSUME DeviceInv, QuitSettles
    PROVE  DeviceInv'
<1>1. latch = {}
  BY DEF DeviceInv, StartIsAwaited, TypeOKDevice, Starters, QuitSettles
<1>2. TypeOKDevice'
  BY DEF DeviceInv, TypeOKDevice, QuitSettles, holder, joining, Running
<1>3. OneStarter'
  BY DEF DeviceInv, OneStarter, QuitSettles, holder, joining, Running
<1>4. StartIsAwaited'
  BY DEF DeviceInv, StartIsAwaited, QuitSettles, holder, joining, Running
<1>5. ClosesInOrder'
  BY <1>1 DEF DeviceInv, ClosesInOrder, OneStarter, QuitSettles, holder, joining, Running
<1>6. JoinsInOrder'
  BY DEF DeviceInv, JoinsInOrder, QuitSettles, holder, joining, Running
<1>7. SessionIsAlone'
  BY DEF DeviceInv, SessionIsAlone, QuitSettles, holder, joining, Running
<1>8. StartersCounted'
  BY DEF DeviceInv, StartersCounted, QuitSettles, holder, joining, Running
<1> QED
  BY <1>2, <1>3, <1>4, <1>5, <1>6, <1>7, <1>8 DEF DeviceInv

LEMMA QuitStopsKeeps ==
    ASSUME DeviceInv, QuitStops
    PROVE  DeviceInv'
<1>1. TypeOKDevice'
  BY DEF DeviceInv, TypeOKDevice, QuitStops, holder, joining
<1>2. OneStarter'
  BY DEF DeviceInv, OneStarter, QuitStops, holder, joining
<1>3. StartIsAwaited'
  BY DEF DeviceInv, StartIsAwaited, QuitStops, holder, joining
<1>4. ClosesInOrder'
  BY DEF DeviceInv, ClosesInOrder, QuitStops, holder, joining
<1>5. JoinsInOrder'
  BY DEF DeviceInv, JoinsInOrder, QuitStops, holder, joining
<1>6. SessionIsAlone'
  BY DEF DeviceInv, SessionIsAlone, QuitStops, holder, joining
<1>7. StartersCounted'
  BY DEF DeviceInv, StartersCounted, QuitStops, holder, joining
<1> QED
  BY <1>1, <1>2, <1>3, <1>4, <1>5, <1>6, <1>7 DEF DeviceInv

-----------------------------------------------------------------------------
(* A session begins.                                                       *)

LEMMA JoinStartKeeps ==
    ASSUME DeviceInv, NEW pairAgain \in BOOLEAN, JoinStart(pairAgain)
    PROVE  DeviceInv'
<1>1. stopping.by = "none" /\ (active = 0 => temp = {})
  BY DEF DeviceInv, SessionIsAlone, TypeOKDevice, Attempts, NotStopping, JoinStart
<1>2. active # 0 => latch = {} /\ up = {}
  BY DEF DeviceInv, SessionIsAlone
<1>3. TypeOKDevice'
  BY DEF DeviceInv, TypeOKDevice, JoinStart, Then, Idle, NotStopping, holder
<1>4. OneStarter'
  BY DEF DeviceInv, OneStarter, JoinStart, Then, Idle, NotStopping, holder
<1>5. StartIsAwaited'
  BY DEF DeviceInv, StartIsAwaited, JoinStart, Then, Idle, NotStopping, holder
<1>6. ClosesInOrder'
  BY DEF DeviceInv, ClosesInOrder, JoinStart, Then, Idle, NotStopping, holder
<1>7. JoinsInOrder'
  BY <1>1, <1>2 DEF DeviceInv, JoinsInOrder, JoinStart, Then, Idle, NotStopping, holder
<1>8. SessionIsAlone'
  BY <1>1 DEF DeviceInv, SessionIsAlone, JoinStart, Then, Idle, NotStopping, holder
<1>9. StartersCounted'
  BY DEF DeviceInv, StartersCounted, JoinStart, Then, Idle, NotStopping, holder
<1> QED
  BY <1>3, <1>4, <1>5, <1>6, <1>7, <1>8, <1>9 DEF DeviceInv

LEMMA StopsFirstKeeps ==
    ASSUME DeviceInv, StopsFirst
    PROVE  DeviceInv'
<1>1. latch = {} /\ up = {} /\ temp' = {} /\ stopping.by = "none" /\ active' = 0 /\ again' = FALSE
  BY DEF DeviceInv, JoinsInOrder, SessionIsAlone, StopsFirst, Ended
<1>2. /\ latch' \subseteq {starter}
      /\ latch' # {} => awaited' = starter /\ quitting.at = "no" /\ again
      /\ latch' \subseteq Starters /\ awaited' \in Starters \cup {0}
  BY <1>1, StartKeeps DEF DeviceInv, TypeOKDevice, StopsFirst, Ended
<1>3. /\ call.at = "cancel" /\ call' = [call EXCEPT !.at = Then(call.again)]
      /\ UNCHANGED <<member, starter, up, tried, quitting, sessions, stopping, stuck, screen, failures>>
  BY DEF StopsFirst
<1>4. TypeOKDevice'
  BY <1>1, <1>2, <1>3 DEF DeviceInv, TypeOKDevice, Then
<1>5. OneStarter'
  BY <1>1, <1>2, <1>3 DEF DeviceInv, OneStarter, Then
<1>6. StartIsAwaited'
  BY <1>1, <1>2, <1>3 DEF DeviceInv, StartIsAwaited, Then
<1>7. ClosesInOrder'
  BY <1>1, <1>2, <1>3 DEF DeviceInv, ClosesInOrder, Then
<1>8. JoinsInOrder'
  BY <1>1, <1>2, <1>3 DEF DeviceInv, JoinsInOrder, SessionIsAlone, TypeOKDevice, Then
<1>9. SessionIsAlone'
  BY <1>1, <1>2, <1>3 DEF DeviceInv, SessionIsAlone, Then
<1>10. StartersCounted'
  BY <1>1, <1>2, <1>3 DEF DeviceInv, StartersCounted, Then
<1> QED
  BY <1>4, <1>5, <1>6, <1>7, <1>8, <1>9, <1>10 DEF DeviceInv

LEMMA StopFirstFailsKeeps ==
    ASSUME DeviceInv, StopFirstFails
    PROVE  DeviceInv'
<1>1. active \in Attempts
  BY DEF DeviceInv, TypeOKDevice, JoinsInOrder, StopFirstFails
<1>2. TypeOKDevice'
  BY <1>1 DEF DeviceInv, TypeOKDevice, StopFirstFails, Idle, holder
<1>3. OneStarter'
  BY DEF DeviceInv, OneStarter, StopFirstFails, Idle, holder
<1>4. StartIsAwaited'
  BY DEF DeviceInv, StartIsAwaited, StopFirstFails, Idle, holder
<1>5. ClosesInOrder'
  BY DEF DeviceInv, ClosesInOrder, StopFirstFails, Idle, holder
<1>6. JoinsInOrder'
  BY DEF DeviceInv, JoinsInOrder, StopFirstFails, Idle, holder
<1>7. SessionIsAlone'
  BY DEF DeviceInv, SessionIsAlone, StopFirstFails, Idle, holder
<1>8. StartersCounted'
  BY DEF DeviceInv, StartersCounted, StopFirstFails, Idle, holder
<1> QED
  BY <1>2, <1>3, <1>4, <1>5, <1>6, <1>7, <1>8 DEF DeviceInv

LEMMA StopsSyncKeeps ==
    ASSUME DeviceInv, StopsSync
    PROVE  DeviceInv'
<1>1. latch = {}
  BY DEF DeviceInv, StartIsAwaited, TypeOKDevice, Starters, StopsSync, Settled
<1>2. up \subseteq {Running}
  BY DEF DeviceInv, OneStarter, Running
<1>3. TypeOKDevice'
  BY DEF DeviceInv, TypeOKDevice, StopsSync, Settled, Running, holder
<1>4. OneStarter'
  BY DEF DeviceInv, OneStarter, StopsSync, Settled, Running, holder
<1>5. StartIsAwaited'
  BY DEF DeviceInv, StartIsAwaited, StopsSync, Settled, Running, holder
<1>6. ClosesInOrder'
  BY DEF DeviceInv, ClosesInOrder, StopsSync, Settled, Running, holder
<1>7. JoinsInOrder'
  BY <1>1, <1>2 DEF DeviceInv, JoinsInOrder, TypeOKDevice, StopsSync, Settled, Running, holder
<1>8. SessionIsAlone'
  BY DEF DeviceInv, SessionIsAlone, StopsSync, Settled, Running, holder
<1>9. StartersCounted'
  BY DEF DeviceInv, StartersCounted, StopsSync, Settled, Running, holder
<1> QED
  BY <1>3, <1>4, <1>5, <1>6, <1>7, <1>8, <1>9 DEF DeviceInv

LEMMA SyncStoppedKeeps ==
    ASSUME DeviceInv, Apart, NEW ok \in BOOLEAN, SyncStopped(ok)
    PROVE  DeviceInv'
<1>1. latch = {} /\ up' = {} /\ call.again /\ starter \in Nat /\ starter >= 1 /\ active = 0 /\ temp = {}
      /\ sessions < MaxSessions /\ starter <= sessions + 1 /\ stopping.by = "none"
  BY LifecycleAssumption DEF DeviceInv, TypeOKDevice, Starters, JoinsInOrder, StartersCounted, SyncStopped, Apart
<1>2. TypeOKDevice'
  BY <1>1, LifecycleAssumption DEF DeviceInv, TypeOKDevice, Starters, SyncStopped
<1>3. OneStarter'
  BY <1>1 DEF DeviceInv, OneStarter, SyncStopped
<1>4. StartIsAwaited'
  BY <1>1 DEF DeviceInv, StartIsAwaited, SyncStopped
<1>5. ClosesInOrder'
  BY <1>1 DEF DeviceInv, ClosesInOrder, SyncStopped
<1>6. JoinsInOrder'
  BY <1>1 DEF DeviceInv, JoinsInOrder, SyncStopped
<1>7. SessionIsAlone'
  BY <1>1 DEF DeviceInv, SessionIsAlone, SyncStopped
<1>8. StartersCounted'
  BY <1>1 DEF DeviceInv, StartersCounted, TypeOKDevice, SyncStopped
<1> QED
  BY <1>2, <1>3, <1>4, <1>5, <1>6, <1>7, <1>8 DEF DeviceInv

LEMMA JoinStartsKeeps ==
    ASSUME DeviceInv, JoinStarts
    PROVE  DeviceInv'
<1>1. sessions' \in Attempts
  BY LifecycleAssumption DEF DeviceInv, TypeOKDevice, JoinsInOrder, JoinStarts, Attempts
<1>2. TypeOKDevice'
  BY <1>1 DEF DeviceInv, TypeOKDevice, JoinsInOrder, Attempts, JoinStarts, Idle, holder
<1>3. OneStarter'
  BY DEF DeviceInv, OneStarter, JoinStarts, Idle, holder
<1>4. StartIsAwaited'
  BY DEF DeviceInv, StartIsAwaited, JoinStarts, Idle, holder
<1>5. ClosesInOrder'
  BY DEF DeviceInv, ClosesInOrder, JoinStarts, Idle, holder
<1>6. JoinsInOrder'
  BY DEF DeviceInv, JoinsInOrder, JoinStarts, Idle, holder
<1>7. SessionIsAlone'
  BY <1>1 DEF DeviceInv, SessionIsAlone, JoinsInOrder, JoinStarts, Idle, holder
<1>8. StartersCounted'
  BY DEF DeviceInv, StartersCounted, TypeOKDevice, Starters, JoinStarts, Idle, holder
<1> QED
  BY <1>2, <1>3, <1>4, <1>5, <1>6, <1>7, <1>8 DEF DeviceInv

LEMMA JoinFailsKeeps ==
    ASSUME DeviceInv, JoinFails
    PROVE  DeviceInv'
<1>1. latch = {} /\ up = {} /\ temp = {} /\ stopping.by = "none" /\ active = 0 /\ sessions' \in 0 .. MaxSessions
  BY LifecycleAssumption DEF DeviceInv, TypeOKDevice, JoinsInOrder, JoinFails
<1>2. /\ latch' \subseteq {starter}
      /\ latch' # {} => awaited' = starter /\ quitting.at = "no"
      /\ latch' \subseteq Starters /\ awaited' \in Starters \cup {0}
  BY <1>1, StartKeeps DEF DeviceInv, TypeOKDevice, JoinFails
<1>3. /\ call.at = "start" /\ call' = Idle /\ sessions' = sessions + 1
      /\ UNCHANGED <<member, starter, up, tried, quitting, temp, active, again, stopping, stuck, screen, failures>>
  BY DEF JoinFails
<1>4. TypeOKDevice'
  BY <1>1, <1>2, <1>3 DEF DeviceInv, TypeOKDevice, Idle
<1>5. OneStarter'
  BY <1>1, <1>2, <1>3 DEF DeviceInv, OneStarter, Idle
<1>6. StartIsAwaited'
  BY <1>1, <1>2, <1>3 DEF DeviceInv, StartIsAwaited, Idle
<1>7. ClosesInOrder'
  BY <1>1, <1>2, <1>3 DEF DeviceInv, ClosesInOrder, Idle
<1>8. JoinsInOrder'
  BY <1>1, <1>2, <1>3 DEF DeviceInv, JoinsInOrder, Idle
<1>9. SessionIsAlone'
  BY <1>1, <1>2, <1>3 DEF DeviceInv, SessionIsAlone, Idle
<1>10. StartersCounted'
  BY <1>1, <1>3 DEF DeviceInv, StartersCounted, TypeOKDevice, Starters, Idle
<1> QED
  BY <1>4, <1>5, <1>6, <1>7, <1>8, <1>9, <1>10 DEF DeviceInv

-----------------------------------------------------------------------------
(* A session ends.                                                         *)

LEMMA LeaveKeeps ==
    ASSUME DeviceInv, Leave
    PROVE  DeviceInv'
<1>1. /\ screen' \in BOOLEAN
      /\ UNCHANGED <<member, holder, quitting, call, sessions, temp, active, again, stopping,
                     stuck, failures>>
  BY DEF Leave
<1>2. TypeOKDevice'
  BY <1>1 DEF DeviceInv, TypeOKDevice, holder
<1>3. OneStarter'
  BY <1>1 DEF DeviceInv, OneStarter, holder
<1>4. StartIsAwaited'
  BY <1>1 DEF DeviceInv, StartIsAwaited, holder
<1>5. ClosesInOrder'
  BY <1>1 DEF DeviceInv, ClosesInOrder, holder
<1>6. JoinsInOrder'
  BY <1>1 DEF DeviceInv, JoinsInOrder, holder
<1>7. SessionIsAlone'
  BY <1>1 DEF DeviceInv, SessionIsAlone, holder
<1>8. StartersCounted'
  BY <1>1 DEF DeviceInv, StartersCounted, holder
<1> QED
  BY <1>2, <1>3, <1>4, <1>5, <1>6, <1>7, <1>8 DEF DeviceInv

LEMMA CancelKeeps ==
    ASSUME DeviceInv, NEW leaves \in BOOLEAN, Cancel(leaves)
    PROVE  DeviceInv'
<1>1. TypeOKDevice'
  BY DEF DeviceInv, TypeOKDevice, Cancel, Idle, NotStopping, holder
<1>2. OneStarter'
  BY DEF DeviceInv, OneStarter, Cancel, Idle, NotStopping, holder
<1>3. StartIsAwaited'
  BY DEF DeviceInv, StartIsAwaited, Cancel, Idle, NotStopping, holder
<1>4. ClosesInOrder'
  BY DEF DeviceInv, ClosesInOrder, Cancel, Idle, NotStopping, holder
<1>5. JoinsInOrder'
  BY DEF DeviceInv, JoinsInOrder, Cancel, Idle, NotStopping, holder
<1>6. SessionIsAlone'
  BY DEF DeviceInv, SessionIsAlone, Cancel, Idle, NotStopping, holder
<1>7. StartersCounted'
  BY DEF DeviceInv, StartersCounted, Cancel, Idle, NotStopping, holder
<1> QED
  BY <1>1, <1>2, <1>3, <1>4, <1>5, <1>6, <1>7 DEF DeviceInv

LEMMA CancelledKeeps ==
    ASSUME DeviceInv, NEW ok \in BOOLEAN, Cancelled(ok)
    PROVE  DeviceInv'
<1>1. latch = {} /\ up = {} /\ call.at = "idle" /\ active # 0 /\ temp \subseteq {active} /\ stopping.of = active
  BY DEF DeviceInv, JoinsInOrder, SessionIsAlone, Cancelled
<1>2. /\ latch' \subseteq {starter}
      /\ latch' # {} => awaited' = starter /\ quitting.at = "no" /\ ok
      /\ latch' \subseteq Starters /\ awaited' \in Starters \cup {0}
  BY <1>1, StartKeeps DEF DeviceInv, TypeOKDevice, Cancelled, Ended
<1>3. /\ stopping' = NotStopping
      /\ UNCHANGED <<member, starter, up, tried, quitting, call, sessions, screen, failures>>
  BY DEF Cancelled
<1>4. \/ temp' = {} /\ active' = 0 /\ again' = FALSE /\ stuck' = stuck
      \/ temp' = temp /\ active' = active /\ again' = again /\ stuck' = stuck \cup {active} /\ latch' = latch
  BY <1>1 DEF Cancelled, Ended
<1>5. TypeOKDevice'
  BY <1>1, <1>2, <1>3, <1>4 DEF DeviceInv, TypeOKDevice, NotStopping
<1>6. OneStarter'
  BY <1>1, <1>2, <1>3, <1>4 DEF DeviceInv, OneStarter, NotStopping
<1>7. StartIsAwaited'
  BY <1>1, <1>2, <1>3, <1>4 DEF DeviceInv, StartIsAwaited, NotStopping
<1>8. ClosesInOrder'
  BY <1>1, <1>2, <1>3, <1>4 DEF DeviceInv, ClosesInOrder, NotStopping
<1>9. JoinsInOrder'
  BY <1>1, <1>2, <1>3, <1>4 DEF DeviceInv, JoinsInOrder, NotStopping
<1>10. SessionIsAlone'
  BY <1>1, <1>2, <1>3, <1>4 DEF DeviceInv, SessionIsAlone, NotStopping
<1>11. StartersCounted'
  BY <1>1, <1>2, <1>3, <1>4 DEF DeviceInv, StartersCounted, NotStopping
<1> QED
  BY <1>5, <1>6, <1>7, <1>8, <1>9, <1>10, <1>11 DEF DeviceInv

LEMMA BecomesMemberKeeps ==
    ASSUME DeviceInv, NEW s \in Attempts, BecomesMember(s)
    PROVE  DeviceInv'
<1>1. TypeOKDevice'
  BY DEF DeviceInv, TypeOKDevice, BecomesMember, holder, joining
<1>2. OneStarter'
  BY DEF DeviceInv, OneStarter, BecomesMember, holder, joining
<1>3. StartIsAwaited'
  BY DEF DeviceInv, StartIsAwaited, BecomesMember, holder, joining
<1>4. ClosesInOrder'
  BY DEF DeviceInv, ClosesInOrder, BecomesMember, holder, joining
<1>5. JoinsInOrder'
  BY DEF DeviceInv, JoinsInOrder, BecomesMember, holder, joining
<1>6. SessionIsAlone'
  BY DEF DeviceInv, SessionIsAlone, BecomesMember, holder, joining
<1>7. StartersCounted'
  BY DEF DeviceInv, StartersCounted, BecomesMember, holder, joining
<1> QED
  BY <1>1, <1>2, <1>3, <1>4, <1>5, <1>6, <1>7 DEF DeviceInv

LEMMA DataArrivesKeeps ==
    ASSUME DeviceInv, NEW s \in Attempts, DataArrives(s)
    PROVE  DeviceInv'
<1>1. active # 0 /\ call.at = "idle" /\ stopping.by = "none"
  BY LifecycleAssumption DEF DataArrives, Attempts, Idle, NotStopping
<1>2. TypeOKDevice'
  BY <1>1 DEF DeviceInv, TypeOKDevice, DataArrives, Idle, NotStopping, holder
<1>3. OneStarter'
  BY DEF DeviceInv, OneStarter, DataArrives, Idle, NotStopping, holder
<1>4. StartIsAwaited'
  BY DEF DeviceInv, StartIsAwaited, DataArrives, Idle, NotStopping, holder
<1>5. ClosesInOrder'
  BY DEF DeviceInv, ClosesInOrder, DataArrives, Idle, NotStopping, holder
<1>6. JoinsInOrder'
  BY <1>1 DEF DeviceInv, JoinsInOrder, DataArrives, Idle, NotStopping, holder
<1>7. SessionIsAlone'
  BY <1>1 DEF DeviceInv, SessionIsAlone, DataArrives, Idle, NotStopping, holder
<1>8. StartersCounted'
  BY <1>1 DEF DeviceInv, StartersCounted, DataArrives, Idle, NotStopping, holder
<1> QED
  BY <1>2, <1>3, <1>4, <1>5, <1>6, <1>7, <1>8 DEF DeviceInv

LEMMA DataStoppedKeeps ==
    ASSUME DeviceInv, Apart, NEW ok \in BOOLEAN, DataStopped(ok)
    PROVE  DeviceInv'
<1>1. ok /\ latch = {} /\ up = {} /\ call.at = "idle" /\ active = 0 /\ temp' = {}
  BY DEF DeviceInv, JoinsInOrder, SessionIsAlone, DataStopped, Apart
<1>2. /\ latch' \subseteq {starter}
      /\ latch' # {} => awaited' = starter /\ quitting.at = "no"
      /\ latch' \subseteq Starters /\ awaited' \in Starters \cup {0}
  BY <1>1, StartKeeps DEF DeviceInv, TypeOKDevice, DataStopped
<1>3. /\ stopping' = NotStopping
      /\ UNCHANGED <<member, starter, up, tried, quitting, call, sessions, active, again, stuck,
                    screen, failures>>
  BY <1>1 DEF DataStopped
<1>4. TypeOKDevice'
  BY <1>1, <1>2, <1>3 DEF DeviceInv, TypeOKDevice, NotStopping
<1>5. OneStarter'
  BY <1>1, <1>2, <1>3 DEF DeviceInv, OneStarter, NotStopping
<1>6. StartIsAwaited'
  BY <1>1, <1>2, <1>3 DEF DeviceInv, StartIsAwaited, NotStopping
<1>7. ClosesInOrder'
  BY <1>1, <1>2, <1>3 DEF DeviceInv, ClosesInOrder, NotStopping
<1>8. JoinsInOrder'
  BY <1>1, <1>2, <1>3 DEF DeviceInv, JoinsInOrder, NotStopping
<1>9. SessionIsAlone'
  BY <1>1, <1>2, <1>3 DEF DeviceInv, SessionIsAlone, NotStopping
<1>10. StartersCounted'
  BY <1>1, <1>2, <1>3 DEF DeviceInv, StartersCounted, NotStopping
<1> QED
  BY <1>4, <1>5, <1>6, <1>7, <1>8, <1>9, <1>10 DEF DeviceInv

-----------------------------------------------------------------------------
LEMMA DeviceStepKeeps ==
    ASSUME DeviceInv, Apart, [NextDevice]_device
    PROVE  DeviceInv'
<1>1. CASE UNCHANGED device
  BY <1>1 DEF DeviceInv, TypeOKDevice, OneStarter, StartIsAwaited, ClosesInOrder, JoinsInOrder,
     SessionIsAlone, StartersCounted, device
<1>2. CASE NextDevice
  BY <1>2, StartEndsKeeps, RetryKeeps, QuitKeeps, QuitSettlesKeeps, QuitStopsKeeps,
     JoinStartKeeps, StopsFirstKeeps, StopFirstFailsKeeps, StopsSyncKeeps, SyncStoppedKeeps,
     JoinStartsKeeps, JoinFailsKeeps, LeaveKeeps, CancelKeeps, CancelledKeeps,
     BecomesMemberKeeps, DataArrivesKeeps, DataStoppedKeeps
     DEF NextDevice, Lifecycle
<1> QED
  BY <1>1, <1>2

LEMMA DeviceInvImplies ==
    ASSUME DeviceInv
    PROVE  TypeOKDevice /\ OneNode /\ ClosedIsQuiet
<1>1. TypeOKDevice /\ ClosedIsQuiet
  BY DEF DeviceInv, ClosedIsQuiet, ClosesInOrder
<1>2. up = {} \/ temp = {}
  BY LifecycleAssumption DEF DeviceInv, TypeOKDevice, Attempts, SessionIsAlone
<1>3. PICK x, y : up \subseteq {x} /\ temp \subseteq {y}
  BY DEF DeviceInv, OneStarter, SessionIsAlone
<1>4. Cardinality(up) \in {0, 1} /\ (up = {} => Cardinality(up) = 0)
  <2>1. up = {} \/ up = {x}
    BY <1>3
  <2> QED
    BY <2>1, FS_EmptySet, FS_Singleton
<1>5. Cardinality(temp) \in {0, 1} /\ (temp = {} => Cardinality(temp) = 0)
  <2>1. temp = {} \/ temp = {y}
    BY <1>3
  <2> QED
    BY <2>1, FS_EmptySet, FS_Singleton
<1>6. OneNode
  BY <1>2, <1>4, <1>5 DEF OneNode
<1> QED
  BY <1>1, <1>6

LEMMA DeviceInvHolds ==
    ASSUME Apart
    PROVE  SpecDevice => []DeviceInv
<1>1. (\E known \in BOOLEAN : InitDevice(known)) => DeviceInv
  BY InitDeviceInv
<1>2. DeviceInv /\ [NextDevice]_device => DeviceInv'
  BY DeviceStepKeeps
<1> QED
  BY <1>1, <1>2, PTL DEF SpecDevice

\* The starters, calls and sessions of a device keep their types.
THEOREM DeviceTypeCorrect ==
    ASSUME Apart
    PROVE  SpecDevice => []TypeOKDevice
  BY DeviceInvHolds, DeviceInvImplies, PTL

\* For any number of attempts, failing starts and failing cancels, two nodes
\* never share the device's identity (syncStarter.js start, main.js joinCancel).
THEOREM DeviceOneNode ==
    ASSUME Apart
    PROVE  SpecDevice => []OneNode
  BY DeviceInvHolds, DeviceInvImplies, PTL

\* Once close() of syncStarterHolder.js has returned, no persistent node lives
\* and none is coming up, even if a start was in flight when it was called.
THEOREM DeviceClosedIsQuiet ==
    ASSUME Apart
    PROVE  SpecDevice => []ClosedIsQuiet
  BY DeviceInvHolds, DeviceInvImplies, PTL

-----------------------------------------------------------------------------
(* The device.                                                             *)

LEMMA DeviceStep ==
    ASSUME [Next]_vars
    PROVE  [NextDevice]_device
<1>1. CASE UNCHANGED vars
  BY <1>1 DEF vars
<1>2. CASE Lifecycle
  BY <1>2 DEF NextDevice
<1>3. CASE Turned
  BY <1>3 DEF Turned
<1>4. CASE (Director \/ \E a \in sending : AnswerEnds(a)) /\ UNCHANGED device
  BY <1>4
<1>5. ASSUME NEW s \in Sessions, Asks(s) \/ IsTold(s) \/ IsRefused(s)
      PROVE  UNCHANGED device
  BY <1>5 DEF Asks, IsTold, IsRefused
<1>6. ASSUME NEW s \in Sessions, Login(s)
      PROVE  [NextDevice]_device
  BY <1>6, JoinAssumption DEF Login, NextDevice
<1>7. ASSUME NEW s \in Sessions, Receives(s)
      PROVE  NextDevice
  BY <1>7, JoinAssumption DEF Receives, NextDevice
<1>8. ASSUME NEW a \in sending, NEW s \in Sessions, AnswerArrives(a, s)
      PROVE  UNCHANGED device
  BY <1>8 DEF AnswerArrives
<1> QED
  BY <1>1, <1>2, <1>3, <1>4, <1>5, <1>6, <1>7, <1>8 DEF Next

\* A device that joins or pairs again runs its nodes as NodeLifecycle says.
THEOREM ImplementsDevice == Spec => SpecDevice
<1>1. Init => \E known \in BOOLEAN : InitDevice(known)
  BY DEF Init
<1>2. [Next]_vars => [NextDevice]_device
  BY DeviceStep
<1> QED
  BY <1>1, <1>2, PTL DEF Spec, SpecDevice

\* While a device joins, is refused, logs in, is cancelled and tries again,
\* two nodes never share its identity (main.js joinStart and joinCancel).
THEOREM JoinOneNode ==
    ASSUME Apart
    PROVE  Spec => []OneNode
  BY ImplementsDevice, DeviceOneNode, PTL

\* A close during any of it leaves no persistent node behind.
THEOREM JoinClosedIsQuiet ==
    ASSUME Apart
    PROVE  Spec => []ClosedIsQuiet
  BY ImplementsDevice, DeviceClosedIsQuiet, PTL

-----------------------------------------------------------------------------
(* The approving computer.                                                 *)

LEMMA HostStep ==
    ASSUME again \in BOOLEAN, [Next]_vars
    PROVE  [NextHost]_host
<1>1. CASE UNCHANGED vars
  BY <1>1 DEF vars
<1>2. CASE UNCHANGED host
  BY <1>2
<1>3. CASE Director
  BY <1>3 DEF Director, NextHost
<1>4. ASSUME NEW a \in sending, AnswerEnds(a)
      PROVE  NextHost
  BY <1>4 DEF AnswerEnds, NextHost
<1>5. CASE Turned
  BY <1>5 DEF Turned, NextHost
<1>6. ASSUME NEW s \in Sessions, Asks(s)
      PROVE  NextHost
  BY <1>6 DEF Asks, NextHost
<1>7. ASSUME NEW s \in Sessions, IsTold(s) \/ IsRefused(s) \/ Receives(s)
      PROVE  UNCHANGED host
  BY <1>7 DEF IsTold, IsRefused, Receives
<1>8. ASSUME NEW s \in Sessions, Login(s)
      PROVE  NextHost
  <2>1. LogsIn(session[s].secret) /\ session[s].secret = row.secret
    BY <1>8 DEF Login, LogsIn, Opens
  <2> QED
    BY <2>1 DEF NextHost
<1>9. ASSUME NEW a \in sending, NEW s \in Sessions, AnswerArrives(a, s)
      PROVE  UNCHANGED host
  BY <1>9 DEF AnswerArrives
<1> QED
  BY <1>1, <1>2, <1>3, <1>4, <1>5, <1>6, <1>7, <1>8, <1>9 DEF Next

\* What a joining device asks of the approving computer is what Approval says
\* may be asked of it.
THEOREM ImplementsHost ==
    ASSUME Apart
    PROVE  Spec => SpecHost
<1>1. Init => \E known \in BOOLEAN : InitHost(known)
  BY DEF Init
<1>2. TypeOKDevice /\ [Next]_vars => [NextHost]_host
  BY HostStep DEF TypeOKDevice
<1> QED
  BY <1>1, <1>2, ImplementsDevice, DeviceTypeCorrect, PTL DEF Spec, SpecHost

\* A row that stays authorized carries a secret that reached the device, with
\* the device asking, leaving and asking again as approvals overlap.
THEOREM JoinHoldsSecret ==
    ASSUME Apart
    PROVE  Spec => []SecretIsHeld
  BY ImplementsHost, HostHoldsSecret, PTL

\* A device of the camp that pairs again never loses its place by it.
THEOREM JoinKeepsPlace ==
    ASSUME Apart
    PROVE  Spec => []KeepsItsPlace
  BY ImplementsHost, HostKeepsPlace, PTL

-----------------------------------------------------------------------------
(* The sessions.                                                           *)

SessionsOK ==
    /\ session \in [Sessions -> [phase : Phases, decision : {"none", "approved", "denied"},
                                 secret : Secrets]]
    /\ arrived \subseteq Secrets

LEMMA SessionsStep ==
    ASSUME SessionsOK, TypeOKHost, [Next]_vars
    PROVE  SessionsOK'
<1> DEFINE Record == [phase : Phases, decision : {"none", "approved", "denied"},
                      secret : Secrets]
<1>1. CASE UNCHANGED <<session, arrived>>
  BY <1>1 DEF SessionsOK
<1>2. ASSUME NEW s \in Sessions, Asks(s) \/ IsRefused(s)
      PROVE  SessionsOK'
  BY <1>2 DEF SessionsOK, Asks, IsRefused, To, Phases
<1>3. ASSUME NEW s \in Sessions, IsTold(s)
      PROVE  SessionsOK'
  <2>1. row.secret \in Secrets
    BY DEF TypeOKHost, Row
  <2> QED
    BY <1>3, <2>1 DEF SessionsOK, IsTold, Phases
<1>4. ASSUME NEW s \in Sessions, Login(s) \/ Receives(s)
      PROVE  SessionsOK'
  BY <1>4 DEF SessionsOK, Login, Receives, To, Phases
<1>5. ASSUME NEW s \in Sessions, NEW decision \in {"approved", "denied"},
             NEW secret \in Secrets
      PROVE  Decided(s, decision, secret) \in [Sessions -> Record]
  BY DEF SessionsOK, Decided
<1>6. 0 \in Secrets
  BY ApprovalAssumption DEF Secrets
<1>7. ASSUME NEW a \in sending, NEW s \in Sessions, AnswerArrives(a, s)
      PROVE  SessionsOK'
  <2>1. a.secret \in Secrets
    BY DEF TypeOKHost
  <2>2. session' \in [Sessions -> Record]
    BY <1>5, <1>6, <1>7, <2>1 DEF AnswerArrives
  <2> QED
    BY <1>7, <2>1, <2>2 DEF SessionsOK, AnswerArrives
<1>8. CASE Turned
  <2>1. waiting \subseteq Sessions
    BY DEF TypeOKHost
  <2>2. session' = session \/ session' \in [Sessions -> Record]
    BY <1>5, <1>6, <1>8, <2>1 DEF Turned
  <2> QED
    BY <1>8, <2>2 DEF SessionsOK, Turned
<1> QED
  BY <1>1, <1>2, <1>3, <1>4, <1>7, <1>8 DEF Next, vars

\* The rows, nodes, sessions and answers of a join keep their types.
THEOREM TypeCorrect ==
    ASSUME Apart
    PROVE  Spec => []TypeOK
<1>1. Init => SessionsOK
  BY ApprovalAssumption DEF Init, SessionsOK, Fresh, Phases, Secrets
<1>2. SessionsOK /\ TypeOKHost /\ [Next]_vars => SessionsOK'
  BY SessionsStep
<1>3. SessionsOK /\ TypeOKHost /\ TypeOKDevice => TypeOK
  BY DEF SessionsOK, TypeOK
<1> QED
  BY <1>1, <1>2, <1>3, ImplementsHost, ImplementsDevice, HostTypeCorrect, DeviceTypeCorrect,
     PTL DEF Spec

-----------------------------------------------------------------------------
(* Sync comes back.  A device of a camp whose starter has no start behind  *)
(* it is owed one, and somebody is there to give it: a session of pair     *)
(* again (its end starts sync), the joinStart that has just stopped the    *)
(* node, the stop that follows the camp's data; or it is a first join      *)
(* between its login and the data, which is the case the code leaves out.  *)

Tried == starter \in latch \cup up \cup tried

Entering == starter = 1 /\ \E s \in Sessions : session[s].phase = "in"

Owed ==
    \/ Tried
    \/ stuck # {}
    \/ stopping.by = "data"
    \/ call.at = "start" /\ call.again
    \/ active # 0 /\ again
    \/ Entering

StartIsOwed == member /\ quitting.at = "no" => Owed

\* Only a member pairs again, so only a member has a fresh starter.
MembersPairAgain ==
    /\ ~member => starter = 1
    /\ call.at # "idle" /\ call.again => member

\* The screen is open while a call or a session that can be left is there.
ScreenIsOpen ==
    /\ call.at # "idle" => screen
    /\ active # 0 /\ stopping.by = "none" => screen \/ stuck # {}

BackInv == StartIsOwed /\ MembersPairAgain /\ ScreenIsOpen

LEMMA StartTries ==
    ASSUME quitting.at = "no", member, Start(0, member)
    PROVE  starter \in latch' \cup up
  BY DEF Start, Starts

\* A session that entered stays so until the data arrives.
LEMMA PhaseStays ==
    ASSUME SessionsOK, TypeOKHost, [Next]_vars, NEW s \in Sessions, session[s].phase = "in"
    PROVE  session'[s].phase = "in" \/ (active = s /\ Receives(s))
<1>1. \A q \in Sessions, phase \in {"asked", "in", "over"} :
         q # s => To(q, phase)[s].phase = "in"
  BY DEF SessionsOK, To
<1>2. \A q \in Sessions : \A decision, secret : Decided(q, decision, secret)[s].phase = "in"
  BY DEF SessionsOK, Decided
<1>3. ASSUME NEW q \in Sessions, Asks(q) \/ IsTold(q) \/ IsRefused(q)
      PROVE  session'[s].phase = "in"
  <2>1. q # s
    BY <1>3 DEF Asks, IsTold, IsRefused
  <2> QED
    BY <1>1, <1>3, <2>1 DEF SessionsOK, Asks, IsTold, IsRefused
<1>4. ASSUME NEW q \in Sessions, Login(q)
      PROVE  session'[s].phase = "in"
  <2>1. q # s
    BY <1>4 DEF Login
  <2> QED
    BY <1>1, <1>4, <2>1 DEF Login
<1>5. ASSUME NEW q \in Sessions, Receives(q)
      PROVE  session'[s].phase = "in" \/ (active = s /\ Receives(s))
  <2>1. CASE q = s
    BY <1>5, <2>1 DEF Receives, DataArrives
  <2>2. CASE q # s
    BY <1>1, <1>5, <2>2 DEF Receives
  <2> QED
    BY <2>1, <2>2
<1>6. ASSUME NEW a \in sending, NEW q \in Sessions, AnswerArrives(a, q)
      PROVE  session'[s].phase = "in"
  BY <1>2, <1>6 DEF AnswerArrives
<1>7. ASSUME Turned
      PROVE  session'[s].phase = "in"
  BY <1>2, <1>7 DEF Turned, TypeOKHost
<1> QED
  BY <1>3, <1>4, <1>5, <1>6, <1>7 DEF Next, vars

\* A step that only the sessions or the other computer take.
LEMMA OthersOwe ==
    ASSUME SessionsOK, TypeOKHost, BackInv, [Next]_vars, UNCHANGED device
    PROVE  BackInv'
<1>1. Entering => Entering'
  <2>1. ASSUME starter = 1, NEW s \in Sessions, session[s].phase = "in"
        PROVE  Entering'
    <3>1. session'[s].phase = "in"
      <4>1. ~Receives(s)
        BY JoinAssumption, <2>1, LifecycleAssumption
           DEF Receives, DataArrives, device, NotStopping
      <4> QED
        BY <2>1, <4>1, PhaseStays
    <3> QED
      BY <2>1, <3>1 DEF Entering, device
  <2> QED
    BY <2>1 DEF Entering
<1>2. StartIsOwed'
  BY <1>1 DEF BackInv, StartIsOwed, Owed, Tried, device
<1>3. MembersPairAgain' /\ ScreenIsOpen'
  BY DEF BackInv, MembersPairAgain, ScreenIsOpen, device
<1> QED
  BY <1>2, <1>3 DEF BackInv

\* A step of the holder: its starter stays, and what it tried stays tried.
LEMMA HolderOwes ==
    ASSUME DeviceInv, BackInv, UNCHANGED session,
           \/ \E g \in Starters, lands \in BOOLEAN : StartEnds(g, lands)
           \/ Retry \/ Quit \/ QuitSettles \/ QuitStops
    PROVE  BackInv'
<1>1. UNCHANGED <<member, starter, joining>>
  BY DEF StartEnds, Retry, Quit, QuitSettles, QuitStops, holder
<1>2. quitting'.at = "no" => quitting.at = "no" /\ (Tried => Tried')
  <2>1. ASSUME NEW g \in Starters, NEW lands \in BOOLEAN, StartEnds(g, lands)
        PROVE  quitting' = quitting /\ (Tried => Tried')
    BY <2>1 DEF StartEnds, Tried
  <2>2. ASSUME Retry
        PROVE  quitting' = quitting /\ (Tried => Tried')
    BY <2>2 DEF Retry, Start, Tried
  <2>3. ASSUME Quit \/ QuitSettles \/ QuitStops
        PROVE  quitting'.at # "no"
    BY <2>3 DEF DeviceInv, TypeOKDevice, Quit, QuitSettles, QuitStops
  <2> QED
    BY <2>1, <2>2, <2>3
<1>3. StartIsOwed'
  BY <1>1, <1>2 DEF BackInv, StartIsOwed, Owed, Entering, joining
<1>4. MembersPairAgain' /\ ScreenIsOpen'
  BY <1>1 DEF BackInv, MembersPairAgain, ScreenIsOpen, joining
<1> QED
  BY <1>3, <1>4 DEF BackInv

\* A step of joinStart.
LEMMA CallOwes ==
    ASSUME Apart, DeviceInv, BackInv, UNCHANGED session,
           \/ \E pairAgain \in BOOLEAN : JoinStart(pairAgain)
           \/ StopsFirst \/ StopFirstFails \/ StopsSync
           \/ JoinStarts \/ JoinFails \/ SyncStopped(TRUE)
    PROVE  BackInv'
<1>1. ASSUME NEW pairAgain \in BOOLEAN, JoinStart(pairAgain)
      PROVE  BackInv'
  <2>1. StartIsOwed'
    BY <1>1 DEF BackInv, StartIsOwed, Owed, Tried, Entering, JoinStart, Idle, holder
  <2>2. MembersPairAgain' /\ ScreenIsOpen'
    BY <1>1 DEF BackInv, MembersPairAgain, ScreenIsOpen, JoinStart, holder
  <2> QED
    BY <2>1, <2>2 DEF BackInv
<1>2. CASE StopsFirst
  <2>1. stopping.by = "none"
    BY <1>2 DEF DeviceInv, JoinsInOrder, StopsFirst
  <2>2. StartIsOwed'
    <3>1. again /\ member /\ quitting.at = "no" => Tried'
      BY <1>2, StartTries DEF StopsFirst, Ended, Tried
    <3>2. ~again /\ Tried => Tried'
      BY <1>2 DEF StopsFirst, Ended, Tried
    <3>3. ~again /\ Entering => Entering'
      BY <1>2 DEF StopsFirst, Entering
    <3> QED
      BY <1>2, <2>1, <3>1, <3>2, <3>3 DEF BackInv, StartIsOwed, Owed, StopsFirst
  <2>3. MembersPairAgain' /\ ScreenIsOpen'
    BY <1>2 DEF BackInv, DeviceInv, TypeOKDevice, MembersPairAgain, ScreenIsOpen, StopsFirst, Ended
  <2> QED
    BY <2>2, <2>3 DEF BackInv
<1>3. CASE StopFirstFails
  BY <1>3 DEF BackInv, StartIsOwed, Owed, MembersPairAgain, ScreenIsOpen, StopFirstFails,
     Idle, holder
<1>4. CASE StopsSync
  <2>1. StartIsOwed'
    BY <1>4 DEF BackInv, StartIsOwed, Owed, Tried, Entering, StopsSync, holder
  <2>2. MembersPairAgain' /\ ScreenIsOpen'
    BY <1>4 DEF BackInv, DeviceInv, TypeOKDevice, MembersPairAgain, ScreenIsOpen, StopsSync, holder
  <2> QED
    BY <2>1, <2>2 DEF BackInv
<1>5. CASE SyncStopped(TRUE)
  <2>1. call.again /\ call' = [call EXCEPT !.at = "start"]
    BY <1>5 DEF DeviceInv, JoinsInOrder, SyncStopped
  <2>2. call'.at = "start" /\ call'.again
    BY <2>1 DEF DeviceInv, TypeOKDevice
  <2>3. StartIsOwed'
    BY <2>2 DEF StartIsOwed, Owed
  <2>4. MembersPairAgain' /\ ScreenIsOpen'
    BY <1>5, <2>1, <2>2 DEF BackInv, MembersPairAgain, ScreenIsOpen, SyncStopped
  <2> QED
    BY <2>3, <2>4 DEF BackInv
<1>6. CASE JoinStarts
  <2>1. sessions' # 0
    BY <1>6, LifecycleAssumption DEF DeviceInv, TypeOKDevice, JoinStarts
  <2>2. StartIsOwed'
    BY <1>6, <2>1 DEF DeviceInv, JoinsInOrder, BackInv, StartIsOwed, Owed, Tried, Entering,
       JoinStarts, Idle, holder
  <2>3. MembersPairAgain' /\ ScreenIsOpen'
    BY <1>6 DEF BackInv, MembersPairAgain, ScreenIsOpen, JoinStarts, Idle, holder
  <2> QED
    BY <2>2, <2>3 DEF BackInv
<1>7. CASE JoinFails
  <2>1. active = 0 /\ call.at = "start"
    BY <1>7 DEF DeviceInv, JoinsInOrder, JoinFails
  <2>2. StartIsOwed'
    <3>1. call.again /\ member /\ quitting.at = "no" => Tried'
      BY <1>7, <2>1, StartTries DEF JoinFails, Tried
    <3>2. ~call.again /\ Tried => Tried'
      BY <1>7 DEF JoinFails, Tried
    <3>3. ~call.again /\ Entering => Entering'
      BY <1>7 DEF JoinFails, Entering
    <3> QED
      BY <1>7, <2>1, <3>1, <3>2, <3>3 DEF BackInv, StartIsOwed, Owed, JoinFails, Idle
  <2>3. MembersPairAgain' /\ ScreenIsOpen'
    BY <1>7, <2>1 DEF BackInv, MembersPairAgain, ScreenIsOpen, JoinFails, Idle
  <2> QED
    BY <2>2, <2>3 DEF BackInv
<1> QED
  BY <1>1, <1>2, <1>3, <1>4, <1>5, <1>6, <1>7

\* A session is left, cancelled, or its node stopped after the data.
LEMMA SessionOwes ==
    ASSUME Apart, DeviceInv, BackInv, UNCHANGED session,
           \/ Leave
           \/ \E leaves \in BOOLEAN : Cancel(leaves)
           \/ \E ok \in BOOLEAN : Cancelled(ok) \/ DataStopped(ok)
    PROVE  BackInv'
<1>1. CASE Leave
  <2>1. call.at = "idle" /\ active = 0
    BY <1>1 DEF Leave, Apart, Idle
  <2> QED
    BY <1>1, <2>1 DEF BackInv, StartIsOwed, Owed, Tried, Entering, MembersPairAgain,
       ScreenIsOpen, Leave, holder
<1>2. ASSUME NEW leaves \in BOOLEAN, Cancel(leaves)
      PROVE  BackInv'
  <2>1. call.at = "idle" /\ stopping.by = "none" /\ stopping'.by = "cancel"
    BY <1>2 DEF Cancel, Idle, NotStopping
  <2> QED
    BY <1>2, <2>1 DEF BackInv, StartIsOwed, Owed, Tried, Entering, MembersPairAgain,
       ScreenIsOpen, Cancel, holder
<1>3. ASSUME Cancelled(TRUE)
      PROVE  BackInv'
  <2>1. call.at = "idle"
    BY <1>3 DEF DeviceInv, JoinsInOrder, Cancelled
  <2>2. StartIsOwed'
    <3>1. again /\ member /\ quitting.at = "no" => Tried'
      BY <1>3, StartTries DEF Cancelled, Ended, Tried
    <3>2. ~again /\ Tried => Tried'
      BY <1>3 DEF Cancelled, Ended, Tried
    <3>3. ~again /\ Entering => Entering'
      BY <1>3 DEF Cancelled, Entering
    <3> QED
      BY <1>3, <2>1, <3>1, <3>2, <3>3 DEF BackInv, StartIsOwed, Owed, Cancelled
  <2>3. MembersPairAgain' /\ ScreenIsOpen'
    BY <1>3, <2>1 DEF BackInv, MembersPairAgain, ScreenIsOpen, Cancelled, Ended
  <2> QED
    BY <2>2, <2>3 DEF BackInv
<1>4. ASSUME Cancelled(FALSE)
      PROVE  BackInv'
  <2>1. call.at = "idle" /\ stuck' # {}
    BY <1>4 DEF DeviceInv, JoinsInOrder, Cancelled
  <2> QED
    BY <1>4, <2>1 DEF BackInv, StartIsOwed, Owed, MembersPairAgain, ScreenIsOpen, Cancelled
<1>5. ASSUME NEW ok \in BOOLEAN, DataStopped(ok)
      PROVE  BackInv'
  <2>1. ok /\ active = 0 /\ call.at = "idle"
    BY <1>5 DEF DeviceInv, JoinsInOrder, SessionIsAlone, DataStopped, Apart
  <2>2. StartIsOwed'
    BY <1>5, <2>1, StartTries DEF DataStopped, StartIsOwed, Owed, Tried
  <2>3. MembersPairAgain' /\ ScreenIsOpen'
    BY <1>5, <2>1 DEF BackInv, MembersPairAgain, ScreenIsOpen, DataStopped
  <2> QED
    BY <2>2, <2>3 DEF BackInv
<1> QED
  BY <1>1, <1>2, <1>3, <1>4, <1>5

\* The device becomes a member; the camp's data is here.
LEMMA EntryOwes ==
    ASSUME SessionsOK, BackInv, NEW s \in Sessions,
           (Login(s) /\ BecomesMember(s) /\ session' = To(s, "in")) \/ Receives(s)
    PROVE  BackInv'
<1>1. CASE Receives(s)
  <2>1. call.at = "idle" /\ stopping'.by = "data" /\ active' = 0
    BY <1>1 DEF Receives, DataArrives, Idle
  <2> QED
    BY <1>1, <2>1 DEF BackInv, StartIsOwed, Owed, MembersPairAgain, ScreenIsOpen,
       Receives, DataArrives, holder
<1>2. CASE BecomesMember(s) /\ session' = To(s, "in")
  <2>1. session'[s].phase = "in"
    BY <1>2 DEF SessionsOK, To
  <2>2. UNCHANGED <<holder, quitting, joining>> /\ member'
    BY <1>2 DEF BecomesMember
  <2>3. \A q \in Sessions : session[q].phase = "in" => session'[q].phase = "in"
    BY <1>2, <2>1 DEF SessionsOK, To
  <2>4. StartIsOwed'
    <3>1. CASE starter = 1
      BY <2>1, <2>2, <3>1 DEF StartIsOwed, Owed, Entering, holder
    <3>2. CASE starter # 1
      BY <2>2, <3>2 DEF BackInv, StartIsOwed, MembersPairAgain, Owed, Tried, Entering,
         holder, joining
    <3> QED
      BY <3>1, <3>2
  <2>5. MembersPairAgain' /\ ScreenIsOpen'
    BY <2>2 DEF BackInv, MembersPairAgain, ScreenIsOpen, holder, joining
  <2> QED
    BY <2>4, <2>5 DEF BackInv
<1> QED
  BY <1>1, <1>2

LEMMA BackStep ==
    ASSUME Apart, SessionsOK, TypeOKHost, DeviceInv, BackInv, [Next]_vars
    PROVE  BackInv'
<1>1. CASE UNCHANGED device
  BY <1>1, OthersOwe
<1>2. CASE Lifecycle /\ UNCHANGED session
  <2>1. ASSUME NEW ok \in BOOLEAN, SyncStopped(ok)
        PROVE  SyncStopped(TRUE)
    BY <2>1 DEF SyncStopped, Apart
  <2> QED
    BY <1>2, <2>1, HolderOwes, CallOwes, SessionOwes DEF Lifecycle
<1>3. ASSUME NEW s \in Sessions, Login(s), ~UNCHANGED device
      PROVE  BackInv'
  BY <1>3, EntryOwes DEF Login
<1>4. ASSUME NEW s \in Sessions, Receives(s)
      PROVE  BackInv'
  BY <1>4, EntryOwes
<1> QED
  BY <1>1, <1>2, <1>3, <1>4 DEF Next, vars, Turned, Asks, IsTold, IsRefused, AnswerArrives

LEMMA BackInvImplies ==
    ASSUME BackInv
    PROVE  SyncComesBack
<1> SUFFICES ASSUME Quiet, ~screen, member, stuck = {}, quitting.at = "no",
                    starter > 1 \/ \A s \in Sessions : session[s].phase # "in"
             PROVE  starter \in up \cup tried
  BY DEF SyncComesBack
<1>1. call.at = "idle" /\ stopping.by = "none" /\ latch = {}
  BY DEF Quiet, Idle, NotStopping
<1>2. active = 0
  BY <1>1 DEF BackInv, ScreenIsOpen
<1>3. ~Entering
  BY DEF Entering
<1> QED
  BY <1>1, <1>2, <1>3 DEF BackInv, StartIsOwed, Owed, Tried

\* However often a device of a camp joins or pairs again, and however each
\* attempt ends (a mistyped code, a node that does not start, a cancel, the
\* camp's data), once the screen is closed and all is quiet its current starter
\* has a node or a start it knows to have failed (main.js joinStart, joinCancel
\* and joinAwaitData).
THEOREM JoinComesBack ==
    ASSUME Apart
    PROVE  Spec => []SyncComesBack
<1>1. Init => BackInv
  BY DEF Init, InitDevice, BackInv, StartIsOwed, Owed, Tried, MembersPairAgain,
     ScreenIsOpen, Idle, NotStopping
<1>2. SessionsOK /\ TypeOKHost /\ DeviceInv /\ BackInv /\ [Next]_vars => BackInv'
  BY BackStep
<1>3. BackInv => SyncComesBack
  BY BackInvImplies
<1>4. TypeOK => SessionsOK /\ TypeOKHost
  BY DEF TypeOK, SessionsOK
<1> QED
  BY <1>1, <1>2, <1>3, <1>4, TypeCorrect, ImplementsDevice, DeviceInvHolds, PTL DEF Spec
=============================================================================
