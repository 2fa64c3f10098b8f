-------------------------- MODULE HostHandoff_proofs --------------------------
(***************************************************************************)
(* At most one live signing key, for any number of devices, handoffs,      *)
(* overlapping accepts, conversations, restarts and changes of authority.  *)
(*                                                                         *)
(* A second key could only come from a COMMIT, and a COMMIT may be late.   *)
(* So the invariant is about the handoffs that are decided: whose giver    *)
(* has committed, or of which a COMMIT is still on its way.  At most one   *)
(* device has a taker's row for one of them, and no other device is host.  *)
(* It rests on a handoff having one taker, and that on the one OFFER of    *)
(* its id being the first that is ever heard of it.                        *)
(*                                                                         *)
(* The second half is the refinement of KeyCustody, where accepts do not   *)
(* overlap.  A row then says whether its device has the key, a message     *)
(* what is true of its sender's row, and every step is one of eight moves  *)
(* of one device: two of them are the decision and the take-over, and the  *)
(* other six leave custody and what is bequeathed alone.                   *)
(***************************************************************************)
EXTENDS HostHandoff, TLAPS

Exchange == [from : Devices, to : Devices, msg : Msgs,
             stage : {"sent", "verifying", "replied", "lost"},
             reply : Msgs, open : BOOLEAN]

\* A COMMIT of handoff i is on its way, or was.
Says(e, i) == \/ e.msg.type = "COMMIT" /\ e.msg.id = i
              \/ e.reply.type = "COMMIT" /\ e.reply.id = i

Decided(i) ==
    \/ \E g \in Devices : row[g].role = "giver" /\ row[g].id = i /\ row[g].state = "committed"
    \/ \E e \in exchanges : Says(e, i)

Taker(s, i) == row[s].role = "taker" /\ row[s].id = i
DecidedTaker(s) == \E i \in Ids : Taker(s, i) /\ Decided(i)

\* A device whose handoff is decided is the only one, and nobody else is host.
DecidedIsAlone ==
    \A s \in Devices : DecidedTaker(s) =>
        /\ Hosts \subseteq {s}
        /\ \A t \in Devices : DecidedTaker(t) => t = s

OneTaker == \A s, t \in Devices : Taker(s, row[s].id) /\ Taker(t, row[s].id) => s = t

\* An OFFER that has not arrived.
Offers(e) == e.stage = "sent" /\ e.msg.type = "OFFER"

\* Anything else of handoff i than its OFFER and its giver's undecided row.
Heard(i) ==
    \/ \E f \in exchanges : ~Offers(f) /\ i \in {f.msg.id, f.reply.id}
    \/ \E a \in accepting : a.id = i
    \/ \E d \in Devices : row[d].id = i /\ (row[d].role = "taker" \/ row[d].state = "committed")

\* Until its OFFER arrives nothing is heard of a handoff, and it is offered once.
OfferIsFirst ==
    \A e \in exchanges : Offers(e) =>
        /\ e.msg.id \in Ids /\ ~Heard(e.msg.id)
        /\ e.reply = NoMsg
        /\ \A f \in exchanges : Offers(f) /\ f.msg.id = e.msg.id => f = e

\* Ids come from one counter, and only a first message is an OFFER.
IdsAreOld ==
    /\ \A d \in Devices : row[d].id < nextId
    /\ \A a \in accepting : a.id < nextId
    /\ \A e \in exchanges : /\ e.msg.id < nextId /\ e.reply.id < nextId
                            /\ e.reply.type # "OFFER"

Custodial == AtMostOneLiveKey /\ DecidedIsAlone /\ OneTaker

IInv == TypeOK /\ Custodial /\ OfferIsFirst /\ IdsAreOld

-----------------------------------------------------------------------------
(* Types.                                                                  *)

\* The types of what a device keeps in SQLite and of its ephemeral keys.
DeviceTypes ==
    /\ row \in [Devices -> Rows \cup {NoRow}]
    /\ live \in [Devices -> BOOLEAN]
    /\ pending \in [Devices -> [id : 0..MaxHandoffs, rows : SUBSET Answers]]
    /\ rows \in [Devices -> SUBSET Answers]
    /\ eph \in [Devices -> [Ids -> 0..MaxAccepts]]

LEMMA TypeParts ==
    TypeOK <=> /\ DeviceTypes
               /\ accepting \subseteq [dev : Devices, id : Ids, peer : Devices, eph : Nonces]
               /\ exchanges \subseteq Exchange
               /\ admins \in [Devices -> SUBSET Devices]
               /\ nextId \in 1..(MaxHandoffs + 1) /\ nextEph \in 1..(MaxAccepts + 1)
               /\ restarts \in 0..MaxRestarts /\ changes \in 0..MaxChanges
BY DEF TypeOK, DeviceTypes, Exchange

LEMMA NewMsg ==
    ASSUME NEW i \in 0..MaxHandoffs,
           NEW t \in {"none", "OFFER", "ACCEPT", "KEY", "STORED", "COMMIT", "DONE",
                      "STATUS", "NOT_COMMITTED", "ACK", "ERROR"}
    PROVE  Msg(t, i) \in Msgs /\ Msg(t, i).type = t /\ Msg(t, i).id = i
<1>1. 0 \in 0..MaxAccepts
  BY BoundAssumption
<1> QED
  BY <1>1 DEF Msg, Msgs

LEMMA NoMsgType == NoMsg \in Msgs /\ NoMsg.type = "none" /\ NoMsg.id = 0
<1>1. 0 \in 0..MaxHandoffs
  BY BoundAssumption
<1> QED
  BY <1>1, NewMsg DEF NoMsg

LEMMA NewRequest ==
    ASSUME NEW d \in Devices, NEW p \in Devices, NEW m \in Msgs
    PROVE  /\ Request(d, p, m) \in Exchange
           /\ Request(d, p, m).msg = m /\ Request(d, p, m).reply = NoMsg
           /\ Request(d, p, m).stage = "sent"
BY NoMsgType DEF Request, Exchange

\* The rows of one device change: another's stay.
LEMMA SetStateType ==
    ASSUME NEW d \in Devices, NEW s \in States, row \in [Devices -> Rows \cup {NoRow}],
           SetState(d, s)
    PROVE  /\ row' \in [Devices -> Rows \cup {NoRow}]
           /\ \A c \in Devices : /\ row'[c].role = row[c].role /\ row'[c].id = row[c].id
                                 /\ row'[c].peer = row[c].peer
                                 /\ row'[c].state = row[c].state \/ (c = d /\ row'[c].state = s)
<1>1. row[d] \in Rows \/ row[d] = NoRow
  OBVIOUS
<1>2. CASE row[d] = NoRow
  <2>1. row' = row
    BY <1>2 DEF SetState, NoRow
  <2> QED
    BY <2>1
<1>3. CASE row[d] \in Rows
  <2>1. row[d] # NoRow
    BY <1>3 DEF Rows, NoRow
  <2>2. row' = [row EXCEPT ![d] = [row[d] EXCEPT !.state = s]]
    BY <2>1 DEF SetState
  <2>3. [row[d] EXCEPT !.state = s] \in Rows
    BY <1>3 DEF Rows
  <2> QED
    BY <1>3, <2>2, <2>3 DEF Rows
<1> QED
  BY <1>1, <1>2, <1>3

LEMMA ClearRowType ==
    ASSUME NEW d \in Devices, row \in [Devices -> Rows \cup {NoRow}], ClearRow(d)
    PROVE  /\ row' \in [Devices -> Rows \cup {NoRow}]
           /\ \A c \in Devices : row'[c] = row[c] \/ row'[c] = NoRow
BY DEF ClearRow

LEMMA ForgetType ==
    ASSUME NEW d \in Devices, NEW i, eph \in [Devices -> [Ids -> 0..MaxAccepts]], Forget(d, i)
    PROVE  eph' \in [Devices -> [Ids -> 0..MaxAccepts]]
<1>1. 0 \in 0..MaxAccepts
  BY BoundAssumption
<1> QED
  BY <1>1 DEF Forget

-----------------------------------------------------------------------------
(* Handlers.                                                               *)

\* The steps that decide nothing: a row is kept, cleared, or goes on in a
\* state that is no commitment.
RowsAreTame ==
    \A c \in Devices :
        \/ row'[c] = NoRow
        \/ /\ row'[c].role = row[c].role /\ row'[c].id = row[c].id
           /\ row'[c].state = "committed" => row[c].state = "committed"

LEMMA UnchangedIsTame ==
    ASSUME UNCHANGED row PROVE RowsAreTame
BY DEF RowsAreTame

LEMMA ClearIsTame ==
    ASSUME NEW d \in Devices, DeviceTypes, ClearRow(d) PROVE RowsAreTame
BY ClearRowType DEF RowsAreTame, DeviceTypes

LEMMA SetIsTame ==
    ASSUME NEW d \in Devices, DeviceTypes, NEW s \in States \ {"committed"}, SetState(d, s)
    PROVE  RowsAreTame
BY SetStateType DEF RowsAreTame, DeviceTypes

LEMMA ExpireTypes ==
    ASSUME NEW d \in Devices, DeviceTypes, Expire(d)
    PROVE  DeviceTypes' /\ live' = live /\ RowsAreTame
<1>1. ClearRow(d) /\ UNCHANGED <<live, pending, rows>>
  BY DEF Expire
<1>2. eph' \in [Devices -> [Ids -> 0..MaxAccepts]]
  BY ForgetType DEF Expire, DeviceTypes
<1> QED
  BY <1>1, <1>2, ClearRowType, ClearIsTame DEF DeviceTypes

LEMMA AbandonTypes ==
    ASSUME NEW d \in Devices, NEW i, DeviceTypes, Abandon(d, i)
    PROVE  DeviceTypes' /\ live' = live /\ RowsAreTame
<1>1. CASE UNCHANGED deviceVars
  BY <1>1, UnchangedIsTame DEF deviceVars, DeviceTypes
<1>2. CASE ~UNCHANGED deviceVars
  <2>1. ClearRow(d) /\ UNCHANGED <<live, pending, rows>>
    BY <1>2 DEF Abandon
  <2>2. eph' \in [Devices -> [Ids -> 0..MaxAccepts]]
    BY <1>2, ForgetType DEF Abandon, DeviceTypes
  <2> QED
    BY <2>1, <2>2, ClearRowType, ClearIsTame DEF DeviceTypes
<1> QED
  BY <1>1, <1>2

\* A message that is handled is typed, and an OFFER has an id.
Handled(m) == m \in Msgs /\ (m.type = "OFFER" => m.id \in Ids)

LEMMA OfferTypes ==
    ASSUME NEW d \in Devices, NEW p \in Devices, NEW m \in Msgs, m.id \in Ids,
           DeviceTypes, OnOffer(d, p, m)
    PROVE  /\ DeviceTypes' /\ live' = live
           /\ \/ row' = row
              \/ row' = [row EXCEPT ![d] = [id |-> m.id, role |-> "taker", peer |-> p,
                                            state |-> "offered"]]
<1>1. CASE UNCHANGED deviceVars
  BY <1>1 DEF deviceVars, DeviceTypes
<1>2. CASE ~UNCHANGED deviceVars
  <2>1. /\ row' = [row EXCEPT ![d] = [id |-> m.id, role |-> "taker", peer |-> p,
                                      state |-> "offered"]]
        /\ UNCHANGED eph \/ Forget(d, row[d].id)
        /\ UNCHANGED <<live, pending, rows>>
    BY <1>2 DEF OnOffer
  <2>2. [id |-> m.id, role |-> "taker", peer |-> p, state |-> "offered"] \in Rows
    BY DEF Rows, States
  <2>3. eph' \in [Devices -> [Ids -> 0..MaxAccepts]]
    BY <2>1, ForgetType DEF DeviceTypes
  <2> QED
    BY <2>1, <2>2, <2>3 DEF DeviceTypes
<1> QED
  BY <1>1, <1>2

LEMMA KeyTypes ==
    ASSUME NEW d \in Devices, NEW p \in Devices, NEW m \in Msgs, DeviceTypes, OnKey(d, p, m)
    PROVE  DeviceTypes' /\ live' = live /\ RowsAreTame
<1>1. CASE UNCHANGED deviceVars
  BY <1>1, UnchangedIsTame DEF deviceVars, DeviceTypes
<1>2. CASE ~UNCHANGED deviceVars
  <2>1. /\ pending' = [pending EXCEPT ![d] = [id |-> m.id, rows |-> m.rows]]
        /\ SetState(d, "stored") /\ Forget(d, m.id) /\ UNCHANGED <<live, rows>>
    BY <1>2 DEF OnKey
  <2>2. pending' \in [Devices -> [id : 0..MaxHandoffs, rows : SUBSET Answers]]
    BY <2>1 DEF DeviceTypes, Msgs
  <2>3. "stored" \in States \ {"committed"}
    BY DEF States
  <2> QED
    BY <2>1, <2>2, <2>3, SetStateType, SetIsTame, ForgetType DEF DeviceTypes
<1> QED
  BY <1>1, <1>2

LEMMA StoredTypes ==
    ASSUME NEW d \in Devices, NEW p \in Devices, NEW m \in Msgs, DeviceTypes, OnStored(d, p, m)
    PROVE  /\ DeviceTypes'
           /\ \/ UNCHANGED deviceVars
              \/ /\ live' = [live EXCEPT ![d] = FALSE]
                 /\ SetState(d, "committed")
<1>1. CASE UNCHANGED deviceVars
  BY <1>1 DEF deviceVars, DeviceTypes
<1>2. CASE ~UNCHANGED deviceVars
  <2>1. /\ live' = [live EXCEPT ![d] = FALSE] /\ rows' = [rows EXCEPT ![d] = {}]
        /\ SetState(d, "committed") /\ UNCHANGED <<pending, eph>>
    BY <1>2 DEF OnStored
  <2>2. "committed" \in States
    BY DEF States
  <2> QED
    BY <2>1, <2>2, SetStateType DEF DeviceTypes
<1> QED
  BY <1>1, <1>2

LEMMA CommitTypes ==
    ASSUME NEW d \in Devices, NEW p \in Devices, NEW m \in Msgs, DeviceTypes, OnCommit(d, p, m)
    PROVE  /\ DeviceTypes' /\ RowsAreTame
           /\ live' = live \/ (row[d].state # "done" /\ live' = [live EXCEPT ![d] = TRUE])
<1>1. CASE row[d].state = "done"
  BY <1>1, UnchangedIsTame DEF OnCommit, deviceVars, DeviceTypes
<1>2. CASE row[d].state # "done"
  <2>1. /\ live' = [live EXCEPT ![d] = TRUE] /\ rows' = [rows EXCEPT ![d] = pending[d].rows]
        /\ pending' = [pending EXCEPT ![d] = NoPending]
        /\ SetState(d, "done") /\ UNCHANGED eph
    BY <1>2 DEF OnCommit
  <2>2. "done" \in States \ {"committed"}
    BY DEF States
  <2>3. NoPending \in [id : 0..MaxHandoffs, rows : SUBSET Answers]
    BY BoundAssumption DEF NoPending
  <2>4. rows' \in [Devices -> SUBSET Answers]
    BY <2>1 DEF DeviceTypes
  <2> QED
    BY <1>2, <2>1, <2>2, <2>3, <2>4, SetStateType, SetIsTame DEF DeviceTypes
<1> QED
  BY <1>1, <1>2

LEMMA EndTypes ==
    ASSUME NEW d \in Devices, NEW p \in Devices, NEW m \in Msgs, DeviceTypes,
           OnDone(d, p, m) \/ OnStatus(d, p, m) \/ OnNotCommitted(d, p, m)
    PROVE  DeviceTypes' /\ live' = live /\ RowsAreTame
<1>1. CASE OnDone(d, p, m)
  <2>1. ClearRow(d) \/ UNCHANGED row
    BY <1>1 DEF OnDone
  <2>2. UNCHANGED <<live, pending, rows, eph>>
    BY <1>1 DEF OnDone
  <2> QED
    BY <2>1, <2>2, ClearRowType, ClearIsTame, UnchangedIsTame DEF DeviceTypes
<1>2. CASE OnStatus(d, p, m)
  <2>1. CASE ClearRow(d) /\ UNCHANGED <<live, pending, rows, eph>>
    BY <2>1, ClearRowType, ClearIsTame DEF DeviceTypes
  <2>2. CASE UNCHANGED deviceVars
    BY <2>2, UnchangedIsTame DEF deviceVars, DeviceTypes
  <2>3. CASE Expire(d)
    BY <2>3, ExpireTypes
  <2> QED
    BY <1>2, <2>1, <2>2, <2>3 DEF OnStatus
<1>3. CASE OnNotCommitted(d, p, m)
  <2>1. CASE UNCHANGED deviceVars
    BY <2>1, UnchangedIsTame DEF deviceVars, DeviceTypes
  <2>2. CASE ~UNCHANGED deviceVars
    <3>1. /\ pending' = [pending EXCEPT ![d] = NoPending]
          /\ ClearRow(d) /\ Forget(d, m.id) /\ UNCHANGED <<live, rows>>
      BY <1>3, <2>2 DEF OnNotCommitted
    <3>2. NoPending \in [id : 0..MaxHandoffs, rows : SUBSET Answers]
      BY BoundAssumption DEF NoPending
    <3>3. pending' \in [Devices -> [id : 0..MaxHandoffs, rows : SUBSET Answers]]
      BY <3>1, <3>2 DEF DeviceTypes
    <3> QED
      BY <3>1, <3>3, ClearRowType, ClearIsTame, ForgetType DEF DeviceTypes
  <2> QED
    BY <2>1, <2>2
<1> QED
  BY <1>1, <1>2, <1>3

\* Whatever is handled keeps the types; only three messages do more than
\* keep, clear or advance a row.
LEMMA EffectTypes ==
    ASSUME NEW d \in Devices, NEW p \in Devices, NEW m, Handled(m), DeviceTypes, Effect(d, p, m)
    PROVE  /\ DeviceTypes'
           /\ m.type \notin {"OFFER", "STORED", "COMMIT"} => live' = live /\ RowsAreTame
           /\ m.type = "OFFER" => OnOffer(d, p, m)
           /\ m.type = "STORED" => OnStored(d, p, m)
           /\ m.type = "COMMIT" => OnCommit(d, p, m)
<1>1. m \in Msgs
  BY DEF Handled
<1>2. CASE m.type = "OFFER"
  BY <1>1, <1>2, OfferTypes DEF Effect, Handled
<1>3. CASE m.type = "KEY"
  BY <1>1, <1>3, KeyTypes DEF Effect
<1>4. CASE m.type = "STORED"
  BY <1>1, <1>4, StoredTypes DEF Effect
<1>5. CASE m.type = "COMMIT"
  BY <1>1, <1>5, CommitTypes DEF Effect
<1>6. CASE m.type \in {"DONE", "STATUS", "NOT_COMMITTED"}
  BY <1>1, <1>6, EndTypes DEF Effect
<1>7. CASE m.type = "ERROR"
  BY <1>1, <1>7, AbandonTypes DEF Effect
<1>8. CASE m.type \notin {"OFFER", "KEY", "STORED", "COMMIT", "DONE", "STATUS",
                          "NOT_COMMITTED", "ERROR"}
  BY <1>1, <1>8, UnchangedIsTame DEF Effect, deviceVars, DeviceTypes
<1> QED
  BY <1>2, <1>3, <1>4, <1>5, <1>6, <1>7, <1>8

\* What is answered is of the same handoff, is never an OFFER, and is a COMMIT
\* only to STORED or by a giver that has committed.
LEMMA AnswerTypes ==
    ASSUME NEW d \in Devices, NEW p \in Devices, NEW m \in Msgs
    PROVE  /\ Answer(d, p, m) \in Msgs /\ Answer(d, p, m).id = m.id
           /\ Answer(d, p, m).type # "OFFER"
           /\ Answer(d, p, m).type = "COMMIT" => m.type = "STORED" \/ HasCommitted(d, p, m.id)
<1>1. m.id \in 0..MaxHandoffs
  BY DEF Msgs
<1>2. CASE m.type = "KEY"
  BY <1>1, <1>2, NewMsg DEF Answer
<1>3. CASE m.type = "STORED"
  BY <1>1, <1>3, NewMsg DEF Answer
<1>4. CASE m.type = "COMMIT"
  BY <1>1, <1>4, NewMsg DEF Answer
<1>5. CASE m.type = "STATUS" /\ HasCommitted(d, p, m.id)
  BY <1>1, <1>5, NewMsg DEF Answer
<1>6. CASE m.type = "STATUS" /\ ~HasCommitted(d, p, m.id)
  BY <1>1, <1>6, NewMsg DEF Answer
<1>7. CASE m.type \notin {"KEY", "STORED", "COMMIT", "STATUS"}
  BY <1>1, <1>7, NewMsg DEF Answer
<1> QED
  BY <1>2, <1>3, <1>4, <1>5, <1>6, <1>7

-----------------------------------------------------------------------------
(* Custody: what a step may do to the decided handoffs.                    *)

\* No COMMIT goes out of a handoff that was not decided.
NothingDecided ==
    \A e \in exchanges' : \A i \in Ids : Says(e, i) => Decided(i)

\* With tame rows and no new COMMIT a taker that is decided was so before.
LEMMA TameTakers ==
    ASSUME DeviceTypes, DeviceTypes', RowsAreTame, NothingDecided
    PROVE  /\ \A i \in Ids : Decided(i)' => Decided(i)
           /\ \A s \in Devices : DecidedTaker(s)' => DecidedTaker(s)
           /\ OneTaker => OneTaker'
<1>1. \A c \in Devices : row'[c].role # "none" =>
        /\ row'[c] \in Rows
        /\ row'[c].role = row[c].role /\ row'[c].id = row[c].id
        /\ row'[c].state = "committed" => row[c].state = "committed"
  BY DEF RowsAreTame, DeviceTypes, NoRow
<1>2. \A i \in Ids : Decided(i)' => Decided(i)
  BY <1>1 DEF Decided, NothingDecided
<1>3. \A s \in Devices : DecidedTaker(s)' => DecidedTaker(s)
  BY <1>1, <1>2 DEF DecidedTaker, Taker
<1>4. OneTaker => OneTaker'
  BY <1>1 DEF OneTaker, Taker
<1> QED
  BY <1>2, <1>3, <1>4

LEMMA TameStep ==
    ASSUME DeviceTypes, DeviceTypes', Custodial, RowsAreTame, NothingDecided, live' = live
    PROVE  Custodial'
BY TameTakers DEF Custodial, AtMostOneLiveKey, Hosts, DecidedIsAlone

\* The giver commits: it was the only host, so nobody was decided, and of its
\* handoff there is one taker.
LEMMA Decision ==
    ASSUME NEW d \in Devices, DeviceTypes, DeviceTypes', Custodial,
           live[d], live' = [live EXCEPT ![d] = FALSE],
           row[d].role = "giver", SetState(d, "committed"),
           \A e \in exchanges' : \A i \in Ids : Says(e, i) => Decided(i) \/ i = row[d].id
    PROVE  Custodial'
<1>1. Hosts = {d} /\ Hosts' = {}
  BY DEF Custodial, AtMostOneLiveKey, Hosts, DeviceTypes
<1>2. \A s \in Devices : ~DecidedTaker(s)
  <2>1. \A s \in Devices : DecidedTaker(s) => s = d
    BY <1>1 DEF Custodial, DecidedIsAlone
  <2>2. ~DecidedTaker(d)
    BY DEF DecidedTaker, Taker
  <2> QED
    BY <2>1, <2>2
<1>3. \A c \in Devices : /\ row'[c].role = row[c].role /\ row'[c].id = row[c].id
                         /\ row'[c].state = row[c].state \/ c = d
  <2>1. "committed" \in States
    BY DEF States
  <2> QED
    BY <2>1, SetStateType DEF DeviceTypes
<1>4. OneTaker'
  BY <1>3 DEF Custodial, OneTaker, Taker
<1>5. \A i \in Ids : Decided(i)' => Decided(i) \/ i = row[d].id
  BY <1>3 DEF Decided
<1>6. \A s \in Devices : DecidedTaker(s)' => Taker(s, row[d].id)
  BY <1>2, <1>3, <1>5 DEF DecidedTaker, Taker
<1>7. DecidedIsAlone'
  BY <1>1, <1>6 DEF DecidedIsAlone, Custodial, OneTaker, Taker
<1> QED
  BY <1>1, <1>4, <1>7 DEF Custodial, AtMostOneLiveKey

\* The taker of a decided handoff becomes host: nobody else was.
LEMMA Activation ==
    ASSUME NEW d \in Devices, DeviceTypes, DeviceTypes', Custodial, RowsAreTame,
           NothingDecided, DecidedTaker(d), live' = [live EXCEPT ![d] = TRUE]
    PROVE  Custodial'
<1>1. Hosts \subseteq {d} /\ \A t \in Devices : DecidedTaker(t) => t = d
  BY DEF Custodial, DecidedIsAlone
<1>2. Hosts' = {d}
  BY <1>1 DEF Hosts, DeviceTypes
<1> QED
  BY <1>1, <1>2, TameTakers DEF Custodial, AtMostOneLiveKey, DecidedIsAlone

\* A device becomes the taker of a handoff nobody has heard of.
LEMMA Taking ==
    ASSUME NEW d \in Devices, NEW r \in Rows, DeviceTypes, DeviceTypes', Custodial,
           row' = [row EXCEPT ![d] = r], r.state = "offered", live' = live,
           NothingDecided,
           r.role = "taker" => ~Decided(r.id) /\ \A s \in Devices : ~Taker(s, r.id)
    PROVE  Custodial'
<1>1. \A c \in Devices : c # d => row'[c] = row[c]
  BY DEF DeviceTypes
<1>2. row'[d] = r /\ r.id \in Ids
  BY DEF DeviceTypes, Rows
<1>3. \A i \in Ids : Decided(i)' => Decided(i)
  BY <1>1, <1>2 DEF Decided, NothingDecided
<1>4. OneTaker'
  BY <1>1, <1>2 DEF Custodial, OneTaker, Taker
<1>5. \A s \in Devices : DecidedTaker(s)' => s # d /\ DecidedTaker(s)
  BY <1>1, <1>2, <1>3 DEF DecidedTaker, Taker
<1> QED
  BY <1>4, <1>5 DEF Custodial, AtMostOneLiveKey, Hosts, DecidedIsAlone

LEMMA DecidedIsHeard ==
    ASSUME OfferIsFirst, NEW i \in Ids, Decided(i)
    PROVE  Heard(i)
<1>1. CASE \E g \in Devices : row[g].id = i /\ row[g].state = "committed"
  BY <1>1 DEF Heard
<1>2. ASSUME NEW e \in exchanges, Says(e, i) PROVE Heard(i)
  <2>1. ~Offers(e)
    BY <1>2 DEF OfferIsFirst, Offers, Says, NoMsg, Msg
  <2> QED
    BY <1>2, <2>1 DEF Heard, Says
<1> QED
  BY <1>1, <1>2 DEF Decided

\* A message handled, as a request or as a reply, and its answer sent.
LEMMA HandlingKeepsCustody ==
    ASSUME NEW d \in Devices, NEW p \in Devices, NEW m, Handled(m), IInv,
           Takes(d, p, m), Effect(d, p, m),
           m.type = "COMMIT" => Decided(m.id),
           m.type = "OFFER" => ~Heard(m.id),
           \A x \in exchanges' : \A i \in Ids :
              Says(x, i) => \/ Decided(i)
                            \/ Answer(d, p, m).type = "COMMIT" /\ i = m.id
    PROVE  Custodial'
<1>1. DeviceTypes /\ DeviceTypes' /\ m \in Msgs /\ Custodial
  BY TypeParts, EffectTypes DEF IInv, Handled
<1>2. HasCommitted(d, p, m.id) => Decided(m.id)
  BY DEF HasCommitted, GaveTo, Decided
<1>3. m.type # "STORED" => NothingDecided
  BY <1>1, <1>2, AnswerTypes DEF NothingDecided
<1>4. CASE m.type \notin {"OFFER", "STORED", "COMMIT"}
  BY <1>1, <1>3, <1>4, EffectTypes, TameStep
<1>5. CASE m.type = "OFFER"
  <2>1. m.id \in Ids /\ OnOffer(d, p, m)
    BY <1>1, <1>5, EffectTypes DEF Handled
  <2>2. live' = live
    BY <1>1, <2>1, OfferTypes
  <2>3. CASE row' = row
    BY <1>1, <1>3, <1>5, <2>2, <2>3, UnchangedIsTame, TameStep
  <2>4. CASE row' = [row EXCEPT ![d] = [id |-> m.id, role |-> "taker", peer |-> p,
                                        state |-> "offered"]]
    <3>1. [id |-> m.id, role |-> "taker", peer |-> p, state |-> "offered"] \in Rows
      BY <2>1 DEF Rows, States
    <3>2. ~Decided(m.id)
      BY <1>5, <2>1, DecidedIsHeard DEF IInv
    <3>3. \A s \in Devices : ~Taker(s, m.id)
      BY <1>5 DEF Taker, Heard
    <3> QED
      BY <1>1, <1>3, <1>5, <2>2, <2>4, <3>1, <3>2, <3>3, Taking
  <2> QED
    BY <1>1, <2>1, <2>3, <2>4, OfferTypes
<1>6. CASE m.type = "STORED"
  <2>1. /\ OnStored(d, p, m) /\ row[d].role = "giver" /\ row[d].id = m.id
        /\ row[d].state = "committed" \/ live[d]
    BY <1>1, <1>6, EffectTypes DEF Takes, TakesStored, Party
  <2>2. CASE row[d].state = "committed"
    <3>1. Decided(m.id) /\ UNCHANGED deviceVars
      BY <2>1, <2>2 DEF Decided, OnStored
    <3>2. NothingDecided /\ live' = live /\ row' = row
      BY <3>1 DEF NothingDecided, deviceVars
    <3> QED
      BY <1>1, <3>2, UnchangedIsTame, TameStep
  <2>3. CASE row[d].state # "committed"
    <3>1. live' = [live EXCEPT ![d] = FALSE] /\ SetState(d, "committed") /\ live[d]
      BY <2>1, <2>3 DEF OnStored
    <3> QED
      BY <1>1, <2>1, <3>1, Decision
  <2> QED
    BY <2>2, <2>3
<1>7. CASE m.type = "COMMIT"
  <2>1. OnCommit(d, p, m) /\ row[d].role = "taker" /\ row[d].id = m.id
    BY <1>1, <1>7, EffectTypes DEF Takes, TakesCommit, Activates, Party
  <2>2. m.id \in Ids
    BY <1>1, <2>1 DEF DeviceTypes, Rows, NoRow
  <2>3. DecidedTaker(d)
    BY <1>7, <2>1, <2>2 DEF DecidedTaker, Taker
  <2>4. RowsAreTame /\ (live' = live \/ live' = [live EXCEPT ![d] = TRUE])
    BY <1>1, <2>1, CommitTypes
  <2> QED
    BY <1>1, <1>3, <1>7, <2>3, <2>4, TameStep, Activation
<1> QED
  BY <1>4, <1>5, <1>6, <1>7

-----------------------------------------------------------------------------
(* Offers: what a step may do to what is heard of a handoff.               *)

\* The rows after the step are of handoffs heard of before, or of these.
RowsOf(S) ==
    \A d \in Devices : \/ row'[d].id = 0
                       \/ /\ row'[d].id < nextId
                          /\ row'[d].role = "taker" \/ row'[d].state = "committed"
                             => Heard(row'[d].id) \/ row'[d].id \in S

LEMMA TameRowsOf ==
    ASSUME RowsAreTame, IdsAreOld PROVE \A S : RowsOf(S)
BY DEF RowsAreTame, RowsOf, IdsAreOld, Heard, NoRow

\* A step that adds messages and accepts of handoffs heard of, and no OFFER.
LEMMA OffersKept ==
    ASSUME IInv, nextId' = nextId, RowsOf({}),
           \A a \in accepting' : Heard(a.id) /\ a.id < nextId,
           \A x \in exchanges' \ exchanges :
              /\ ~Offers(x) /\ x.reply.type # "OFFER"
              /\ x.msg.id < nextId /\ x.reply.id < nextId
              /\ x.msg.id \in Ids => Heard(x.msg.id)
              /\ x.reply.id \in Ids => Heard(x.reply.id)
    PROVE  OfferIsFirst' /\ IdsAreOld'
<1>1. 0 < nextId /\ 0 \notin Ids
  BY DEF IInv, TypeOK, Ids
<1>2. IdsAreOld'
  BY <1>1 DEF IInv, IdsAreOld, RowsOf
<1>3. \A i \in Ids : Heard(i)' => Heard(i)
  BY <1>1 DEF Heard, RowsOf
<1>4. OfferIsFirst'
  BY <1>3 DEF IInv, OfferIsFirst
<1> QED
  BY <1>2, <1>4

\* An OFFER arrives: nothing else was heard of it, and it is gone.
LEMMA OfferArrives ==
    ASSUME IInv, NEW e \in exchanges, Offers(e), NEW x,
           exchanges' \subseteq (exchanges \ {e}) \cup {x},
           nextId' = nextId, accepting' = accepting, RowsOf({e.msg.id}),
           x.msg = e.msg, x.stage = "replied", x.reply.id = e.msg.id, x.reply.type # "OFFER"
    PROVE  OfferIsFirst' /\ IdsAreOld'
<1>1. 0 < nextId /\ 0 \notin Ids
  BY DEF IInv, TypeOK, Ids
<1>2. IdsAreOld'
  BY <1>1 DEF IInv, IdsAreOld, RowsOf
<1>3. ~Offers(x)
  BY DEF Offers
<1>4. \A i \in Ids : Heard(i)' => Heard(i) \/ i = e.msg.id
  BY <1>1, <1>3 DEF Heard, RowsOf
<1>5. OfferIsFirst'
  BY <1>3, <1>4 DEF IInv, OfferIsFirst
<1> QED
  BY <1>2, <1>5

\* An OFFER still on its way after its sender gave up.
LEMMA OfferGoesOn ==
    ASSUME IInv, NEW e \in exchanges, Offers(e), NEW x,
           exchanges' \subseteq (exchanges \ {e}) \cup {x},
           nextId' = nextId, accepting' = accepting, RowsOf({}),
           x.msg = e.msg, x.stage = "sent", x.reply = e.reply
    PROVE  OfferIsFirst' /\ IdsAreOld'
<1>1. 0 < nextId /\ 0 \notin Ids
  BY DEF IInv, TypeOK, Ids
<1>2. IdsAreOld'
  BY <1>1 DEF IInv, IdsAreOld, RowsOf
<1>3. Offers(x)
  BY DEF Offers
<1>4. \A i \in Ids : Heard(i)' => Heard(i)
  BY <1>1, <1>3 DEF Heard, RowsOf
<1>5. OfferIsFirst'
  BY <1>3, <1>4 DEF IInv, OfferIsFirst
<1> QED
  BY <1>2, <1>5

LEMMA HandlingRows ==
    ASSUME NEW d \in Devices, NEW p \in Devices, NEW m, Handled(m), IInv,
           Takes(d, p, m), Effect(d, p, m), m.id < nextId,
           m.type # "OFFER" => Heard(m.id)
    PROVE  RowsOf(IF m.type = "OFFER" THEN {m.id} ELSE {})
<1>1. DeviceTypes /\ m \in Msgs /\ IdsAreOld
  BY TypeParts DEF IInv, Handled
<1>2. CASE m.type \notin {"OFFER", "STORED"}
  <2>1. RowsAreTame
    BY <1>1, <1>2, EffectTypes, CommitTypes
  <2> QED
    BY <1>1, <2>1, TameRowsOf
<1>3. CASE m.type = "OFFER"
  <2>1. m.id \in Ids /\ OnOffer(d, p, m)
    BY <1>1, <1>3, EffectTypes DEF Handled
  <2>2. \A c \in Devices : row'[c] = row[c] \/ row'[c].id = m.id
    <3> DEFINE r == [id |-> m.id, role |-> "taker", peer |-> p, state |-> "offered"]
    <3>1. row' = row \/ row' = [row EXCEPT ![d] = r]
      BY <1>1, <2>1, OfferTypes
    <3>2. r.id = m.id
      OBVIOUS
    <3> HIDE DEF r
    <3> QED
      BY <1>1, <3>1, <3>2 DEF DeviceTypes
  <2> QED
    BY <1>1, <1>3, <2>2 DEF RowsOf, IdsAreOld, Heard
<1>4. CASE m.type = "STORED"
  <2>1. OnStored(d, p, m) /\ row[d].id = m.id
    BY <1>1, <1>4, EffectTypes DEF Takes, TakesStored, Party
  <2>2. CASE UNCHANGED deviceVars
    <3>1. RowsAreTame
      BY <2>2, UnchangedIsTame DEF deviceVars
    <3> QED
      BY <1>1, <3>1, TameRowsOf
  <2>3. CASE SetState(d, "committed")
    <3>1. "committed" \in States
      BY DEF States
    <3>2. \A c \in Devices : /\ row'[c].id = row[c].id /\ row'[c].role = row[c].role
                             /\ row'[c].state = row[c].state \/ c = d
      BY <1>1, <2>3, <3>1, SetStateType DEF DeviceTypes
    <3> QED
      BY <1>1, <1>4, <2>1, <3>2 DEF RowsOf, IdsAreOld, Heard
  <2> QED
    BY <1>1, <2>1, <2>2, <2>3, StoredTypes
<1> QED
  BY <1>2, <1>3, <1>4

-----------------------------------------------------------------------------
(* The actions.                                                            *)

LEMMA InitInv ==
    ASSUME Init PROVE IInv
<1>1. TypeOK
  BY DeviceAssumption, BoundAssumption
  DEF Init, TypeOK, Ids, Nonces, Rows, NoRow, NoPending
<1>2. Custodial
  BY DEF Init, Custodial, AtMostOneLiveKey, Hosts, DecidedIsAlone, DecidedTaker, OneTaker,
         Taker, NoRow
<1>3. OfferIsFirst /\ IdsAreOld
  BY DEF Init, OfferIsFirst, IdsAreOld, NoRow
<1> QED
  BY <1>1, <1>2, <1>3 DEF IInv

LEMMA Typed ==
    ASSUME TypeOK, DeviceTypes', exchanges' \subseteq Exchange, UNCHANGED wireOnly
    PROVE  TypeOK'
BY DEF TypeOK, DeviceTypes, Exchange, wireOnly, countVars, Nonces

LEMMA Replacing ==
    ASSUME TypeOK, NEW e \in exchanges, NEW S \in SUBSET Exchange, Replace(e, S)
    PROVE  exchanges' \subseteq (exchanges \ {e}) \cup S /\ exchanges' \subseteq Exchange
BY DEF TypeOK, Exchange, Replace, Pertinent

LEMMA RepliedType ==
    ASSUME NEW e \in Exchange, NEW m \in Msgs
    PROVE  /\ Replied(e, m) \in Exchange /\ Replied(e, m).msg = e.msg
           /\ Replied(e, m).reply = m /\ Replied(e, m).stage = "replied"
BY DEF Replied, Exchange

\* A request is answered: an exchange gets its reply.
LEMMA ReceiveInv ==
    ASSUME NEW e \in exchanges, IInv, Receive(e) PROVE IInv'
<1> DEFINE d == e.to
           p == e.from
           m == e.msg
<1>1. /\ e \in Exchange /\ e.stage = "sent" /\ UNCHANGED wireOnly
      /\ d \in Devices /\ p \in Devices /\ m \in Msgs /\ TypeOK /\ DeviceTypes
      /\ m.id < nextId /\ nextId' = nextId /\ accepting' = accepting
  BY TypeParts DEF IInv, Receive, Exchange, IdsAreOld, wireOnly, countVars
<1>2. Handled(m)
  BY <1>1 DEF IInv, OfferIsFirst, Offers, Handled
<1>3. ~Offers(e) /\ m.id \in Ids => Heard(m.id)
  BY DEF Heard
<1>4. \A a \in accepting' : Heard(a.id) /\ a.id < nextId
  BY <1>1 DEF Heard, IInv, IdsAreOld
<1>5. CASE /\ Takes(d, p, m) /\ Effect(d, p, m)
           /\ Replace(e, {Replied(e, Answer(d, p, m))})
  <2> DEFINE x == Replied(e, Answer(d, p, m))
  <2>1. /\ Answer(d, p, m) \in Msgs /\ Answer(d, p, m).id = m.id
        /\ Answer(d, p, m).type # "OFFER"
    BY <1>1, AnswerTypes
  <2>2. x \in Exchange /\ x.msg = m /\ x.reply = Answer(d, p, m) /\ x.stage = "replied"
    BY <1>1, <2>1, RepliedType
  <2> HIDE DEF x
  <2>3. exchanges' \subseteq (exchanges \ {e}) \cup {x} /\ exchanges' \subseteq Exchange
    BY <1>1, <1>5, <2>2, Replacing DEF x
  <2>4. DeviceTypes'
    BY <1>1, <1>2, <1>5, EffectTypes
  <2>5. Custodial'
    <3>1. m.type = "COMMIT" => Decided(m.id)
      BY DEF Decided, Says
    <3>2. m.type = "OFFER" => ~Heard(m.id)
      BY <1>1 DEF IInv, OfferIsFirst, Offers
    <3>3. \A y \in exchanges' : \A i \in Ids :
             Says(y, i) => Decided(i) \/ (Answer(d, p, m).type = "COMMIT" /\ i = m.id)
      BY <2>1, <2>2, <2>3 DEF Says, Decided
    <3> QED
      BY <1>1, <1>2, <1>5, <3>1, <3>2, <3>3, HandlingKeepsCustody
  <2>6. OfferIsFirst' /\ IdsAreOld'
    <3>1. m.type # "OFFER" => ~Offers(e) /\ Heard(m.id)
      BY DEF Offers, Heard
    <3>2. RowsOf(IF m.type = "OFFER" THEN {m.id} ELSE {})
      BY <1>1, <1>2, <1>5, <3>1, HandlingRows
    <3>3. CASE m.type = "OFFER"
      BY <1>1, <2>1, <2>2, <2>3, <3>2, <3>3, OfferArrives DEF Offers
    <3>4. CASE m.type # "OFFER"
      <4>1. \A y \in exchanges' \ exchanges : y = x
        BY <2>3
      <4>2. ~Offers(x)
        BY <2>2 DEF Offers
      <4> QED
        BY <1>1, <1>4, <2>1, <2>2, <3>1, <3>2, <3>4, <4>1, <4>2, OffersKept
    <3> QED
      BY <3>3, <3>4
  <2> QED
    BY <1>1, <2>3, <2>4, <2>5, <2>6, Typed DEF IInv
<1>6. CASE UNCHANGED deviceVars /\ Replace(e, {Replied(e, Msg("ERROR", m.id))})
  <2> DEFINE x == Replied(e, Msg("ERROR", m.id))
  <2>1. Msg("ERROR", m.id) \in Msgs
        /\ Msg("ERROR", m.id).id = m.id /\ Msg("ERROR", m.id).type = "ERROR"
    BY <1>1, NewMsg DEF Msgs
  <2>2. x \in Exchange /\ x.msg = m /\ x.reply = Msg("ERROR", m.id) /\ x.stage = "replied"
    BY <1>1, <2>1, RepliedType
  <2> HIDE DEF x
  <2>3. exchanges' \subseteq (exchanges \ {e}) \cup {x} /\ exchanges' \subseteq Exchange
    BY <1>1, <1>6, <2>2, Replacing DEF x
  <2>4. DeviceTypes' /\ live' = live /\ RowsAreTame
    BY <1>1, <1>6, UnchangedIsTame DEF deviceVars, DeviceTypes
  <2>5. NothingDecided
    BY <2>1, <2>2, <2>3 DEF NothingDecided, Says, Decided
  <2>6. RowsOf({}) /\ RowsOf({m.id})
    BY <2>4, TameRowsOf DEF IInv
  <2>7. ~Offers(x)
    BY <2>2 DEF Offers
  <2>8. OfferIsFirst' /\ IdsAreOld'
    <3>1. CASE Offers(e)
      BY <1>1, <2>1, <2>2, <2>3, <2>6, <3>1, OfferArrives
    <3>2. CASE ~Offers(e)
      <4>1. \A y \in exchanges' \ exchanges : y = x
        BY <2>3
      <4> QED
        BY <1>1, <1>3, <1>4, <2>1, <2>2, <2>6, <2>7, <3>2, <4>1, OffersKept
    <3> QED
      BY <3>1, <3>2
  <2> QED
    BY <1>1, <2>3, <2>4, <2>5, <2>8, Typed, TameStep DEF IInv
<1> QED
  BY <1>5, <1>6 DEF Receive

\* The steps that make no message of a handoff nobody heard of, that decide
\* nothing and move no key.
LEMMA QuietStep ==
    ASSUME IInv, TypeOK', live' = live, RowsAreTame, nextId' = nextId,
           \A a \in accepting' : Heard(a.id) /\ a.id < nextId,
           \A x \in exchanges' \ exchanges :
              /\ ~Offers(x) /\ x.reply.type # "OFFER"
              /\ x.msg.id < nextId /\ x.reply.id < nextId
              /\ x.msg.id \in Ids => Heard(x.msg.id)
              /\ x.reply.id \in Ids => Heard(x.reply.id)
              /\ \A i \in Ids : Says(x, i) => Decided(i)
    PROVE  IInv'
<1>1. DeviceTypes /\ DeviceTypes'
  BY TypeParts DEF IInv, TypeOK, DeviceTypes
<1>2. NothingDecided
  BY DEF NothingDecided, Decided
<1>3. RowsOf({})
  BY TameRowsOf DEF IInv
<1> QED
  BY <1>1, <1>2, <1>3, TameStep, OffersKept DEF IInv

\* Accepts under way are of handoffs heard of.
LEMMA AcceptsHeard ==
    ASSUME IInv PROVE \A a \in accepting : Heard(a.id) /\ a.id < nextId
BY DEF Heard, IInv, IdsAreOld

LEMMA ReceiveAcceptInv ==
    ASSUME NEW e \in exchanges, IInv, ReceiveAccept(e) PROVE IInv'
<1>1. /\ e \in Exchange /\ e.stage = "sent" /\ e.msg.type = "ACCEPT" /\ ~Offers(e)
      /\ UNCHANGED wireOnly /\ UNCHANGED deviceVars /\ TypeOK
  BY DEF ReceiveAccept, IInv, TypeOK, Exchange, Offers
<1>2. e.msg.id < nextId /\ (e.msg.id \in Ids => Heard(e.msg.id))
  BY <1>1 DEF IInv, IdsAreOld, Heard
<1>3. PICK x \in Exchange :
        /\ Replace(e, {x}) /\ x.msg = e.msg /\ x.stage \in {"verifying", "replied"}
        /\ x.reply = e.reply \/ (x.reply.id = e.msg.id /\ x.reply.type = "ERROR")
  <2>1. CASE Replace(e, {[e EXCEPT !.stage = "verifying"]})
    <3> DEFINE y == [e EXCEPT !.stage = "verifying"]
    <3>1. y \in Exchange /\ y.msg = e.msg /\ y.stage = "verifying" /\ y.reply = e.reply
      BY <1>1 DEF Exchange
    <3>2. Replace(e, {y})
      BY <2>1
    <3> HIDE DEF y
    <3> QED
      BY <3>1, <3>2
  <2>2. CASE Replace(e, {Replied(e, Msg("ERROR", e.msg.id))})
    <3>1. Msg("ERROR", e.msg.id) \in Msgs
          /\ Msg("ERROR", e.msg.id).id = e.msg.id /\ Msg("ERROR", e.msg.id).type = "ERROR"
      BY <1>1, NewMsg DEF Exchange, Msgs
    <3> DEFINE y == Replied(e, Msg("ERROR", e.msg.id))
    <3>2. y \in Exchange /\ y.msg = e.msg /\ y.stage = "replied"
          /\ y.reply.id = e.msg.id /\ y.reply.type = "ERROR"
      BY <1>1, <3>1, RepliedType
    <3>3. Replace(e, {y})
      BY <2>2
    <3> HIDE DEF y
    <3> QED
      BY <3>2, <3>3
  <2> QED
    BY <2>1, <2>2 DEF ReceiveAccept
<1>4. exchanges' \subseteq (exchanges \ {e}) \cup {x} /\ exchanges' \subseteq Exchange
  BY <1>1, <1>3, Replacing
<1>5. ~Offers(x) /\ x.reply.type # "OFFER" /\ x.reply.id < nextId
      /\ (x.reply.id \in Ids => Heard(x.reply.id))
  BY <1>1, <1>2, <1>3 DEF Offers, IInv, IdsAreOld, Heard
<1>6. \A i \in Ids : Says(x, i) => Decided(i)
  BY <1>3 DEF Says, Decided
<1>7. DeviceTypes' /\ live' = live /\ RowsAreTame
  BY <1>1, UnchangedIsTame, TypeParts DEF deviceVars, DeviceTypes
<1>8. TypeOK'
  BY <1>1, <1>4, <1>7, Typed
<1>9. nextId' = nextId /\ accepting' = accepting
  BY <1>1 DEF wireOnly, countVars
<1> QED
  BY <1>2, <1>3, <1>4, <1>5, <1>6, <1>7, <1>8, <1>9, AcceptsHeard, QuietStep

LEMMA FinishVerifyInv ==
    ASSUME NEW e \in exchanges, IInv, FinishVerify(e) PROVE IInv'
<1>1. /\ e \in Exchange /\ e.stage = "verifying" /\ ~Offers(e) /\ e.to \in Devices
      /\ UNCHANGED wireOnly /\ UNCHANGED <<live, pending, rows, eph>>
      /\ TypeOK /\ DeviceTypes /\ e.msg.id \in 0..MaxHandoffs
  BY TypeParts DEF FinishVerify, IInv, TypeOK, Exchange, Offers, Msgs
<1>2. e.msg.id < nextId /\ (e.msg.id \in Ids => Heard(e.msg.id)) /\ 0 < nextId /\ 0 \notin Ids
  BY <1>1 DEF IInv, IdsAreOld, Heard, TypeOK, Ids
<1>3. PICK m \in Msgs : /\ Replace(e, {Replied(e, m)})
                        /\ m.type \in {"ERROR", "KEY"} /\ m.id \in {0, e.msg.id}
  <2>1. /\ Msg("ERROR", 0) \in Msgs /\ Msg("ERROR", e.msg.id) \in Msgs
        /\ Msg("ERROR", 0).id = 0 /\ Msg("ERROR", e.msg.id).id = e.msg.id
        /\ Msg("ERROR", 0).type = "ERROR" /\ Msg("ERROR", e.msg.id).type = "ERROR"
    BY <1>1, NewMsg, BoundAssumption
  <2>2. [type |-> "KEY", id |-> e.msg.id, eph |-> e.msg.eph, rows |-> rows[e.to]] \in Msgs
    BY <1>1 DEF Msgs, Exchange, DeviceTypes
  <2> QED
    BY <2>1, <2>2 DEF FinishVerify
<1> DEFINE x == Replied(e, m)
<1>4. x \in Exchange /\ x.msg = e.msg /\ x.reply = m /\ x.stage = "replied"
  BY <1>1, RepliedType
<1> HIDE DEF x
<1>5. exchanges' \subseteq (exchanges \ {e}) \cup {x} /\ exchanges' \subseteq Exchange
  BY <1>1, <1>3, <1>4, Replacing DEF x
<1>6. ~Offers(x) /\ \A i \in Ids : Says(x, i) => Decided(i)
  BY <1>3, <1>4 DEF Offers, Says, Decided
<1>7. RowsAreTame /\ row' \in [Devices -> Rows \cup {NoRow}]
  <2>1. "sent" \in States \ {"committed"}
    BY DEF States
  <2>2. CASE UNCHANGED row
    BY <1>1, <2>2, UnchangedIsTame DEF DeviceTypes
  <2>3. CASE ClearRow(e.to)
    BY <1>1, <2>3, ClearIsTame, ClearRowType DEF DeviceTypes
  <2>4. CASE SetState(e.to, "sent")
    BY <1>1, <2>1, <2>4, SetIsTame, SetStateType DEF DeviceTypes
  <2> QED
    BY <2>2, <2>3, <2>4 DEF FinishVerify
<1>8. TypeOK'
  BY <1>1, <1>5, <1>7, Typed DEF DeviceTypes
<1>9. nextId' = nextId /\ accepting' = accepting /\ live' = live
  BY <1>1 DEF wireOnly, countVars
<1>10. \A y \in exchanges' \ exchanges : y = x
  BY <1>5
<1> QED
  BY <1>2, <1>3, <1>4, <1>6, <1>7, <1>8, <1>9, <1>10, AcceptsHeard, QuietStep

\* A reply is heard, and answered in turn by a new request or by nothing.
LEMMA HearInv ==
    ASSUME NEW e \in exchanges, IInv, Hear(e) PROVE IInv'
<1> DEFINE d == e.from
           p == e.to
           m == e.reply
           next == Answer(d, p, m)
           x == Request(d, p, next)
<1>1. /\ e \in Exchange /\ ~Offers(e) /\ UNCHANGED wireOnly /\ TypeOK /\ DeviceTypes
      /\ d \in Devices /\ p \in Devices /\ m \in Msgs /\ m.type # "OFFER"
      /\ m.id < nextId /\ nextId' = nextId /\ accepting' = accepting
      /\ Takes(d, p, m) /\ Effect(d, p, m)
  BY TypeParts DEF IInv, Hear, Exchange, IdsAreOld, Offers, wireOnly, countVars
<1>2. Handled(m) /\ Heard(m.id) /\ 0 < nextId /\ 0 \notin Ids
  BY <1>1 DEF Handled, Heard, TypeOK, Ids
<1>3. /\ next \in Msgs /\ next.id = m.id /\ next.type # "OFFER"
  BY <1>1, AnswerTypes
<1>4. Replace(e, IF next.type = "ACK" THEN {} ELSE {x})
  BY DEF Hear
<1> HIDE DEF next
<1>5. x \in Exchange /\ x.msg = next /\ x.reply = NoMsg /\ x.stage = "sent"
  BY <1>1, <1>3, NewRequest
<1> HIDE DEF x
<1>6. exchanges' \subseteq (exchanges \ {e}) \cup {x} /\ exchanges' \subseteq Exchange
  <2> DEFINE S == IF next.type = "ACK" THEN {} ELSE {x}
  <2>1. S \in SUBSET Exchange /\ S \subseteq {x} /\ Replace(e, S)
    BY <1>4, <1>5
  <2> HIDE DEF S
  <2> QED
    BY <1>1, <2>1, Replacing
<1>7. ~Offers(x) /\ x.reply.id = 0 /\ x.reply.type = "none"
  BY <1>3, <1>5, NoMsgType DEF Offers
<1>8. DeviceTypes'
  BY <1>1, <1>2, EffectTypes
<1>9. Custodial'
  <2>1. m.type = "COMMIT" => Decided(m.id)
    BY DEF Decided, Says
  <2>2. \A y \in exchanges' : \A i \in Ids :
           Says(y, i) => Decided(i) \/ (Answer(d, p, m).type = "COMMIT" /\ i = m.id)
    BY <1>3, <1>5, <1>6, <1>7 DEF Says, Decided, next
  <2> QED
    BY <1>1, <1>2, <2>1, <2>2, HandlingKeepsCustody
<1>10. RowsOf({})
  BY <1>1, <1>2, HandlingRows
<1>11. \A y \in exchanges' \ exchanges : y = x
  BY <1>6
<1>12. OfferIsFirst' /\ IdsAreOld'
  BY <1>1, <1>2, <1>3, <1>5, <1>7, <1>10, <1>11, AcceptsHeard, OffersKept
<1> QED
  BY <1>1, <1>6, <1>8, <1>9, <1>12, Typed DEF IInv

LEMMA FailInv ==
    ASSUME NEW e \in exchanges, IInv, Fail(e) PROVE IInv'
<1> DEFINE x == [Request(e.from, e.to, Msg("ERROR", e.reply.id)) EXCEPT !.open = FALSE]
<1>1. /\ e \in Exchange /\ ~Offers(e) /\ UNCHANGED wireOnly /\ TypeOK /\ DeviceTypes
      /\ e.from \in Devices /\ e.to \in Devices
      /\ e.reply.id \in 0..MaxHandoffs /\ e.reply.id < nextId
      /\ nextId' = nextId /\ accepting' = accepting /\ 0 < nextId /\ 0 \notin Ids
      /\ Abandon(e.from, e.msg.id)
  <2>0. 0 < nextId /\ 0 \notin Ids
    BY DEF IInv, TypeOK, Ids
  <2>1. TypeOK /\ DeviceTypes /\ e \in Exchange /\ e.reply.id < nextId
    BY TypeParts DEF IInv, IdsAreOld
  <2>2. e.from \in Devices /\ e.to \in Devices /\ e.reply.id \in 0..MaxHandoffs
    BY <2>1 DEF Exchange, Msgs
  <2>3. e.stage = "replied" /\ Abandon(e.from, e.msg.id) /\ UNCHANGED wireOnly
    BY DEF Fail
  <2> QED
    BY <2>0, <2>1, <2>2, <2>3 DEF Offers, wireOnly, countVars
<1>2. Heard(e.reply.id)
  BY <1>1 DEF Heard
<1>3. x \in Exchange /\ x.msg.id = e.reply.id /\ x.msg.type = "ERROR" /\ x.reply = NoMsg
  <2>1. /\ Msg("ERROR", e.reply.id) \in Msgs /\ Msg("ERROR", e.reply.id).id = e.reply.id
        /\ Msg("ERROR", e.reply.id).type = "ERROR"
    BY <1>1, NewMsg
  <2> DEFINE r == Request(e.from, e.to, Msg("ERROR", e.reply.id))
  <2>2. r \in Exchange /\ r.msg = Msg("ERROR", e.reply.id) /\ r.reply = NoMsg
    BY <1>1, <2>1, NewRequest
  <2>3. x = [r EXCEPT !.open = FALSE]
    OBVIOUS
  <2> HIDE DEF r, x
  <2> QED
    BY <2>1, <2>2, <2>3 DEF Exchange
<1>4. Replace(e, IF e.reply.type = "ERROR" THEN {} ELSE {x})
  BY DEF Fail
<1> HIDE DEF x
<1>5. exchanges' \subseteq (exchanges \ {e}) \cup {x} /\ exchanges' \subseteq Exchange
  <2> DEFINE S == IF e.reply.type = "ERROR" THEN {} ELSE {x}
  <2>1. S \in SUBSET Exchange /\ S \subseteq {x} /\ Replace(e, S)
    BY <1>3, <1>4
  <2> HIDE DEF S
  <2> QED
    BY <1>1, <2>1, Replacing
<1>6. /\ ~Offers(x) /\ x.reply.id = 0 /\ x.reply.type = "none"
      /\ \A i \in Ids : ~Says(x, i)
  BY <1>3, NoMsgType DEF Offers, Says
<1>7. DeviceTypes' /\ live' = live /\ RowsAreTame
  BY <1>1, AbandonTypes
<1>8. TypeOK'
  BY <1>1, <1>5, <1>7, Typed
<1>9. \A y \in exchanges' \ exchanges : y = x
  BY <1>5
<1> QED
  BY <1>1, <1>2, <1>3, <1>6, <1>7, <1>8, <1>9, AcceptsHeard, QuietStep

LEMMA GiveUpInv ==
    ASSUME NEW e \in exchanges, IInv, GiveUp(e) PROVE IInv'
<1> DEFINE x == [e EXCEPT !.open = FALSE]
<1>1. /\ TypeOK /\ DeviceTypes /\ e \in Exchange /\ e.from \in Devices
      /\ Abandon(e.from, e.msg.id) /\ UNCHANGED wireOnly /\ Replace(e, {x})
  BY TypeParts DEF IInv, TypeOK, Exchange, GiveUp
<1>2. x \in Exchange /\ x.msg = e.msg /\ x.stage = e.stage /\ x.reply = e.reply
  BY <1>1 DEF Exchange
<1> HIDE DEF x
<1>3. exchanges' \subseteq (exchanges \ {e}) \cup {x} /\ exchanges' \subseteq Exchange
  BY <1>1, <1>2, Replacing
<1>4. DeviceTypes' /\ live' = live /\ RowsAreTame
  BY <1>1, AbandonTypes
<1>5. TypeOK'
  BY <1>1, <1>3, <1>4, Typed
<1>6. nextId' = nextId /\ accepting' = accepting
  BY <1>1 DEF wireOnly, countVars
<1>7. NothingDecided
  BY <1>2, <1>3 DEF NothingDecided, Says, Decided
<1>8. Custodial'
  BY <1>1, <1>4, <1>7, TameStep DEF IInv
<1>9. RowsOf({})
  BY <1>4, TameRowsOf DEF IInv
<1>10. OfferIsFirst' /\ IdsAreOld'
  <2>1. CASE Offers(e)
    <3>1. x.stage = "sent"
      BY <1>2, <2>1 DEF Offers
    <3> QED
      BY <1>2, <1>3, <1>6, <1>9, <2>1, <3>1, OfferGoesOn
  <2>2. CASE ~Offers(e)
    <3>1. \A y \in exchanges' \ exchanges : y = x
      BY <1>3
    <3>2. /\ ~Offers(x) /\ x.reply.type # "OFFER" /\ x.msg.id < nextId /\ x.reply.id < nextId
          /\ Heard(x.msg.id) /\ Heard(x.reply.id)
      BY <1>2, <2>2 DEF Offers, IInv, IdsAreOld, Heard
    <3> QED
      BY <1>6, <1>9, <3>1, <3>2, AcceptsHeard, OffersKept
  <2> QED
    BY <2>1, <2>2
<1> QED
  BY <1>5, <1>8, <1>10 DEF IInv

LEMMA LoseInv ==
    ASSUME NEW e \in exchanges, IInv, Lose(e) PROVE IInv'
<1>1. /\ TypeOK /\ DeviceTypes /\ UNCHANGED deviceVars /\ UNCHANGED wireOnly /\ Replace(e, {})
  BY TypeParts DEF IInv, Lose
<1>2. exchanges' \subseteq exchanges /\ exchanges' \subseteq Exchange
  BY <1>1, Replacing
<1>3. DeviceTypes' /\ live' = live /\ RowsAreTame
  BY <1>1, UnchangedIsTame DEF deviceVars, DeviceTypes
<1>4. TypeOK'
  BY <1>1, <1>2, <1>3, Typed
<1>5. nextId' = nextId /\ accepting' = accepting
  BY <1>1 DEF wireOnly, countVars
<1> QED
  BY <1>2, <1>3, <1>4, <1>5, AcceptsHeard, QuietStep

-----------------------------------------------------------------------------
\* A new message, to be heard of a handoff that is known.
LEMMA OpenType ==
    ASSUME TypeOK, NEW x \in Exchange, Open(x)
    PROVE  exchanges' = exchanges \cup {x} /\ exchanges' \subseteq Exchange
BY DEF Open, TypeOK, Exchange

LEMMA OfferInv ==
    ASSUME NEW d \in Devices, NEW p \in Devices, IInv, Offer(d, p) PROVE IInv'
<1> DEFINE x == Request(d, p, Msg("OFFER", nextId))
           r == [id |-> nextId, role |-> "giver", peer |-> p, state |-> "offered"]
<1>1. /\ TypeOK /\ DeviceTypes /\ nextId \in Ids /\ nextId' = nextId + 1
      /\ row' = [row EXCEPT ![d] = r] /\ Open(x)
      /\ Forget(d, row[d].id) \/ UNCHANGED eph
      /\ UNCHANGED <<live, pending, rows, accepting, admins, nextEph, restarts, changes>>
  BY TypeParts DEF IInv, Offer
<1>2. /\ r \in Rows /\ r.id = nextId /\ r.role = "giver" /\ r.state = "offered"
      /\ nextId \in 0..MaxHandoffs /\ nextId \in Nat /\ nextId' \in 1..(MaxHandoffs + 1)
  BY <1>1, BoundAssumption DEF Rows, States, Ids
<1>3. /\ x \in Exchange /\ x.msg.id = nextId /\ x.msg.type = "OFFER" /\ x.reply = NoMsg
      /\ x.stage = "sent"
  BY <1>2, NewMsg, NewRequest
<1> HIDE DEF r, x
<1>4. exchanges' = exchanges \cup {x} /\ exchanges' \subseteq Exchange
  BY <1>1, <1>3, OpenType
<1>5. DeviceTypes'
  <2>1. eph' \in [Devices -> [Ids -> 0..MaxAccepts]]
    BY <1>1, ForgetType DEF DeviceTypes
  <2> QED
    BY <1>1, <1>2, <2>1 DEF DeviceTypes
<1>6. TypeOK'
  BY <1>1, <1>2, <1>4, <1>5 DEF TypeOK, DeviceTypes, Exchange
<1>7. Custodial'
  <2>1. NothingDecided
    BY <1>3, <1>4, NoMsgType DEF NothingDecided, Says, Decided
  <2> QED
    BY <1>1, <1>2, <1>5, <2>1, Taking DEF IInv
<1>8. PICK n \in Ids : n = nextId /\ n < nextId' /\ 0 < nextId'
  BY <1>1, <1>2 DEF Ids
<1>9. \A c \in Devices : row'[c] = row[c] \/ row'[c] = r
  BY <1>1 DEF DeviceTypes
<1>10. /\ \A c \in Devices : row[c].id < n
       /\ \A a \in accepting : a.id < n
       /\ \A f \in exchanges : f.msg.id < n /\ f.reply.id < n /\ f.reply.type # "OFFER"
  BY <1>8 DEF IInv, IdsAreOld
<1>11. IdsAreOld'
  <2>1. \A c \in Devices : row'[c].id < nextId'
    <3>1. \A c \in Devices : row[c].id \in Nat
      BY <1>1, BoundAssumption DEF DeviceTypes, Rows, NoRow, Ids
    <3> QED
      BY <1>1, <1>2, <1>8, <1>9, <1>10, <3>1
  <2>2. \A a \in accepting : a.id < nextId'
    <3>1. \A a \in accepting : a.id \in Nat
      BY <1>1 DEF TypeOK, Ids
    <3> QED
      BY <1>1, <1>2, <1>10, <3>1, <1>8
  <2>3. \A f \in exchanges' : /\ f.msg.id < nextId' /\ f.reply.id < nextId'
                              /\ f.reply.type # "OFFER"
    <3>1. \A f \in exchanges : f.msg.id \in Nat /\ f.reply.id \in Nat
      BY <1>1, TypeParts DEF Exchange, Msgs
    <3>2. \A f \in exchanges : f.msg.id < nextId' /\ f.reply.id < nextId'
      BY <1>1, <1>2, <1>8, <1>10, <3>1
    <3> QED
      BY <1>3, <1>4, <1>8, <1>10, <3>2, NoMsgType
  <2> QED
    BY <1>1, <2>1, <2>2, <2>3 DEF IdsAreOld
<1>12. ~Heard(n)' /\ \A i \in Ids : Heard(i)' => Heard(i)
  <2>1. Offers(x) /\ x.msg.id = n
    BY <1>3, <1>8 DEF Offers
  <2>2. \A i \in Ids : Heard(i)' => Heard(i)
    BY <1>1, <1>2, <1>4, <1>9, <2>1 DEF Heard
  <2>3. ~Heard(n)
    <3>1. ~(n < n)
      BY DEF Ids
    <3> QED
      BY <1>10, <3>1 DEF Heard
  <2> QED
    BY <2>2, <2>3
<1>13. OfferIsFirst'
  <2> SUFFICES ASSUME NEW f \in exchanges', Offers(f)
               PROVE  /\ f.msg.id \in Ids /\ ~Heard(f.msg.id)' /\ f.reply = NoMsg
                      /\ \A g \in exchanges' : Offers(g) /\ g.msg.id = f.msg.id => g = f
    BY DEF OfferIsFirst, Offers
  <2>1. \A g \in exchanges' : g = x \/ (g \in exchanges /\ g.msg.id # n)
    BY <1>4, <1>10 DEF Ids
  <2> QED
    BY <1>3, <1>4, <1>8, <1>12, <2>1 DEF IInv, OfferIsFirst
<1> QED
  BY <1>6, <1>7, <1>11, <1>13 DEF IInv

LEMMA StartAcceptInv ==
    ASSUME NEW d \in Devices, IInv, StartAccept(d) PROVE IInv'
<1> DEFINE b == [dev |-> d, id |-> row[d].id, peer |-> row[d].peer, eph |-> nextEph]
<1>1. /\ TypeOK /\ DeviceTypes /\ nextEph \in Nonces /\ row[d].role = "taker"
      /\ accepting' = accepting \cup {b} /\ nextEph' = nextEph + 1
      /\ UNCHANGED <<deviceVars, exchanges, admins, countVars>>
  BY TypeParts DEF IInv, StartAccept
<1>2. row[d] \in Rows
  BY <1>1 DEF DeviceTypes, NoRow
<1>3. b \in [dev : Devices, id : Ids, peer : Devices, eph : Nonces] /\ b.id = row[d].id
  BY <1>1, <1>2 DEF Rows
<1> HIDE DEF b
<1>4. TypeOK'
  BY <1>1, <1>3, BoundAssumption DEF TypeOK, deviceVars, countVars, Nonces
<1>5. \A a \in accepting' : Heard(a.id) /\ a.id < nextId
  <2>1. Heard(b.id) /\ b.id < nextId
    BY <1>1, <1>3 DEF Heard, IInv, IdsAreOld
  <2> QED
    BY <1>1, <2>1, AcceptsHeard
<1>6. live' = live /\ RowsAreTame /\ nextId' = nextId /\ exchanges' = exchanges
  BY <1>1, UnchangedIsTame DEF deviceVars, countVars
<1> QED
  BY <1>4, <1>5, <1>6, QuietStep

LEMMA FinishAcceptInv ==
    ASSUME NEW a \in accepting, IInv, FinishAccept(a) PROVE IInv'
<1> DEFINE m == [Msg("ACCEPT", a.id) EXCEPT !.eph = a.eph]
           x == Request(a.dev, a.peer, m)
<1>1. /\ TypeOK /\ DeviceTypes /\ a.dev \in Devices /\ a.peer \in Devices
      /\ a.id \in Ids /\ a.eph \in Nonces
  BY TypeParts DEF IInv
<1>2. /\ accepting' = accepting \ {a} /\ SetState(a.dev, "accepted") /\ Open(x)
      /\ eph' = [eph EXCEPT ![a.dev][a.id] = a.eph]
      /\ UNCHANGED <<live, pending, rows, admins, nextEph, countVars>>
  BY DEF FinishAccept
<1>3. m \in Msgs /\ m.id = a.id /\ m.type = "ACCEPT"
  BY <1>1, BoundAssumption DEF Msg, Msgs, Ids, Nonces
<1> HIDE DEF m
<1>4. x \in Exchange /\ x.msg = m /\ x.reply = NoMsg
  BY <1>1, <1>3, NewRequest
<1> HIDE DEF x
<1>5. exchanges' = exchanges \cup {x} /\ exchanges' \subseteq Exchange
  BY <1>1, <1>2, <1>4, OpenType
<1>6. "accepted" \in States \ {"committed"}
  BY DEF States
<1>7. DeviceTypes'
  <2>1. eph' \in [Devices -> [Ids -> 0..MaxAccepts]]
    BY <1>1, <1>2, BoundAssumption DEF DeviceTypes, Nonces
  <2> QED
    BY <1>1, <1>2, <1>6, <2>1, SetStateType DEF DeviceTypes
<1>8. TypeOK'
  BY <1>1, <1>2, <1>5, <1>7 DEF TypeOK, DeviceTypes, Exchange, countVars, Nonces
<1>9. RowsAreTame
  BY <1>1, <1>2, <1>6, SetIsTame
<1>10. /\ ~Offers(x) /\ x.reply.id = 0 /\ x.reply.type = "none"
       /\ \A i \in Ids : ~Says(x, i)
  BY <1>3, <1>4, NoMsgType DEF Offers, Says
<1>11. Heard(a.id) /\ a.id < nextId /\ 0 < nextId /\ 0 \notin Ids
  <2>1. Heard(a.id) /\ a.id < nextId
    BY AcceptsHeard
  <2>2. 0 < nextId /\ 0 \notin Ids
    BY DEF IInv, TypeOK, Ids
  <2> QED
    BY <2>1, <2>2
<1>12. nextId' = nextId /\ \A c \in accepting' : Heard(c.id) /\ c.id < nextId
  BY <1>2, AcceptsHeard DEF countVars
<1>13. \A y \in exchanges' \ exchanges : y = x
  BY <1>5
<1> QED
  BY <1>2, <1>3, <1>4, <1>8, <1>9, <1>10, <1>11, <1>12, <1>13, QuietStep

LEMMA DeclineInv ==
    ASSUME NEW d \in Devices, IInv, Decline(d) PROVE IInv'
<1>1. /\ TypeOK /\ DeviceTypes /\ ClearRow(d) /\ Forget(d, row[d].id)
      /\ UNCHANGED <<live, pending, rows, accepting, exchanges, admins, nextEph, countVars>>
  BY TypeParts DEF IInv, Decline
<1>2. DeviceTypes' /\ RowsAreTame
  BY <1>1, ClearRowType, ForgetType, ClearIsTame DEF DeviceTypes
<1>3. TypeOK'
  BY <1>1, <1>2 DEF TypeOK, DeviceTypes, countVars, Nonces
<1> QED
  BY <1>1, <1>2, <1>3, AcceptsHeard, QuietStep DEF countVars

LEMMA PollInv ==
    ASSUME NEW d \in Devices, IInv, Poll(d) PROVE IInv'
<1>1. /\ TypeOK /\ DeviceTypes /\ Expire(d)
      /\ UNCHANGED <<accepting, exchanges, admins, nextEph, countVars>>
  BY TypeParts DEF IInv, Poll
<1>2. DeviceTypes' /\ RowsAreTame /\ live' = live
  BY <1>1, ExpireTypes
<1>3. TypeOK'
  BY <1>1, <1>2 DEF TypeOK, DeviceTypes, countVars, Nonces
<1> QED
  BY <1>1, <1>2, <1>3, AcceptsHeard, QuietStep DEF countVars

LEMMA ContactInv ==
    ASSUME NEW d \in Devices, IInv, Contact(d) PROVE IInv'
<1> DEFINE m == ContactMsg(d)
           x == Request(d, row[d].peer, m)
<1>1. /\ TypeOK /\ DeviceTypes /\ m # NoMsg /\ Open(x)
      /\ UNCHANGED <<deviceVars, accepting, admins, nextEph, countVars>>
  BY TypeParts DEF IInv, Contact
<1>2. row[d] \in Rows
  BY <1>1 DEF DeviceTypes, NoRow, ContactMsg
<1>3. /\ m \in Msgs /\ m.id = row[d].id /\ m.type \in {"STATUS", "COMMIT"}
      /\ Heard(m.id)
      /\ m.type = "COMMIT" => Decided(m.id)
  <2>1. row[d].id \in 0..MaxHandoffs
    BY <1>2, BoundAssumption DEF Rows, Ids
  <2>2. CASE row[d].role = "taker" /\ row[d].state = "stored"
    BY <2>1, <2>2, NewMsg DEF ContactMsg, Heard
  <2>3. CASE row[d].role = "giver" /\ row[d].state = "committed"
    BY <2>1, <2>3, NewMsg DEF ContactMsg, Heard, Decided
  <2> QED
    BY <1>1, <2>2, <2>3 DEF ContactMsg
<1> HIDE DEF m
<1>4. x \in Exchange /\ x.msg = m /\ x.reply = NoMsg
  BY <1>2, <1>3, NewRequest DEF Rows
<1> HIDE DEF x
<1>5. exchanges' = exchanges \cup {x} /\ exchanges' \subseteq Exchange
  BY <1>1, <1>4, OpenType
<1>6. DeviceTypes' /\ live' = live /\ RowsAreTame
  BY <1>1, UnchangedIsTame DEF deviceVars, DeviceTypes
<1>7. TypeOK'
  BY <1>1, <1>5, <1>6 DEF TypeOK, DeviceTypes, Exchange, countVars, Nonces
<1>8. /\ ~Offers(x) /\ x.reply.id = 0 /\ x.reply.type = "none"
      /\ \A i \in Ids : Says(x, i) => Decided(i)
  BY <1>3, <1>4, NoMsgType DEF Offers, Says
<1>9. m.id < nextId /\ 0 < nextId /\ 0 \notin Ids
  BY <1>3 DEF IInv, IdsAreOld, TypeOK, Ids
<1>10. \A y \in exchanges' \ exchanges : y = x
  BY <1>5
<1>11. nextId' = nextId /\ accepting' = accepting
  BY <1>1 DEF countVars
<1> QED
  BY <1>3, <1>4, <1>6, <1>7, <1>8, <1>9, <1>10, <1>11, AcceptsHeard, QuietStep

LEMMA SurroundingsInv ==
    ASSUME IInv, NEW d \in Devices,
           \/ \E p \in Devices : Authority(d, p)
           \/ \E x \in Answers : Remember(d, x)
    PROVE  IInv'
<1>1. TypeOK /\ DeviceTypes
  BY TypeParts DEF IInv
<1>2. ASSUME NEW p \in Devices, Authority(d, p) PROVE IInv'
  <2>1. /\ changes' \in 0..MaxChanges /\ admins' \in [Devices -> SUBSET Devices]
        /\ UNCHANGED <<deviceVars, accepting, exchanges, nextId, nextEph, restarts>>
    BY <1>1, <1>2, BoundAssumption DEF Authority, TypeOK
  <2>2. TypeOK' /\ RowsAreTame /\ live' = live
    BY <1>1, <2>1, UnchangedIsTame DEF TypeOK, deviceVars
  <2> QED
    BY <2>1, <2>2, AcceptsHeard, QuietStep
<1>3. ASSUME NEW x \in Answers, Remember(d, x) PROVE IInv'
  <2>1. /\ rows' \in [Devices -> SUBSET Answers]
        /\ UNCHANGED <<row, live, pending, eph, accepting, exchanges, admins, nextEph, countVars>>
    BY <1>1, <1>3 DEF Remember, DeviceTypes
  <2>2. TypeOK' /\ RowsAreTame
    BY <1>1, <2>1, UnchangedIsTame DEF TypeOK, countVars
  <2> QED
    BY <2>1, <2>2, AcceptsHeard, QuietStep DEF countVars
<1> QED
  BY <1>2, <1>3

\* A restart closes and severs exchanges; an OFFER that is severed is heard of,
\* but it was the only one of its handoff.
LEMMA RestartInv ==
    ASSUME NEW d \in Devices, IInv, Restart(d) PROVE IInv'
<1>1. /\ TypeOK /\ DeviceTypes /\ restarts' \in 0..MaxRestarts
      /\ ClearRow(d) \/ UNCHANGED row
      /\ eph' = [eph EXCEPT ![d] = [i \in Ids |-> 0]]
      /\ accepting' \subseteq accepting
      /\ UNCHANGED <<live, pending, rows, admins, nextId, nextEph, changes>>
  BY TypeParts, BoundAssumption DEF IInv, Restart, TypeOK
<1>2. \A e \in exchanges :
        /\ Severed(e, d) \in Exchange
        /\ Severed(e, d).msg = e.msg /\ Severed(e, d).reply = e.reply
        /\ Severed(e, d).stage \in {e.stage, "lost"}
  <2> SUFFICES ASSUME NEW e \in exchanges
               PROVE  /\ Severed(e, d) \in Exchange
                      /\ Severed(e, d).msg = e.msg /\ Severed(e, d).reply = e.reply
                      /\ Severed(e, d).stage \in {e.stage, "lost"}
    OBVIOUS
  <2>1. e \in Exchange
    BY <1>1, TypeParts
  <2> QED
    BY <2>1 DEF Severed, Exchange
<1>3. \A x \in exchanges' : \E e \in exchanges :
        /\ x = Severed(e, d) /\ x \in Exchange /\ x.msg = e.msg /\ x.reply = e.reply
        /\ Offers(x) => Offers(e)
  BY <1>2 DEF Restart, Pertinent, Offers
<1>4. DeviceTypes' /\ RowsAreTame
  <2>1. eph' \in [Devices -> [Ids -> 0..MaxAccepts]]
    BY <1>1, BoundAssumption DEF DeviceTypes
  <2> QED
    BY <1>1, <2>1, ClearRowType, ClearIsTame, UnchangedIsTame DEF DeviceTypes
<1>5. TypeOK'
  <2>1. exchanges' \subseteq Exchange
    BY <1>3
  <2> QED
    BY <1>1, <1>4, <2>1 DEF TypeOK, DeviceTypes, Exchange, Nonces
<1>6. NothingDecided
  BY <1>3 DEF NothingDecided, Says, Decided
<1>7. Custodial'
  BY <1>1, <1>4, <1>6, TameStep DEF IInv
<1>8. RowsOf({}) /\ 0 < nextId /\ 0 \notin Ids
  BY <1>4, TameRowsOf DEF IInv, TypeOK, Ids
<1>9. IdsAreOld'
  BY <1>1, <1>3, <1>8 DEF IInv, IdsAreOld, RowsOf
<1>10. \A x, y \in exchanges' : Offers(x) /\ Offers(y) /\ x.msg.id = y.msg.id => x = y
  BY <1>3 DEF IInv, OfferIsFirst
<1>11. ASSUME NEW x \in exchanges', Offers(x), NEW i \in Ids, i = x.msg.id
       PROVE  ~Heard(i)'
  <2>1. PICK e \in exchanges : x = Severed(e, d) /\ Offers(e) /\ e.msg.id = i
    BY <1>3, <1>11
  <2>2. ~Heard(i) /\ \A f \in exchanges : Offers(f) => f.reply.id = 0 /\ (f.msg.id = i => f = e)
    BY <2>1, NoMsgType DEF IInv, OfferIsFirst
  <2>3. ASSUME NEW y \in exchanges', ~Offers(y), i \in {y.msg.id, y.reply.id} PROVE FALSE
    <3>1. PICK f \in exchanges : y = Severed(f, d) /\ y.msg = f.msg /\ y.reply = f.reply
      BY <1>3
    <3>2. CASE Offers(f)
      BY <1>8, <1>11, <2>1, <2>2, <2>3, <3>1, <3>2
    <3>3. CASE ~Offers(f)
      BY <2>2, <2>3, <3>1, <3>3 DEF Heard
    <3> QED
      BY <3>2, <3>3
  <2>4. \A a \in accepting' : a.id # i
    BY <1>1, <2>2 DEF Heard
  <2>5. \A c \in Devices : row'[c].id = i => row'[c].role # "taker" /\ row'[c].state # "committed"
    BY <1>8, <2>2 DEF RowsOf
  <2> QED
    BY <2>3, <2>4, <2>5 DEF Heard
<1>12. OfferIsFirst'
  <2> SUFFICES ASSUME NEW x \in exchanges', Offers(x)
               PROVE  /\ x.msg.id \in Ids /\ ~Heard(x.msg.id)' /\ x.reply = NoMsg
                      /\ \A y \in exchanges' : Offers(y) /\ y.msg.id = x.msg.id => y = x
    BY DEF OfferIsFirst, Offers
  <2>1. x.msg.id \in Ids /\ x.reply = NoMsg
    BY <1>3 DEF IInv, OfferIsFirst
  <2> QED
    BY <1>10, <1>11, <2>1
<1> QED
  BY <1>5, <1>7, <1>9, <1>12 DEF IInv

-----------------------------------------------------------------------------
LEMMA Inductive ==
    ASSUME IInv, [Next]_vars PROVE IInv'
<1>1. CASE UNCHANGED vars
  <2>1. UNCHANGED <<deviceVars, accepting, exchanges, admins, nextEph, countVars>>
    BY <1>1 DEF vars
  <2>2. TypeOK' /\ RowsAreTame /\ live' = live
    BY <2>1, UnchangedIsTame DEF IInv, TypeOK, deviceVars, countVars
  <2> QED
    BY <2>1, <2>2, AcceptsHeard, QuietStep DEF countVars
<1>2. ASSUME NEW d \in Devices,
             StartAccept(d) \/ Decline(d) \/ Poll(d) \/ Contact(d) \/ Restart(d)
      PROVE  IInv'
  BY <1>2, StartAcceptInv, DeclineInv, PollInv, ContactInv, RestartInv
<1>3. ASSUME NEW d \in Devices, NEW p \in Devices, Offer(d, p) PROVE IInv'
  BY <1>3, OfferInv
<1>4. ASSUME NEW d \in Devices, \/ \E p \in Devices : Authority(d, p)
                                \/ \E x \in Answers : Remember(d, x)
      PROVE  IInv'
  BY <1>4, SurroundingsInv
<1>5. ASSUME NEW a \in accepting, FinishAccept(a) PROVE IInv'
  BY <1>5, FinishAcceptInv
<1>6. ASSUME NEW e \in exchanges,
             \/ Receive(e) \/ ReceiveAccept(e) \/ FinishVerify(e)
             \/ Hear(e) \/ Fail(e) \/ GiveUp(e) \/ Lose(e)
      PROVE  IInv'
  BY <1>6, ReceiveInv, ReceiveAcceptInv, FinishVerifyInv, HearInv, FailInv, GiveUpInv, LoseInv
<1> QED
  BY <1>1, <1>2, <1>3, <1>4, <1>5, <1>6 DEF Next

\* The handoff's variables keep their types.
THEOREM TypeCorrect == Spec => []TypeOK
<1>1. IInv => TypeOK
  BY DEF IInv
<1> QED
  BY <1>1, InitInv, Inductive, PTL DEF Spec

\* Never two hosts: whatever is lost, late, repeated, restarted, abandoned or
\* accepted twice, on any number of devices and in any number of handoffs.
THEOREM OneLiveKey == Spec => []AtMostOneLiveKey
<1>1. IInv => AtMostOneLiveKey
  BY DEF IInv, Custodial
<1> QED
  BY <1>1, InitInv, Inductive, PTL DEF Spec
-----------------------------------------------------------------------------
(* Whose the key is.  With one accept() at a time on a device the row says  *)
(* who has the key, and a message what is true of its sender's row.         *)

Awaits(s, i) == /\ row[s].role = "taker" /\ row[s].id = i
                /\ row[s].state \in {"offered", "accepted", "stored"}
HoldsFor(s, g, i) == /\ row[s].role = "taker" /\ row[s].id = i /\ row[s].peer = g
                     /\ row[s].state = "stored"
Undertakes(g, s, i) == GaveTo(g, s, i) /\ Undecided(row[g])

\* A device has the live key exactly when its row lets it.
RowsMeanKeys ==
    \A d \in Devices :
        /\ row[d].role = "giver" => row[d].state \in {"offered", "sent", "committed"}
        /\ Undecided(row[d]) => live[d]
        /\ row[d].state = "committed" => row[d].role = "giver" /\ ~live[d]
        /\ Awaits(d, row[d].id) => ~live[d]
        /\ row[d].state = "stored" => row[d].role = "taker" /\ pending[d].id = row[d].id

\* While an accept() is at its await nothing else accepts on that device.
AcceptsAlone ==
    \A a \in accepting :
        /\ ~live[a.dev] /\ row[a.dev].state \in {"none", "offered"}
        /\ \A b \in accepting : b.dev = a.dev => b = a

\* The rows R handed on with handoff i are those its giver still has.
Staged(g, s, i, R) ==
    Undertakes(g, s, i) => row[g].state = "sent" /\ (~LateAnswers => R = rows[g])

StoredIsStaged ==
    \A s \in Devices : row[s].state = "stored" =>
        Staged(row[s].peer, s, row[s].id, pending[s].rows)

\* What a message m from s to g promises about their rows.
IsTrue(s, g, m) ==
    /\ m.type = "KEY" => Staged(s, g, m.id, m.rows)
    /\ m.type = "STORED" /\ Undertakes(g, s, m.id) => HoldsFor(s, g, m.id)
    /\ m.type = "COMMIT" => ~Undertakes(s, g, m.id)
    /\ m.type = "NOT_COMMITTED" => ~GaveTo(s, g, m.id)
    /\ m.type = "DONE" => ~Awaits(s, m.id)

WireIsTrue == \A e \in exchanges : IsTrue(e.from, e.to, e.msg) /\ IsTrue(e.to, e.from, e.reply)

\* The giver g has committed and its successor s holds the key.
Bequeaths(g, s) == HoldsFor(s, g, row[g].id) /\ HasCommitted(g, s, row[g].id)

HostOrHeir == Hosts = {} => \E g, s \in Devices : Bequeaths(g, s)

Kept == RowsMeanKeys /\ AcceptsAlone /\ StoredIsStaged /\ WireIsTrue /\ HostOrHeir

-----------------------------------------------------------------------------
(* Moves: what a step does to the one device it is a step of.              *)

OnlyAt(d) == \A c \in Devices \ {d} : /\ row'[c] = row[c] /\ live'[c] = live[c]
                                      /\ pending'[c] = pending[c] /\ rows'[c] = rows[c]

KeepsKey(d) == live'[d] = live[d] /\ rows'[d] = rows[d]
Advances(d, s) == /\ row'[d].role = row[d].role /\ row'[d].id = row[d].id
                  /\ row'[d].peer = row[d].peer /\ row'[d].state = s

Stays(d) ==
    /\ row'[d] = row[d] /\ live'[d] = live[d] /\ pending'[d] = pending[d]
    /\ rows[d] \subseteq rows'[d]
    /\ ~LateAnswers /\ row[d].state = "sent" => rows'[d] = rows[d]

Drops(d) ==
    /\ row'[d] = NoRow /\ KeepsKey(d)
    /\ row[d].state = "stored" => ~GaveTo(row[d].peer, d, row[d].id)
    /\ row[d].state = "committed" => ~Awaits(row[d].peer, row[d].id)

Begins(d) ==
    /\ row[d].state \notin {"stored", "committed"} /\ row'[d].state = "offered" /\ KeepsKey(d)
    /\ \/ row'[d].role = "giver" /\ row'[d].id = nextId /\ live[d]
       \/ row'[d].role = "taker" /\ ~Heard(row'[d].id) /\ ~live[d]

Accepts(d) ==
    /\ Advances(d, "accepted") /\ row[d].state = "offered" /\ ~live[d] /\ KeepsKey(d)
    /\ \A a \in accepting' : a.dev # d

Sends(d) == Advances(d, "sent") /\ row[d] # NoRow /\ live[d] /\ KeepsKey(d)

Stores(d) ==
    /\ Advances(d, "stored") /\ row[d].role = "taker" /\ row[d].state = "accepted"
    /\ KeepsKey(d) /\ pending'[d].id = row[d].id
    /\ Staged(row[d].peer, d, row[d].id, pending'[d].rows)

Commits(d) ==
    /\ Advances(d, "committed") /\ row[d].role = "giver" /\ row[d].state = "sent"
    /\ live[d] /\ ~live'[d] /\ HoldsFor(row[d].peer, d, row[d].id)

TakesOver(d) ==
    /\ Advances(d, "done") /\ row[d].state = "stored"
    /\ live'[d] /\ rows'[d] = pending[d].rows
    /\ ~Undertakes(row[d].peer, d, row[d].id) /\ DecidedTaker(d)

Moves(d) == \/ Stays(d) \/ Drops(d) \/ Begins(d) \/ Accepts(d) \/ Sends(d)
            \/ Stores(d) \/ Commits(d) \/ TakesOver(d)

Moved(d) == /\ DeviceTypes /\ DeviceTypes' /\ RowsMeanKeys /\ nextId \in Nat
            /\ OnlyAt(d) /\ Moves(d)

LEMMA MovesKeepRowsMeanKeys ==
    ASSUME NEW d \in Devices, Moved(d) PROVE RowsMeanKeys'
<1> SUFFICES ASSUME NEW c \in Devices
    PROVE  /\ row'[c].role = "giver" => row'[c].state \in {"offered", "sent", "committed"}
           /\ Undecided(row'[c]) => live'[c]
           /\ row'[c].state = "committed" => row'[c].role = "giver" /\ ~live'[c]
           /\ Awaits(c, row[c].id)' => ~live'[c]
           /\ row'[c].state = "stored" => row'[c].role = "taker" /\ pending'[c].id = row'[c].id
  BY DEF RowsMeanKeys
<1>1. CASE c # d
  BY <1>1 DEF Moved, OnlyAt, RowsMeanKeys, Awaits
<1>2. CASE c = d
  <2>1. CASE Stays(d) \/ Drops(d)
    BY <1>2, <2>1 DEF Moved, Stays, Drops, KeepsKey, NoRow, RowsMeanKeys, Awaits, Undecided
  <2>2. CASE Begins(d)
    BY <1>2, <2>2 DEF Moved, Begins, KeepsKey, RowsMeanKeys, Awaits, Undecided
  <2>3. CASE Accepts(d) \/ Sends(d) \/ Stores(d)
    BY <1>2, <2>3 DEF Moved, Accepts, Sends, Stores, Advances, KeepsKey, RowsMeanKeys, Awaits,
                      Undecided, DeviceTypes, Rows, NoRow
  <2>4. CASE Commits(d) \/ TakesOver(d)
    BY <1>2, <2>4 DEF Moved, Commits, TakesOver, Advances, RowsMeanKeys, Awaits, Undecided,
                      DeviceTypes, Rows, NoRow
  <2> QED
    BY <2>1, <2>2, <2>3, <2>4 DEF Moved, Moves
<1> QED
  BY <1>1, <1>2

\* Of an old handoff a device undertakes nothing anew, and what it undertakes
\* it may have sent meanwhile, with the rows it has.
LEMMA GaveBefore ==
    ASSUME NEW d \in Devices, Moved(d), NEW g \in Devices, NEW s \in Devices,
           NEW i \in Nat, i < nextId
    PROVE  /\ GaveTo(g, s, i)' => GaveTo(g, s, i)
           /\ Undertakes(g, s, i)' =>
                /\ Undertakes(g, s, i)
                /\ row[g].state = "sent" =>
                     row'[g].state = "sent" /\ (~LateAnswers => rows'[g] = rows[g])
<1>1. CASE g # d
  BY <1>1 DEF Moved, OnlyAt, Undertakes, GaveTo
<1>2. CASE g = d
  <2>1. CASE Stays(d) \/ Drops(d)
    BY <1>2, <2>1 DEF Moved, Stays, Drops, KeepsKey, NoRow, Undertakes, GaveTo, Undecided
  <2>2. CASE Begins(d)
    BY <1>2, <2>2 DEF Moved, Begins, Undertakes, GaveTo
  <2>3. CASE Accepts(d) \/ Sends(d) \/ Stores(d)
    BY <1>2, <2>3 DEF Moved, Accepts, Sends, Stores, Advances, KeepsKey, RowsMeanKeys,
                      Undertakes, GaveTo, Undecided, Awaits
  <2>4. CASE Commits(d) \/ TakesOver(d)
    BY <1>2, <2>4 DEF Moved, Commits, TakesOver, Advances, Undertakes, GaveTo, Undecided
  <2> QED
    BY <2>1, <2>2, <2>3, <2>4 DEF Moved, Moves
<1> QED
  BY <1>1, <1>2

LEMMA StagedStays ==
    ASSUME NEW d \in Devices, Moved(d), NEW g \in Devices, NEW s \in Devices,
           NEW i \in Nat, i < nextId, NEW R, Staged(g, s, i, R)
    PROVE  Undertakes(g, s, i)' => row'[g].state = "sent" /\ (~LateAnswers => R = rows'[g])
BY GaveBefore DEF Staged

\* A device awaits no handoff it did not await, but one nobody has heard of.
LEMMA AwaitsBefore ==
    ASSUME NEW d \in Devices, Moved(d), NEW s \in Devices, NEW i, Awaits(s, i)'
    PROVE  Awaits(s, i) \/ ~Heard(i)
<1>1. CASE s # d
  BY <1>1 DEF Moved, OnlyAt, Awaits
<1>2. CASE s = d
  <2>1. CASE Stays(d) \/ Drops(d)
    BY <1>2, <2>1 DEF Moved, Stays, Drops, NoRow, Awaits
  <2>2. CASE Begins(d)
    BY <1>2, <2>2 DEF Moved, Begins, Awaits
  <2>3. CASE Accepts(d) \/ Sends(d) \/ Stores(d)
    BY <1>2, <2>3 DEF Moved, Accepts, Sends, Stores, Advances, Awaits
  <2>4. CASE Commits(d) \/ TakesOver(d)
    BY <1>2, <2>4 DEF Moved, Commits, TakesOver, Advances, Awaits
  <2> QED
    BY <2>1, <2>2, <2>3, <2>4 DEF Moved, Moves
<1> QED
  BY <1>1, <1>2

\* A key held for a giver goes when the giver is no longer of that handoff, or
\* when it has committed.
LEMMA HeldStays ==
    ASSUME NEW d \in Devices, Moved(d), NEW g \in Devices, NEW s \in Devices, NEW i,
           HoldsFor(s, g, i)
    PROVE  \/ /\ HoldsFor(s, g, i)' /\ pending'[s] = pending[s]
           \/ d = s /\ ~GaveTo(g, s, i)
           \/ d = s /\ ~Undertakes(g, s, i) /\ TakesOver(s)
<1>1. CASE s # d
  BY <1>1 DEF Moved, OnlyAt, HoldsFor
<1>2. CASE s = d
  <2>1. CASE Stays(d) \/ Drops(d)
    BY <1>2, <2>1 DEF Moved, Stays, Drops, HoldsFor
  <2>2. CASE Begins(d)
    BY <1>2, <2>2 DEF Begins, HoldsFor
  <2>3. CASE Accepts(d) \/ Sends(d) \/ Stores(d)
    BY <1>2, <2>3 DEF Moved, Accepts, Sends, Stores, RowsMeanKeys, Awaits, HoldsFor
  <2>4. CASE Commits(d)
    BY <1>2, <2>4 DEF Commits, HoldsFor
  <2>5. CASE TakesOver(d)
    BY <1>2, <2>5 DEF TakesOver, HoldsFor
  <2> QED
    BY <2>1, <2>2, <2>3, <2>4, <2>5 DEF Moved, Moves
<1> QED
  BY <1>1, <1>2

LEMMA TruthStays ==
    ASSUME NEW d \in Devices, Moved(d), NEW s \in Devices, NEW g \in Devices, NEW m \in Msgs,
           IsTrue(s, g, m), m.id < nextId, m.type = "DONE" => Heard(m.id)
    PROVE  IsTrue(s, g, m)'
<1>1. m.id \in Nat
  BY BoundAssumption DEF Msgs
<1>2. m.type = "KEY" => Staged(s, g, m.id, m.rows)'
  BY <1>1, StagedStays DEF IsTrue, Staged
<1>3. m.type = "STORED" /\ Undertakes(g, s, m.id)' => HoldsFor(s, g, m.id)'
  BY <1>1, GaveBefore, HeldStays DEF IsTrue, Undertakes
<1>4. /\ m.type = "COMMIT" => ~Undertakes(s, g, m.id)'
      /\ m.type = "NOT_COMMITTED" => ~GaveTo(s, g, m.id)'
  BY <1>1, GaveBefore DEF IsTrue
<1>5. m.type = "DONE" => ~Awaits(s, m.id)'
  BY AwaitsBefore DEF IsTrue
<1> QED
  BY <1>2, <1>3, <1>4, <1>5 DEF IsTrue

LEMMA MovesKeepStoredIsStaged ==
    ASSUME NEW d \in Devices, Moved(d), StoredIsStaged, \A c \in Devices : row[c].id < nextId
    PROVE  StoredIsStaged'
<1> SUFFICES ASSUME NEW s \in Devices, row'[s].state = "stored"
             PROVE  Staged(row[s].peer, s, row[s].id, pending[s].rows)'
  BY DEF StoredIsStaged
<1>1. row[s].id = row'[s].id /\ row[s].peer = row'[s].peer
      /\ Staged(row[s].peer, s, row[s].id, pending'[s].rows)
  <2>1. CASE s # d
    BY <2>1 DEF Moved, OnlyAt, StoredIsStaged
  <2>2. CASE s = d
    <3>1. CASE Stays(d)
      BY <2>2, <3>1 DEF Stays, StoredIsStaged
    <3>2. CASE Stores(d)
      BY <2>2, <3>2 DEF Stores, Advances
    <3>3. CASE ~Stays(d) /\ ~Stores(d)
      BY <2>2, <3>3 DEF Moved, Moves, Drops, NoRow, Begins, Accepts, Sends, Commits, TakesOver,
                        Advances
    <3> QED
      BY <3>1, <3>2, <3>3
  <2> QED
    BY <2>1, <2>2
<1>2. row'[s] \in Rows
  BY DEF Moved, DeviceTypes, NoRow
<1>3. row[s].peer \in Devices /\ row[s].id \in Nat /\ row[s].id < nextId
  BY <1>1, <1>2 DEF Rows, Ids
<1>4. Undertakes(row[s].peer, s, row[s].id)' =>
        /\ row'[row'[s].peer].state = "sent"
        /\ ~LateAnswers => pending'[s].rows = rows'[row'[s].peer]
  <2>1. PICK g \in Devices : g = row[s].peer /\ g = row'[s].peer
    BY <1>1, <1>3
  <2>2. PICK i \in Nat : i = row[s].id /\ i = row'[s].id /\ i < nextId
    BY <1>1, <1>3
  <2>3. PICK R : R = pending'[s].rows
    OBVIOUS
  <2>4. Staged(g, s, i, R)
    BY <1>1, <2>1, <2>2, <2>3
  <2>5. Undertakes(g, s, i)' => row'[g].state = "sent" /\ (~LateAnswers => R = rows'[g])
    BY <2>2, <2>4, StagedStays
  <2> QED
    BY <2>1, <2>2, <2>3, <2>5 DEF Undertakes
<1> QED
  BY <1>4 DEF Staged

-----------------------------------------------------------------------------
(* Heirs.                                                                  *)

LEMMA HeirsAre ==
    ASSUME DeviceTypes, RowsMeanKeys
    PROVE  \A s \in Devices : s \in Heirs <=> \E g \in Devices : Bequeaths(g, s)
<1> SUFFICES ASSUME NEW s \in Devices, NEW g \in Devices
    PROVE  Bequeaths(g, s) <=>
             /\ row[g] = [id |-> pending[s].id, role |-> "giver", peer |-> s,
                          state |-> "committed"]
             /\ row[s] = [id |-> pending[s].id, role |-> "taker", peer |-> g,
                          state |-> "stored"]
  BY DEF Heirs
<1>1. ASSUME Bequeaths(g, s)
      PROVE  /\ row[g] = [id |-> pending[s].id, role |-> "giver", peer |-> s,
                          state |-> "committed"]
             /\ row[s] = [id |-> pending[s].id, role |-> "taker", peer |-> g,
                          state |-> "stored"]
  <2>1. /\ row[g].role = "giver" /\ row[g].peer = s /\ row[g].state = "committed"
        /\ row[s].role = "taker" /\ row[s].peer = g /\ row[s].state = "stored"
        /\ row[g].id = pending[s].id /\ row[s].id = pending[s].id
    BY <1>1 DEF Bequeaths, HoldsFor, HasCommitted, GaveTo, RowsMeanKeys
  <2>2. row[g] \in Rows /\ row[s] \in Rows
    BY <2>1 DEF DeviceTypes, NoRow
  <2> QED
    BY <2>1, <2>2 DEF Rows
<1>2. ASSUME row[g] = [id |-> pending[s].id, role |-> "giver", peer |-> s,
                       state |-> "committed"],
             row[s] = [id |-> pending[s].id, role |-> "taker", peer |-> g,
                       state |-> "stored"]
      PROVE  Bequeaths(g, s)
  BY <1>2 DEF Bequeaths, HoldsFor, HasCommitted, GaveTo
<1> QED
  BY <1>1, <1>2

\* With an heir there is no host, and no other device may take over.
LEMMA HeirIsAlone ==
    ASSUME DeviceTypes, RowsMeanKeys, Custodial,
           NEW g \in Devices, NEW s \in Devices, Bequeaths(g, s)
    PROVE  Hosts = {} /\ \A t \in Devices : DecidedTaker(t) => t = s
<1>1. row[g].id \in Ids
  BY DEF Bequeaths, HasCommitted, GaveTo, DeviceTypes, Rows, NoRow
<1>2. DecidedTaker(s)
  BY <1>1 DEF Bequeaths, HasCommitted, GaveTo, HoldsFor, DecidedTaker, Decided, Taker
<1>3. ~live[s]
  BY DEF Bequeaths, HoldsFor, RowsMeanKeys, Awaits
<1> QED
  BY <1>2, <1>3 DEF Custodial, DecidedIsAlone, Hosts

LEMMA OneHeir ==
    ASSUME DeviceTypes, RowsMeanKeys, Custodial, NEW s \in Heirs
    PROVE  Hosts = {} /\ Heirs = {s}
<1>1. s \in Devices
  BY DEF Heirs
<1>2. PICK g \in Devices : Bequeaths(g, s)
  BY <1>1, HeirsAre
<1>3. ASSUME NEW t \in Heirs PROVE t = s
  <2>1. t \in Devices
    BY DEF Heirs
  <2>2. PICK h \in Devices : Bequeaths(h, t)
    BY <2>1, HeirsAre
  <2>3. row[h].id \in Ids
    BY <2>2 DEF Bequeaths, HasCommitted, GaveTo, DeviceTypes, Rows, NoRow
  <2>4. DecidedTaker(t)
    BY <2>1, <2>2, <2>3
    DEF Bequeaths, HasCommitted, GaveTo, HoldsFor, DecidedTaker, Decided, Taker
  <2> QED
    BY <1>1, <1>2, <2>1, <2>4, HeirIsAlone
<1> QED
  BY <1>1, <1>2, <1>3, HeirIsAlone

\* What is bequeathed stays so until the heir takes over.
LEMMA BequestStays ==
    ASSUME NEW d \in Devices, Moved(d), NEW g \in Devices, NEW s \in Devices,
           Bequeaths(g, s), ~TakesOver(s)
    PROVE  Bequeaths(g, s)' /\ pending'[s] = pending[s]
<1>1. PICK i : i = row[g].id
  OBVIOUS
<1>2. HoldsFor(s, g, i) /\ GaveTo(g, s, i) /\ row[g].state = "committed" /\ row[g].peer = s
  BY <1>1 DEF Bequeaths, HasCommitted, GaveTo
<1>3. HoldsFor(s, g, i)' /\ pending'[s] = pending[s]
  BY <1>2, HeldStays
<1>4. row'[g] = row[g]
  <2>1. CASE g # d
    BY <2>1 DEF Moved, OnlyAt
  <2>2. CASE g = d
    <3>1. ~Drops(d)
      BY <1>1, <1>2, <2>2 DEF Drops, HoldsFor, Awaits
    <3>2. ~Sends(d) /\ ~Commits(d)
      BY <1>2, <2>2 DEF Moved, Sends, Commits, RowsMeanKeys
    <3>3. ~Begins(d) /\ ~Accepts(d) /\ ~Stores(d) /\ ~TakesOver(d)
      BY <1>2, <2>2 DEF Begins, Accepts, Stores, TakesOver
    <3> QED
      BY <2>2, <3>1, <3>2, <3>3 DEF Moved, Moves, Stays
  <2> QED
    BY <2>1, <2>2
<1> QED
  BY <1>1, <1>2, <1>3, <1>4 DEF Bequeaths, HasCommitted, GaveTo, HoldsFor

\* The decision: the successor it names holds the key.
LEMMA CommitBequeaths ==
    ASSUME NEW d \in Devices, Moved(d), Commits(d)
    PROVE  \E s \in Devices : /\ s = row[d].peer /\ s # d /\ row[s].state = "stored"
                              /\ pending'[s] = pending[s] /\ Bequeaths(d, s)'
<1>1. row[d] \in Rows
  BY DEF Commits, Moved, DeviceTypes, NoRow
<1>2. PICK s \in Devices : s = row[d].peer
  BY <1>1 DEF Rows
<1>3. HoldsFor(s, d, row[d].id) /\ s # d
  BY <1>2 DEF Commits, HoldsFor
<1>4. row'[s] = row[s] /\ pending'[s] = pending[s]
  BY <1>3 DEF Moved, OnlyAt
<1>5. Bequeaths(d, s)'
  BY <1>2, <1>3, <1>4 DEF Bequeaths, HoldsFor, HasCommitted, GaveTo, Commits, Advances
<1> QED
  BY <1>2, <1>3, <1>4, <1>5 DEF HoldsFor

\* Keys move in a decision and when the heir takes over.
LEMMA KeysMove ==
    ASSUME NEW d \in Devices, Moved(d)
    PROVE  /\ ~Commits(d) /\ ~TakesOver(d) => Hosts' = Hosts
           /\ Commits(d) => Hosts' = Hosts \ {d}
           /\ TakesOver(d) => Hosts' = Hosts \cup {d}
<1>1. \A c \in Devices \ {d} : live'[c] = live[c]
  BY DEF Moved, OnlyAt
<1>2. ~Commits(d) /\ ~TakesOver(d) => live'[d] = live[d]
  BY DEF Moved, Moves, Stays, Drops, Begins, Accepts, Sends, Stores, KeepsKey
<1> QED
  BY <1>1, <1>2 DEF Hosts, Commits, TakesOver

LEMMA MovesKeepHostOrHeir ==
    ASSUME NEW d \in Devices, Moved(d), HostOrHeir PROVE HostOrHeir'
<1>1. CASE Commits(d)
  BY <1>1, CommitBequeaths DEF HostOrHeir
<1>2. CASE TakesOver(d)
  BY <1>2, KeysMove DEF HostOrHeir
<1>3. CASE ~Commits(d) /\ ~TakesOver(d)
  <2> SUFFICES ASSUME Hosts' = {} PROVE \E g, s \in Devices : Bequeaths(g, s)'
    BY DEF HostOrHeir
  <2>1. PICK g \in Devices, s \in Devices : Bequeaths(g, s)
    BY <1>3, KeysMove DEF HostOrHeir
  <2>2. ~TakesOver(s)
    <3>1. TakesOver(s) => s = d
      BY DEF TakesOver, Moved, OnlyAt, Advances
    <3> QED
      BY <1>3, <3>1
  <2> QED
    BY <2>1, <2>2, BequestStays
<1> QED
  BY <1>1, <1>2, <1>3

\* The successor of the abstract specification.
Heir == IF Hosts # {} \/ Heirs = {} THEN NoDevice ELSE CHOOSE s \in Heirs : TRUE

Sound == DeviceTypes /\ RowsMeanKeys /\ Custodial /\ HostOrHeir

HeirLaws ==
    Sound => /\ \A s \in Devices : s \in Heirs <=> \E g \in Devices : Bequeaths(g, s)
             /\ \A s \in Heirs : Hosts = {} /\ Heirs = {s} /\ Heir = s
             /\ Hosts # {} => Heir = NoDevice

LEMMA HeirIs == HeirLaws
<1>1. \A s : Hosts = {} /\ Heirs = {s} => Heir = s
  BY DEF Heir
<1>2. Hosts # {} => Heir = NoDevice
  BY DEF Heir
<1> QED
  BY <1>1, <1>2, HeirsAre, OneHeir DEF HeirLaws, Sound

LEMMA HeirIsThen == HeirLaws'
BY HeirIs, PTL

\* A move is the decision, the take-over, or nothing to custody.
LEMMA MovesKeepCustody ==
    ASSUME NEW d \in Devices, Moved(d), Sound, Sound'
    PROVE  \/ UNCHANGED <<Hosts, Heir>>
           \/ \E s \in Devices : s # d /\ Hosts = {d} /\ Hosts' = {} /\ Heir' = s
           \/ Hosts = {} /\ Hosts' = {Heir} /\ Heir' = NoDevice
<1>1. CASE Commits(d)
  <2>1. Hosts = {d} /\ Hosts' = {}
    BY <1>1, KeysMove DEF Commits, Sound, Custodial, AtMostOneLiveKey, Hosts
  <2>2. PICK s \in Devices : s # d /\ Bequeaths(d, s)'
    BY <1>1, CommitBequeaths
  <2>3. Heir' = s
    BY <2>2, HeirIsThen DEF HeirLaws
  <2> QED
    BY <2>1, <2>2, <2>3
<1>2. CASE TakesOver(d)
  <2>1. Hosts = {}
    BY <1>2 DEF TakesOver, Sound, RowsMeanKeys, Awaits, Custodial, DecidedIsAlone, Hosts
  <2>2. PICK g \in Devices, s \in Devices : Bequeaths(g, s)
    BY <2>1 DEF Sound, HostOrHeir
  <2>3. s = d
    BY <1>2, <2>2, HeirIsAlone DEF Sound, TakesOver
  <2>4. Heir = d
    BY <2>2, <2>3, HeirIs DEF HeirLaws
  <2>5. Hosts' = {d}
    BY <1>2, <2>1, KeysMove
  <2>6. Heir' = NoDevice
    BY <2>5, HeirIsThen DEF HeirLaws
  <2> QED
    BY <2>1, <2>4, <2>5, <2>6
<1>3. CASE ~Commits(d) /\ ~TakesOver(d)
  <2>1. Hosts' = Hosts
    BY <1>3, KeysMove
  <2>2. CASE Hosts # {}
    BY <2>1, <2>2, HeirIs, HeirIsThen DEF HeirLaws
  <2>3. CASE Hosts = {}
    <3>1. PICK g \in Devices, s \in Devices : Bequeaths(g, s)
      BY <2>3 DEF Sound, HostOrHeir
    <3>2. ~TakesOver(s)
      BY <1>3 DEF TakesOver, Moved, OnlyAt, Advances
    <3>3. Bequeaths(g, s)'
      BY <3>1, <3>2, BequestStays
    <3>4. Heir = s /\ Heir' = s
      BY <3>1, <3>3, HeirIs, HeirIsThen DEF HeirLaws
    <3> QED
      BY <2>1, <3>4
  <2> QED
    BY <2>2, <2>3
<1> QED
  BY <1>1, <1>2, <1>3

LEMMA MovesKeepAnswers ==
    ASSUME NEW d \in Devices, Moved(d), Sound, Sound', StoredIsStaged, ~LateAnswers
    PROVE  HostAnswers \subseteq HostAnswers'
<1>1. ASSUME NEW h \in Hosts, NEW x \in rows[h] PROVE x \in HostAnswers'
  <2>1. h \in Devices /\ live[h]
    BY DEF Hosts
  <2>2. CASE h = d /\ Commits(d)
    <3>1. PICK s \in Devices : /\ s = row[d].peer /\ row[s].state = "stored"
                               /\ pending'[s] = pending[s] /\ Bequeaths(d, s)'
      BY <2>2, CommitBequeaths
    <3>2. pending[s].rows = rows[d]
      BY <2>2, <3>1 DEF StoredIsStaged, Staged, Undertakes, Undecided, GaveTo, Commits, HoldsFor
    <3>3. s \in Heirs'
      BY <3>1, HeirIsThen DEF HeirLaws
    <3> QED
      BY <2>2, <3>1, <3>2, <3>3 DEF HostAnswers
  <2>3. CASE ~(h = d /\ Commits(d))
    <3>1. live'[h] /\ rows[h] \subseteq rows'[h]
      <4>1. CASE h # d
        BY <2>1, <4>1 DEF Moved, OnlyAt
      <4>2. CASE h = d
        BY <2>1, <2>3, <4>2 DEF Moved, Moves, Stays, Drops, Begins, Accepts, Sends, Stores,
                                TakesOver, KeepsKey, RowsMeanKeys, Awaits
      <4> QED
        BY <4>1, <4>2
    <3> QED
      BY <2>1, <3>1 DEF HostAnswers, Hosts
  <2> QED
    BY <2>2, <2>3
<1>2. ASSUME NEW s \in Heirs, NEW x \in pending[s].rows PROVE x \in HostAnswers'
  <2>1. s \in Devices
    BY DEF Heirs
  <2>2. PICK g \in Devices : Bequeaths(g, s)
    BY <2>1, HeirsAre DEF Sound
  <2>3. CASE TakesOver(s)
    <3>1. s \in Hosts' /\ rows'[s] = pending[s].rows
      BY <2>1, <2>3 DEF TakesOver, Hosts
    <3> QED
      BY <3>1 DEF HostAnswers
  <2>4. CASE ~TakesOver(s)
    <3>1. Bequeaths(g, s)' /\ pending'[s] = pending[s]
      BY <2>1, <2>2, <2>4, BequestStays
    <3>2. s \in Heirs'
      BY <2>1, <2>2, <3>1, HeirIsThen DEF HeirLaws
    <3> QED
      BY <3>1, <3>2 DEF HostAnswers
  <2> QED
    BY <2>3, <2>4
<1> QED
  BY <1>1, <1>2 DEF HostAnswers

-----------------------------------------------------------------------------
(* The handlers' moves.                                                    *)

LEMMA StayMoves ==
    ASSUME NEW d \in Devices, UNCHANGED <<row, live, pending, rows>>
    PROVE  OnlyAt(d) /\ Stays(d)
BY DEF OnlyAt, Stays

LEMMA ClearMoves ==
    ASSUME NEW d \in Devices, DeviceTypes, ClearRow(d), UNCHANGED <<live, rows>>,
           \A c \in Devices \ {d} : pending'[c] = pending[c],
           row[d].state = "stored" => ~GaveTo(row[d].peer, d, row[d].id),
           row[d].state = "committed" => ~Awaits(row[d].peer, row[d].id)
    PROVE  OnlyAt(d) /\ Drops(d)
<1>1. row'[d] = NoRow /\ \A c \in Devices \ {d} : row'[c] = row[c]
  BY DEF ClearRow, DeviceTypes
<1> QED
  BY <1>1 DEF OnlyAt, Drops, KeepsKey

LEMMA SetMoves ==
    ASSUME NEW d \in Devices, DeviceTypes, NEW s \in States, SetState(d, s)
    PROVE  /\ \A c \in Devices \ {d} : row'[c] = row[c]
           /\ row[d] = NoRow => row' = row
           /\ row[d] # NoRow => Advances(d, s)
<1>1. CASE row[d] = NoRow
  <2>1. row' = row
    BY <1>1 DEF SetState, NoRow, DeviceTypes
  <2> QED
    BY <1>1, <2>1
<1>2. CASE row[d] # NoRow
  <2>1. row' = [row EXCEPT ![d] = [row[d] EXCEPT !.state = s]] /\ row[d] \in Rows
    BY <1>2 DEF SetState, DeviceTypes
  <2> QED
    BY <1>2, <2>1 DEF Rows, Advances, DeviceTypes
<1> QED
  BY <1>1, <1>2

LEMMA ExpireMoves ==
    ASSUME NEW d \in Devices, DeviceTypes, Expire(d) PROVE OnlyAt(d) /\ Drops(d)
BY ClearMoves DEF Expire, Clearable, Undecided, Unstored

LEMMA AbandonMoves ==
    ASSUME NEW d \in Devices, NEW i, DeviceTypes, Abandon(d, i)
    PROVE  OnlyAt(d) /\ (Drops(d) \/ Stays(d))
<1>1. CASE UNCHANGED deviceVars
  BY <1>1, StayMoves DEF deviceVars
<1>2. CASE ~UNCHANGED deviceVars
  BY <1>2, ClearMoves DEF Abandon, Clearable, Undecided, Unstored
<1> QED
  BY <1>1, <1>2

LEMMA OfferMoves ==
    ASSUME NEW d \in Devices, NEW p \in Devices, NEW m \in Msgs, m.id \in Ids,
           DeviceTypes, ~Heard(m.id), TakesOffer(d, p, m), OnOffer(d, p, m)
    PROVE  OnlyAt(d) /\ (Stays(d) \/ Begins(d))
<1>1. CASE row[d].id = m.id
  BY <1>1, StayMoves DEF OnOffer, deviceVars
<1>2. CASE row[d].id # m.id
  <2>1. row' = [row EXCEPT ![d] = [id |-> m.id, role |-> "taker", peer |-> p,
                                   state |-> "offered"]]
        /\ UNCHANGED <<live, pending, rows>> /\ ~live[d]
    BY <1>2 DEF OnOffer, TakesOffer
  <2>2. row[d].state \notin {"stored", "committed"}
    BY <1>2 DEF TakesOffer, Clearable, Undecided, Unstored, DeviceTypes, Rows, NoRow, Ids
  <2>3. \A c \in Devices \ {d} : row'[c] = row[c]
    BY <2>1 DEF DeviceTypes
  <2>4. row'[d].role = "taker" /\ row'[d].id = m.id /\ row'[d].state = "offered"
    BY <2>1 DEF DeviceTypes
  <2> QED
    BY <2>1, <2>2, <2>3, <2>4 DEF OnlyAt, Begins, KeepsKey
<1> QED
  BY <1>1, <1>2

LEMMA KeyMoves ==
    ASSUME NEW d \in Devices, NEW p \in Devices, NEW m \in Msgs, m.type = "KEY",
           DeviceTypes, IsTrue(p, d, m), TakesKey(d, p, m), OnKey(d, p, m)
    PROVE  OnlyAt(d) /\ (Stays(d) \/ Stores(d)) /\ HoldsFor(d, p, m.id)'
<1>1. row[d].role = "taker" /\ row[d].id = m.id /\ row[d].peer = p /\ row[d] # NoRow
  BY DEF TakesKey, Party, NoRow
<1>2. CASE row[d].state = "stored"
  <2>1. UNCHANGED deviceVars
    BY <1>2 DEF OnKey
  <2> QED
    BY <1>1, <1>2, <2>1, StayMoves DEF deviceVars, HoldsFor
<1>3. CASE row[d].state # "stored"
  <2>1. /\ pending' = [pending EXCEPT ![d] = [id |-> m.id, rows |-> m.rows]]
        /\ SetState(d, "stored") /\ UNCHANGED <<live, rows>> /\ row[d].state = "accepted"
    BY <1>3 DEF OnKey, TakesKey
  <2>2. "stored" \in States
    BY DEF States
  <2>3. /\ \A c \in Devices \ {d} : row'[c] = row[c] /\ pending'[c] = pending[c]
        /\ Advances(d, "stored") /\ pending'[d].id = m.id /\ pending'[d].rows = m.rows
    BY <1>1, <2>1, <2>2, SetMoves DEF DeviceTypes
  <2>4. Stores(d)
    BY <1>1, <2>1, <2>3 DEF Stores, KeepsKey, IsTrue
  <2> QED
    BY <1>1, <2>1, <2>3, <2>4 DEF OnlyAt, HoldsFor, Advances
<1> QED
  BY <1>2, <1>3

LEMMA StoredMoves ==
    ASSUME NEW d \in Devices, NEW p \in Devices, NEW m \in Msgs, m.type = "STORED",
           DeviceTypes, RowsMeanKeys, IsTrue(p, d, m), TakesStored(d, p, m), OnStored(d, p, m)
    PROVE  OnlyAt(d) /\ (Stays(d) \/ Commits(d)) /\ ~Undertakes(d, p, m.id)'
<1>1. row[d].role = "giver" /\ row[d].id = m.id /\ row[d].peer = p /\ row[d] # NoRow
  BY DEF TakesStored, Party, NoRow
<1>2. CASE row[d].state = "committed"
  <2>1. UNCHANGED deviceVars
    BY <1>2 DEF OnStored
  <2> QED
    BY <1>2, <2>1, StayMoves DEF deviceVars, Undertakes, Undecided
<1>3. CASE row[d].state # "committed"
  <2>1. /\ live' = [live EXCEPT ![d] = FALSE] /\ rows' = [rows EXCEPT ![d] = {}]
        /\ SetState(d, "committed") /\ UNCHANGED pending
        /\ row[d].state = "sent" /\ live[d]
    BY <1>3 DEF OnStored, TakesStored
  <2>2. "committed" \in States
    BY DEF States
  <2>3. /\ \A c \in Devices \ {d} : row'[c] = row[c] /\ live'[c] = live[c] /\ rows'[c] = rows[c]
        /\ Advances(d, "committed") /\ ~live'[d]
    BY <1>1, <2>1, <2>2, SetMoves DEF DeviceTypes
  <2>4. HoldsFor(p, d, m.id)
    BY <1>1, <2>1 DEF IsTrue, Undertakes, GaveTo, Undecided
  <2>5. Commits(d)
    BY <1>1, <2>1, <2>3, <2>4 DEF Commits
  <2> QED
    BY <2>1, <2>3, <2>5 DEF OnlyAt, Undertakes, Undecided, Advances
<1> QED
  BY <1>2, <1>3

LEMMA CommitMoves ==
    ASSUME NEW d \in Devices, NEW p \in Devices, NEW m \in Msgs, m.type = "COMMIT",
           DeviceTypes, IsTrue(p, d, m), Decided(m.id), TakesCommit(d, p, m), OnCommit(d, p, m)
    PROVE  OnlyAt(d) /\ (Stays(d) \/ TakesOver(d)) /\ ~Awaits(d, m.id)'
<1>1. row[d].role = "taker" /\ row[d].id = m.id /\ row[d].peer = p /\ row[d] # NoRow
  BY DEF TakesCommit, Activates, Party, NoRow
<1>2. CASE row[d].state = "done"
  <2>1. UNCHANGED deviceVars
    BY <1>2 DEF OnCommit
  <2> QED
    BY <1>2, <2>1, StayMoves DEF deviceVars, Awaits
<1>3. CASE row[d].state # "done"
  <2>1. /\ live' = [live EXCEPT ![d] = TRUE] /\ rows' = [rows EXCEPT ![d] = pending[d].rows]
        /\ pending' = [pending EXCEPT ![d] = NoPending]
        /\ SetState(d, "done") /\ row[d].state = "stored"
    BY <1>3 DEF OnCommit, TakesCommit, Activates
  <2>2. "done" \in States
    BY DEF States
  <2>3. /\ \A c \in Devices \ {d} : /\ row'[c] = row[c] /\ live'[c] = live[c]
                                    /\ rows'[c] = rows[c] /\ pending'[c] = pending[c]
        /\ Advances(d, "done") /\ live'[d] /\ rows'[d] = pending[d].rows
    BY <1>1, <2>1, <2>2, SetMoves DEF DeviceTypes
  <2>4. DecidedTaker(d)
    BY <1>1 DEF DecidedTaker, Taker, DeviceTypes, Rows
  <2>5. TakesOver(d)
    BY <1>1, <2>1, <2>3, <2>4 DEF TakesOver, IsTrue
  <2> QED
    BY <2>3, <2>5 DEF OnlyAt, Awaits, Advances
<1> QED
  BY <1>2, <1>3

LEMMA StatusMoves ==
    ASSUME NEW d \in Devices, NEW p \in Devices, NEW m \in Msgs, m.type = "STATUS",
           DeviceTypes, RowsMeanKeys, OnStatus(d, p, m)
    PROVE  /\ OnlyAt(d) /\ (Stays(d) \/ Drops(d))
           /\ HasCommitted(d, p, m.id) => ~Undertakes(d, p, m.id)'
           /\ ~HasCommitted(d, p, m.id) => ~GaveTo(d, p, m.id)'
<1>1. CASE GaveTo(d, p, m.id) /\ Undecided(row[d])
  <2>1. ClearRow(d) /\ UNCHANGED <<live, pending, rows>>
    BY <1>1 DEF OnStatus
  <2>2. OnlyAt(d) /\ Drops(d)
    BY <1>1, <2>1, ClearMoves DEF Undecided
  <2> QED
    BY <2>2 DEF Drops, NoRow, Undertakes, GaveTo
<1>2. CASE ~(GaveTo(d, p, m.id) /\ Undecided(row[d]))
  <2>1. ~HasCommitted(d, p, m.id) => ~GaveTo(d, p, m.id)
    BY <1>2 DEF HasCommitted, GaveTo, Undecided, RowsMeanKeys
  <2>2. CASE UNCHANGED deviceVars
    BY <1>2, <2>1, <2>2, StayMoves DEF deviceVars, GaveTo, Undertakes
  <2>3. CASE Expire(d)
    <3>1. OnlyAt(d) /\ Drops(d)
      BY <2>3, ExpireMoves
    <3> QED
      BY <3>1 DEF Drops, NoRow, Undertakes, GaveTo
  <2> QED
    BY <1>2, <2>2, <2>3 DEF OnStatus
<1> QED
  BY <1>1, <1>2

LEMMA EndMoves ==
    ASSUME NEW d \in Devices, NEW p \in Devices, NEW m \in Msgs, DeviceTypes, IsTrue(p, d, m),
           \/ m.type = "DONE" /\ OnDone(d, p, m)
           \/ m.type = "NOT_COMMITTED" /\ Party(d, "taker", p, m.id) /\ OnNotCommitted(d, p, m)
    PROVE  OnlyAt(d) /\ (Stays(d) \/ Drops(d))
<1>1. CASE m.type = "DONE" /\ OnDone(d, p, m)
  <2>1. UNCHANGED <<live, pending, rows>>
    BY <1>1 DEF OnDone
  <2>2. CASE UNCHANGED row
    BY <2>1, <2>2, StayMoves
  <2>3. CASE row' # row
    BY <1>1, <2>1, <2>3, ClearMoves DEF OnDone, IsTrue
  <2> QED
    BY <2>2, <2>3
<1>2. CASE m.type = "NOT_COMMITTED" /\ Party(d, "taker", p, m.id) /\ OnNotCommitted(d, p, m)
  <2>1. CASE UNCHANGED deviceVars
    BY <2>1, StayMoves DEF deviceVars
  <2>2. CASE ~UNCHANGED deviceVars
    <3>1. /\ pending' = [pending EXCEPT ![d] = NoPending] /\ ClearRow(d)
          /\ UNCHANGED <<live, rows>> /\ row[d].state \in {"offered", "accepted", "stored"}
      BY <1>2, <2>2 DEF OnNotCommitted
    <3>2. \A c \in Devices \ {d} : pending'[c] = pending[c]
      BY <3>1 DEF DeviceTypes
    <3>3. ~GaveTo(row[d].peer, d, row[d].id)
      BY <1>2 DEF IsTrue, Party
    <3> QED
      BY <3>1, <3>2, <3>3, ClearMoves
  <2> QED
    BY <2>1, <2>2
<1> QED
  BY <1>1, <1>2

LEMMA AnswerTells ==
    ASSUME NEW d \in Devices, NEW p \in Devices, NEW m \in Msgs, NEW a, a = Answer(d, p, m),
           m.type = "KEY" => HoldsFor(d, p, m.id)',
           m.type = "STORED" => ~Undertakes(d, p, m.id)',
           m.type = "COMMIT" => ~Awaits(d, m.id)',
           m.type = "STATUS" /\ HasCommitted(d, p, m.id) => ~Undertakes(d, p, m.id)',
           m.type = "STATUS" /\ ~HasCommitted(d, p, m.id) => ~GaveTo(d, p, m.id)'
    PROVE  IsTrue(d, p, a)'
<1>1. m.id \in 0..MaxHandoffs /\ a.id = m.id
  BY AnswerTypes DEF Msgs
<1>2. CASE m.type = "KEY"
  <2>1. a.type = "STORED"
    BY <1>1, <1>2, NewMsg DEF Answer
  <2> QED
    BY <1>1, <1>2, <2>1 DEF IsTrue
<1>3. CASE m.type = "STORED"
  <2>1. a.type = "COMMIT"
    BY <1>1, <1>3, NewMsg DEF Answer
  <2> QED
    BY <1>1, <1>3, <2>1 DEF IsTrue
<1>4. CASE m.type = "COMMIT"
  <2>1. a.type = "DONE"
    BY <1>1, <1>4, NewMsg DEF Answer
  <2> QED
    BY <1>1, <1>4, <2>1 DEF IsTrue
<1>5. CASE m.type = "STATUS" /\ HasCommitted(d, p, m.id)
  <2>1. a.type = "COMMIT"
    BY <1>1, <1>5, NewMsg DEF Answer
  <2> QED
    BY <1>1, <1>5, <2>1 DEF IsTrue
<1>6. CASE m.type = "STATUS" /\ ~HasCommitted(d, p, m.id)
  <2>1. a.type = "NOT_COMMITTED"
    BY <1>1, <1>6, NewMsg DEF Answer
  <2> QED
    BY <1>1, <1>6, <2>1 DEF IsTrue
<1>7. CASE m.type \notin {"KEY", "STORED", "COMMIT", "STATUS"}
  <2>1. a.type = "ACK"
    BY <1>1, <1>7, NewMsg DEF Answer
  <2> QED
    BY <2>1 DEF IsTrue
<1> QED
  BY <1>2, <1>3, <1>4, <1>5, <1>6, <1>7

\* A message handled moves its device, and the answer tells the truth.
LEMMA HandlingMoves ==
    ASSUME NEW d \in Devices, NEW p \in Devices, NEW m \in Msgs, Handled(m),
           DeviceTypes, RowsMeanKeys, IsTrue(p, d, m), Takes(d, p, m), Effect(d, p, m),
           m.type = "COMMIT" => Decided(m.id), m.type = "OFFER" => ~Heard(m.id),
           NEW a, a = Answer(d, p, m)
    PROVE  OnlyAt(d) /\ Moves(d) /\ IsTrue(d, p, a)'
<1>1. CASE m.type = "OFFER"
  <2>1. OnlyAt(d) /\ Moves(d)
    BY <1>1, OfferMoves DEF Takes, Effect, Handled, Moves
  <2> QED
    BY <1>1, <2>1, AnswerTells
<1>2. CASE m.type = "KEY"
  <2>1. OnlyAt(d) /\ Moves(d) /\ HoldsFor(d, p, m.id)'
    BY <1>2, KeyMoves DEF Takes, Effect, Moves
  <2> QED
    BY <1>2, <2>1, AnswerTells
<1>3. CASE m.type = "STORED"
  <2>1. OnlyAt(d) /\ Moves(d) /\ ~Undertakes(d, p, m.id)'
    BY <1>3, StoredMoves DEF Takes, Effect, Moves
  <2> QED
    BY <1>3, <2>1, AnswerTells
<1>4. CASE m.type = "COMMIT"
  <2>1. OnlyAt(d) /\ Moves(d) /\ ~Awaits(d, m.id)'
    BY <1>4, CommitMoves DEF Takes, Effect, Moves
  <2> QED
    BY <1>4, <2>1, AnswerTells
<1>5. CASE m.type = "STATUS"
  <2>1. /\ OnlyAt(d) /\ Moves(d)
        /\ HasCommitted(d, p, m.id) => ~Undertakes(d, p, m.id)'
        /\ ~HasCommitted(d, p, m.id) => ~GaveTo(d, p, m.id)'
    BY <1>5, StatusMoves DEF Effect, Moves
  <2> QED
    BY <1>5, <2>1, AnswerTells
<1>6. CASE m.type \in {"DONE", "NOT_COMMITTED"}
  <2>1. OnlyAt(d) /\ Moves(d)
    BY <1>6, EndMoves DEF Takes, Effect, Moves
  <2> QED
    BY <1>6, <2>1, AnswerTells
<1>7. CASE m.type = "ERROR"
  <2>1. OnlyAt(d) /\ Moves(d)
    BY <1>7, AbandonMoves DEF Effect, Moves
  <2> QED
    BY <1>7, <2>1, AnswerTells
<1>8. CASE m.type \notin {"OFFER", "KEY", "STORED", "COMMIT", "DONE", "STATUS",
                          "NOT_COMMITTED", "ERROR"}
  <2>1. OnlyAt(d) /\ Moves(d)
    BY <1>8, StayMoves DEF Effect, deviceVars, Moves
  <2> QED
    BY <1>8, <2>1, AnswerTells
<1> QED
  BY <1>1, <1>2, <1>3, <1>4, <1>5, <1>6, <1>7, <1>8

-----------------------------------------------------------------------------
(* Every action is a move, and every message it sends is true.             *)

Carried(s, g, m) == \E e \in exchanges : \/ s = e.from /\ g = e.to /\ m = e.msg
                                         \/ s = e.to /\ g = e.from /\ m = e.reply

Told(s, g, m) == Carried(s, g, m) \/ IsTrue(s, g, m)'

Follows ==
    /\ \E d \in Devices : OnlyAt(d) /\ Moves(d)
    /\ AcceptsAlone'
    /\ \A x \in exchanges' : Told(x.from, x.to, x.msg) /\ Told(x.to, x.from, x.reply)

LEMMA Idle ==
    ASSUME NEW s, NEW g, NEW m,
           m.type \notin {"KEY", "STORED", "COMMIT", "NOT_COMMITTED", "DONE"}
    PROVE  Told(s, g, m)
BY DEF Told, IsTrue

LEMMA CarriedIsTrue ==
    ASSUME TypeOK, WireIsTrue, IdsAreOld, OfferIsFirst, NEW s, NEW g, NEW m, Carried(s, g, m)
    PROVE  /\ s \in Devices /\ g \in Devices /\ m \in Msgs /\ IsTrue(s, g, m)
           /\ m.id < nextId /\ (m.type = "DONE" => Heard(m.id))
<1>1. PICK e \in exchanges : \/ s = e.from /\ g = e.to /\ m = e.msg
                             \/ s = e.to /\ g = e.from /\ m = e.reply
  BY DEF Carried
<1>2. e.from \in Devices /\ e.to \in Devices /\ e.msg \in Msgs /\ e.reply \in Msgs
  BY DEF TypeOK
<1>3. IsTrue(s, g, m) /\ m.id < nextId
  BY <1>1 DEF WireIsTrue, IdsAreOld
<1>4. ASSUME m.type = "DONE" PROVE ~Offers(e)
  BY <1>1, <1>4, NoMsgType DEF OfferIsFirst, Offers
<1>5. m.type = "DONE" => Heard(m.id)
  BY <1>1, <1>4 DEF Heard
<1> QED
  BY <1>1, <1>2, <1>3, <1>5

LEMMA MovesKeepAccepts ==
    ASSUME NEW d \in Devices, OnlyAt(d), Moves(d), AcceptsAlone, TypeOK,
           accepting' \subseteq accepting
    PROVE  AcceptsAlone'
<1> SUFFICES ASSUME NEW a \in accepting'
             PROVE  /\ ~live'[a.dev] /\ row'[a.dev].state \in {"none", "offered"}
                    /\ \A b \in accepting' : b.dev = a.dev => b = a
  BY DEF AcceptsAlone
<1>1. /\ ~live[a.dev] /\ row[a.dev].state \in {"none", "offered"} /\ a.dev \in Devices
      /\ \A b \in accepting' : b.dev = a.dev => b = a
  BY DEF AcceptsAlone, TypeOK
<1>2. CASE a.dev # d
  BY <1>1, <1>2 DEF OnlyAt
<1>3. CASE a.dev = d
  BY <1>1, <1>3 DEF Moves, Stays, Drops, Begins, Accepts, Sends, Stores, Commits, TakesOver,
                    KeepsKey, NoRow
<1> QED
  BY <1>1, <1>2, <1>3

\* What follows keeps custody's invariant, and moves custody as it promises.
LEMMA FollowsKeeps ==
    ASSUME IInv, IInv', Kept, Follows
    PROVE  Kept' /\ \E d \in Devices : Moved(d)
<1>1. PICK d \in Devices : OnlyAt(d) /\ Moves(d)
  BY DEF Follows
<1>2. /\ TypeOK /\ DeviceTypes /\ DeviceTypes' /\ RowsMeanKeys /\ nextId \in Nat
  BY TypeParts DEF IInv, Kept, TypeOK, DeviceTypes
<1>3. Moved(d)
  BY <1>1, <1>2 DEF Moved
<1>4. WireIsTrue'
  <2>1. ASSUME NEW s, NEW g, NEW m, Told(s, g, m) PROVE IsTrue(s, g, m)'
    <3>1. CASE Carried(s, g, m)
      BY <1>2, <1>3, <3>1, CarriedIsTrue, TruthStays DEF IInv, Kept
    <3> QED
      BY <2>1, <3>1 DEF Told
  <2>2. \A x \in exchanges' : Told(x.from, x.to, x.msg) /\ Told(x.to, x.from, x.reply)
    BY DEF Follows
  <2>3. ASSUME NEW x \in exchanges'
        PROVE  IsTrue(x.from, x.to, x.msg)' /\ IsTrue(x.to, x.from, x.reply)'
    BY <2>1, <2>2
  <2> QED
    BY <2>3 DEF WireIsTrue
<1>5. StoredIsStaged'
  BY <1>3, MovesKeepStoredIsStaged DEF Kept, IInv, IdsAreOld
<1>6. RowsMeanKeys' /\ HostOrHeir' /\ AcceptsAlone'
  BY <1>3, MovesKeepRowsMeanKeys, MovesKeepHostOrHeir DEF Kept, Follows
<1> QED
  BY <1>3, <1>4, <1>5, <1>6 DEF Kept

LEMMA OneNew ==
    ASSUME NEW x, exchanges' \subseteq exchanges \cup {x},
           Told(x.from, x.to, x.msg), Told(x.to, x.from, x.reply)
    PROVE  \A y \in exchanges' : Told(y.from, y.to, y.msg) /\ Told(y.to, y.from, y.reply)
BY DEF Told, Carried

LEMMA NoneNew ==
    ASSUME exchanges' \subseteq exchanges
    PROVE  \A y \in exchanges' : Told(y.from, y.to, y.msg) /\ Told(y.to, y.from, y.reply)
BY DEF Told, Carried

LEMMA RequestTold ==
    ASSUME NEW d \in Devices, NEW p \in Devices, NEW m \in Msgs, Told(d, p, m),
           exchanges' \subseteq exchanges \cup {Request(d, p, m)}
    PROVE  \A y \in exchanges' : Told(y.from, y.to, y.msg) /\ Told(y.to, y.from, y.reply)
<1> DEFINE x == Request(d, p, m)
<1>1. x.from = d /\ x.to = p /\ x.msg = m /\ x.reply = NoMsg
  BY DEF Request
<1>2. Told(p, d, NoMsg)
  BY Idle, NoMsgType
<1> HIDE DEF x
<1>3. exchanges' \subseteq exchanges \cup {x}
  BY DEF x
<1> QED
  BY <1>1, <1>2, <1>3, OneNew

LEMMA ReplyTold ==
    ASSUME NEW e \in exchanges, TypeOK, NEW m, Told(e.to, e.from, m),
           exchanges' \subseteq exchanges \cup {Replied(e, m)}
    PROVE  \A y \in exchanges' : Told(y.from, y.to, y.msg) /\ Told(y.to, y.from, y.reply)
<1> DEFINE x == Replied(e, m)
<1>1. e \in Exchange
  BY TypeParts
<1>2. x.from = e.from /\ x.to = e.to /\ x.msg = e.msg /\ x.reply = m
  BY <1>1 DEF Replied, Exchange
<1>3. Told(e.from, e.to, e.msg)
  BY DEF Told, Carried
<1> HIDE DEF x
<1>4. exchanges' \subseteq exchanges \cup {x}
  BY DEF x
<1> QED
  BY <1>2, <1>3, <1>4, OneNew

LEMMA ReplaceAdds ==
    ASSUME NEW e \in exchanges, NEW x, Replace(e, {x}) PROVE exchanges' \subseteq exchanges \cup {x}
BY DEF Replace, Pertinent

LEMMA ErrorMsg ==
    ASSUME NEW i \in 0..MaxHandoffs PROVE Msg("ERROR", i) \in Msgs /\ Msg("ERROR", i).type = "ERROR"
BY NewMsg

\* What the steps of an exchange need to know of it.
LEMMA Parties ==
    ASSUME IInv, Kept, NEW e \in exchanges
    PROVE  /\ TypeOK /\ DeviceTypes /\ RowsMeanKeys /\ AcceptsAlone /\ e \in Exchange
           /\ e.from \in Devices /\ e.to \in Devices /\ e.msg \in Msgs /\ e.reply \in Msgs
           /\ e.msg.id \in 0..MaxHandoffs /\ e.reply.id \in 0..MaxHandoffs
           /\ IsTrue(e.from, e.to, e.msg) /\ IsTrue(e.to, e.from, e.reply)
BY TypeParts DEF IInv, Kept, WireIsTrue, Exchange, Msgs

LEMMA ReceiveFollows ==
    ASSUME NEW e \in exchanges, IInv, IInv', Kept, Receive(e) PROVE Follows
<1> DEFINE d == e.to
           p == e.from
           m == e.msg
<1>1. /\ d \in Devices /\ p \in Devices /\ m \in Msgs /\ IsTrue(p, d, m)
      /\ TypeOK /\ DeviceTypes /\ RowsMeanKeys /\ AcceptsAlone /\ accepting' \subseteq accepting
      /\ m.id \in 0..MaxHandoffs
  BY Parties DEF Receive, wireOnly
<1>2. /\ Handled(m) /\ (m.type = "COMMIT" => Decided(m.id))
      /\ (m.type = "OFFER" => ~Heard(m.id))
  BY <1>1 DEF IInv, OfferIsFirst, Offers, Handled, Receive, Decided, Says
<1>3. CASE /\ Takes(d, p, m) /\ Effect(d, p, m)
           /\ Replace(e, {Replied(e, Answer(d, p, m))})
  <2>1. PICK a : a = Answer(d, p, m)
    OBVIOUS
  <2>2. OnlyAt(d) /\ Moves(d) /\ IsTrue(d, p, a)'
    BY <1>1, <1>2, <1>3, <2>1, HandlingMoves
  <2>3. Told(e.to, e.from, a)
    BY <2>2 DEF Told
  <2>4. exchanges' \subseteq exchanges \cup {Replied(e, a)}
    BY <1>3, <2>1, ReplaceAdds
  <2> QED
    BY <1>1, <2>2, <2>3, <2>4, ReplyTold, MovesKeepAccepts DEF Follows
<1>4. CASE UNCHANGED deviceVars /\ Replace(e, {Replied(e, Msg("ERROR", m.id))})
  <2>1. OnlyAt(d) /\ Moves(d)
    BY <1>1, <1>4, StayMoves DEF deviceVars, Moves
  <2>2. Told(e.to, e.from, Msg("ERROR", m.id))
    BY <1>1, ErrorMsg, Idle
  <2>3. exchanges' \subseteq exchanges \cup {Replied(e, Msg("ERROR", m.id))}
    BY <1>4, ReplaceAdds
  <2> QED
    BY <1>1, <2>1, <2>2, <2>3, ReplyTold, MovesKeepAccepts DEF Follows
<1> QED
  BY <1>3, <1>4 DEF Receive

LEMMA ReceiveAcceptFollows ==
    ASSUME NEW e \in exchanges, IInv, IInv', Kept, ReceiveAccept(e) PROVE Follows
<1>1. /\ e \in Exchange /\ e.to \in Devices /\ e.from \in Devices /\ TypeOK /\ AcceptsAlone
      /\ e.msg.id \in 0..MaxHandoffs
      /\ accepting' \subseteq accepting /\ UNCHANGED <<row, live, pending, rows>>
  BY Parties DEF ReceiveAccept, wireOnly, deviceVars
<1>2. OnlyAt(e.to) /\ Moves(e.to)
  BY <1>1, StayMoves DEF Moves
<1>3. CASE Replace(e, {[e EXCEPT !.stage = "verifying"]})
  <2>1. PICK x : x = [e EXCEPT !.stage = "verifying"]
    OBVIOUS
  <2>2. x.from = e.from /\ x.to = e.to /\ x.msg = e.msg /\ x.reply = e.reply
    BY <1>1, <2>1 DEF Exchange
  <2>3. exchanges' \subseteq exchanges \cup {x}
    BY <1>3, <2>1, ReplaceAdds
  <2>4. Told(x.from, x.to, x.msg) /\ Told(x.to, x.from, x.reply)
    BY <2>2 DEF Told, Carried
  <2> QED
    BY <1>1, <1>2, <2>3, <2>4, OneNew, MovesKeepAccepts DEF Follows
<1>4. CASE Replace(e, {Replied(e, Msg("ERROR", e.msg.id))})
  <2>1. Told(e.to, e.from, Msg("ERROR", e.msg.id))
    BY <1>1, ErrorMsg, Idle
  <2>2. exchanges' \subseteq exchanges \cup {Replied(e, Msg("ERROR", e.msg.id))}
    BY <1>4, ReplaceAdds
  <2> QED
    BY <1>1, <1>2, <2>1, <2>2, ReplyTold, MovesKeepAccepts DEF Follows
<1> QED
  BY <1>3, <1>4 DEF ReceiveAccept

\* The rows a KEY carries are those of the giver that is sending it.
LEMMA FinishVerifyFollows ==
    ASSUME NEW e \in exchanges, IInv, IInv', Kept, FinishVerify(e) PROVE Follows
<1> DEFINE d == e.to
<1>1. /\ d \in Devices /\ e.from \in Devices /\ TypeOK /\ DeviceTypes /\ RowsMeanKeys
      /\ AcceptsAlone /\ e.msg.id \in 0..MaxHandoffs /\ 0 \in 0..MaxHandoffs
      /\ accepting' \subseteq accepting /\ UNCHANGED <<live, pending, rows>>
  BY Parties, BoundAssumption DEF FinishVerify, wireOnly
<1>2. CASE \E i \in {0, e.msg.id} : /\ Replace(e, {Replied(e, Msg("ERROR", i))})
                                    /\ UNCHANGED row \/ (live[d] /\ ClearRow(d))
  <2>1. PICK i \in 0..MaxHandoffs : /\ Replace(e, {Replied(e, Msg("ERROR", i))})
                                    /\ UNCHANGED row \/ (live[d] /\ ClearRow(d))
    BY <1>1, <1>2
  <2>2. OnlyAt(d) /\ Moves(d)
    <3>1. CASE UNCHANGED row
      BY <1>1, <3>1, StayMoves DEF Moves
    <3>2. CASE live[d] /\ ClearRow(d)
      BY <1>1, <3>2, ClearMoves DEF Moves, RowsMeanKeys, Awaits
    <3> QED
      BY <2>1, <3>1, <3>2
  <2>3. Told(e.to, e.from, Msg("ERROR", i))
    BY ErrorMsg, Idle
  <2>4. exchanges' \subseteq exchanges \cup {Replied(e, Msg("ERROR", i))}
    BY <2>1, ReplaceAdds
  <2> QED
    BY <1>1, <2>2, <2>3, <2>4, ReplyTold, MovesKeepAccepts DEF Follows
<1>3. CASE /\ live[d] /\ SetState(d, "sent")
           /\ Replace(e, {Replied(e, [type |-> "KEY", id |-> e.msg.id, eph |-> e.msg.eph,
                                      rows |-> rows[d]])})
  <2>1. PICK m : m = [type |-> "KEY", id |-> e.msg.id, eph |-> e.msg.eph, rows |-> rows[d]]
    OBVIOUS
  <2>2. m.type = "KEY" /\ m.rows = rows'[d]
    BY <1>1, <2>1
  <2>3. "sent" \in States
    BY DEF States
  <2>4. OnlyAt(d) /\ (row[d] = NoRow => Stays(d)) /\ (row[d] # NoRow => Sends(d))
    BY <1>1, <1>3, <2>3, SetMoves DEF OnlyAt, Stays, Sends, KeepsKey
  <2>5. ASSUME NEW g, NEW i PROVE Undertakes(d, g, i)' => row'[d].state = "sent"
    <3>1. row'[d] = NoRow \/ row'[d].state = "sent"
      BY <2>4 DEF Stays, Sends, Advances
    <3> QED
      BY <3>1 DEF Undertakes, GaveTo, NoRow
  <2>6. IsTrue(d, e.from, m)'
    BY <2>2, <2>5 DEF IsTrue, Staged
  <2>7. exchanges' \subseteq exchanges \cup {Replied(e, m)} /\ Told(d, e.from, m)
    BY <1>3, <2>1, <2>6, ReplaceAdds DEF Told
  <2> QED
    BY <1>1, <2>4, <2>7, ReplyTold, MovesKeepAccepts DEF Follows, Moves
<1> QED
  BY <1>2, <1>3 DEF FinishVerify

LEMMA HearFollows ==
    ASSUME NEW e \in exchanges, IInv, IInv', Kept, Hear(e) PROVE Follows
<1> DEFINE d == e.from
           p == e.to
           m == e.reply
<1>1. /\ d \in Devices /\ p \in Devices /\ m \in Msgs /\ IsTrue(p, d, m)
      /\ TypeOK /\ DeviceTypes /\ RowsMeanKeys /\ AcceptsAlone /\ accepting' \subseteq accepting
      /\ Takes(d, p, m) /\ Effect(d, p, m)
  BY Parties DEF Hear, wireOnly
<1>2. /\ m.type # "OFFER" /\ Handled(m) /\ (m.type = "COMMIT" => Decided(m.id))
  BY <1>1 DEF IInv, IdsAreOld, Handled, Decided, Says
<1>3. PICK a : a = Answer(d, p, m)
  OBVIOUS
<1>4. OnlyAt(d) /\ Moves(d) /\ IsTrue(d, p, a)'
  BY <1>1, <1>2, <1>3, HandlingMoves
<1>5. a \in Msgs /\ Told(d, p, a)
  BY <1>1, <1>3, <1>4, AnswerTypes DEF Told
<1>6. exchanges' \subseteq exchanges \cup {Request(d, p, a)}
  <2>1. Replace(e, IF a.type = "ACK" THEN {} ELSE {Request(d, p, a)})
    BY <1>3 DEF Hear
  <2> QED
    BY <2>1 DEF Replace, Pertinent
<1> QED
  BY <1>1, <1>4, <1>5, <1>6, RequestTold, MovesKeepAccepts DEF Follows

LEMMA FailFollows ==
    ASSUME NEW e \in exchanges, IInv, IInv', Kept, Fail(e) PROVE Follows
<1>1. /\ e.from \in Devices /\ e.to \in Devices /\ TypeOK /\ DeviceTypes /\ AcceptsAlone
      /\ e.reply.id \in 0..MaxHandoffs /\ accepting' \subseteq accepting
      /\ Abandon(e.from, e.msg.id)
  BY Parties DEF Fail, wireOnly
<1>2. OnlyAt(e.from) /\ Moves(e.from)
  BY <1>1, AbandonMoves DEF Moves
<1>3. PICK r : r = Request(e.from, e.to, Msg("ERROR", e.reply.id))
  OBVIOUS
<1>4. PICK x : x = [r EXCEPT !.open = FALSE]
  OBVIOUS
<1>5. /\ x.from = e.from /\ x.to = e.to /\ x.msg = Msg("ERROR", e.reply.id)
      /\ x.reply = NoMsg
  BY <1>3, <1>4 DEF Request
<1>6. Told(x.from, x.to, x.msg) /\ Told(x.to, x.from, x.reply)
  BY <1>1, <1>5, ErrorMsg, NoMsgType, Idle
<1>7. exchanges' \subseteq exchanges \cup {x}
  <2>1. Replace(e, IF e.reply.type = "ERROR" THEN {} ELSE {x})
    BY <1>3, <1>4 DEF Fail
  <2> QED
    BY <2>1 DEF Replace, Pertinent
<1> QED
  BY <1>1, <1>2, <1>6, <1>7, OneNew, MovesKeepAccepts DEF Follows

LEMMA GiveUpFollows ==
    ASSUME NEW e \in exchanges, IInv, IInv', Kept, GiveUp(e) PROVE Follows
<1>1. /\ e \in Exchange /\ e.from \in Devices /\ TypeOK /\ DeviceTypes /\ AcceptsAlone
      /\ accepting' \subseteq accepting /\ Abandon(e.from, e.msg.id)
  BY Parties DEF GiveUp, wireOnly
<1>2. OnlyAt(e.from) /\ Moves(e.from)
  BY <1>1, AbandonMoves DEF Moves
<1>3. PICK x : x = [e EXCEPT !.open = FALSE]
  OBVIOUS
<1>4. x.from = e.from /\ x.to = e.to /\ x.msg = e.msg /\ x.reply = e.reply
  BY <1>1, <1>3 DEF Exchange
<1>5. exchanges' \subseteq exchanges \cup {x}
  BY <1>3, ReplaceAdds DEF GiveUp
<1>6. Told(x.from, x.to, x.msg) /\ Told(x.to, x.from, x.reply)
  BY <1>4 DEF Told, Carried
<1> QED
  BY <1>1, <1>2, <1>5, <1>6, OneNew, MovesKeepAccepts DEF Follows

LEMMA LoseFollows ==
    ASSUME NEW e \in exchanges, IInv, IInv', Kept, Lose(e) PROVE Follows
<1>1. /\ e.from \in Devices /\ TypeOK /\ AcceptsAlone /\ accepting' \subseteq accepting
      /\ UNCHANGED <<row, live, pending, rows>> /\ exchanges' \subseteq exchanges
  BY Parties DEF Lose, wireOnly, deviceVars, Replace, Pertinent
<1>2. OnlyAt(e.from) /\ Moves(e.from)
  BY <1>1, StayMoves DEF Moves
<1> QED
  BY <1>1, <1>2, NoneNew, MovesKeepAccepts DEF Follows

-----------------------------------------------------------------------------
LEMMA HereTypes ==
    ASSUME IInv, Kept PROVE TypeOK /\ DeviceTypes /\ RowsMeanKeys /\ AcceptsAlone
BY TypeParts DEF IInv, Kept

LEMMA OfferFollows ==
    ASSUME NEW d \in Devices, NEW p \in Devices, IInv, IInv', Kept, Offer(d, p) PROVE Follows
<1>1. /\ TypeOK /\ DeviceTypes /\ AcceptsAlone /\ accepting' \subseteq accepting
      /\ UNCHANGED <<live, pending, rows>> /\ live[d] /\ nextId \in 0..MaxHandoffs
  BY HereTypes, BoundAssumption DEF Offer, Ids
<1>2. OnlyAt(d) /\ Begins(d)
  <2>1. row[d].state \notin {"stored", "committed"}
    BY DEF Offer, Clearable, Undecided, Unstored, NoRow
  <2>2. /\ \A c \in Devices \ {d} : row'[c] = row[c]
        /\ row'[d].role = "giver" /\ row'[d].id = nextId /\ row'[d].state = "offered"
    BY <1>1 DEF Offer, DeviceTypes
  <2> QED
    BY <1>1, <2>1, <2>2 DEF OnlyAt, Begins, KeepsKey
<1>3. Msg("OFFER", nextId) \in Msgs /\ Told(d, p, Msg("OFFER", nextId))
  BY <1>1, NewMsg, Idle
<1>4. exchanges' \subseteq exchanges \cup {Request(d, p, Msg("OFFER", nextId))}
  BY DEF Offer, Open
<1> QED
  BY <1>1, <1>2, <1>3, <1>4, RequestTold, MovesKeepAccepts DEF Follows, Moves

\* The one place where it matters that accepts do not overlap.
LEMMA StartAcceptFollows ==
    ASSUME NEW d \in Devices, IInv, IInv', Kept, ~Overlap, StartAccept(d) PROVE Follows
<1> DEFINE b == [dev |-> d, id |-> row[d].id, peer |-> row[d].peer, eph |-> nextEph]
<1>1. /\ RowsMeanKeys /\ AcceptsAlone /\ UNCHANGED <<row, live, pending, rows, exchanges>>
      /\ row[d].role = "taker" /\ row[d].state = "offered"
      /\ accepting' = accepting \cup {b} /\ \A a \in accepting : a.dev # d
  BY HereTypes DEF StartAccept, deviceVars
<1>2. b.dev = d
  OBVIOUS
<1> HIDE DEF b
<1>3. ~live[d]
  BY <1>1 DEF RowsMeanKeys, Awaits
<1>4. AcceptsAlone'
  BY <1>1, <1>2, <1>3 DEF AcceptsAlone
<1>5. OnlyAt(d) /\ Moves(d)
  BY <1>1, StayMoves DEF Moves
<1> QED
  BY <1>1, <1>4, <1>5, NoneNew DEF Follows

LEMMA FinishAcceptFollows ==
    ASSUME NEW a \in accepting, IInv, IInv', Kept, FinishAccept(a) PROVE Follows
<1> DEFINE d == a.dev
           m == [Msg("ACCEPT", a.id) EXCEPT !.eph = a.eph]
<1>1. /\ TypeOK /\ DeviceTypes /\ AcceptsAlone /\ d \in Devices /\ a.peer \in Devices
      /\ a.id \in Ids /\ a.eph \in Nonces
      /\ accepting' = accepting \ {a} /\ SetState(d, "accepted")
      /\ UNCHANGED <<live, pending, rows>>
  BY HereTypes DEF FinishAccept, TypeOK
<1>2. m \in Msgs /\ m.type = "ACCEPT"
  BY <1>1, BoundAssumption DEF Msg, Msgs, Ids, Nonces
<1>3. exchanges' \subseteq exchanges \cup {Request(d, a.peer, m)}
  BY DEF FinishAccept, Open
<1> HIDE DEF m
<1>4. Told(d, a.peer, m)
  BY <1>2, Idle
<1>5. OnlyAt(d) /\ (Stays(d) \/ Accepts(d))
  <2>1. ~live[d] /\ row[d].state \in {"none", "offered"} /\ \A b \in accepting' : b.dev # d
    BY <1>1 DEF AcceptsAlone
  <2>2. "accepted" \in States
    BY DEF States
  <2>3. /\ \A c \in Devices \ {d} : row'[c] = row[c]
        /\ row[d] = NoRow => row' = row
        /\ row[d] # NoRow => Advances(d, "accepted")
    BY <1>1, <2>2, SetMoves
  <2>4. row[d] = NoRow \/ row[d].state = "offered"
    BY <1>1, <2>1 DEF DeviceTypes, Rows, States
  <2> QED
    BY <1>1, <2>1, <2>3, <2>4 DEF OnlyAt, Stays, Accepts, KeepsKey
<1>6. AcceptsAlone'
  BY <1>1, <1>5, MovesKeepAccepts DEF Moves
<1> QED
  BY <1>1, <1>2, <1>3, <1>4, <1>5, <1>6, RequestTold DEF Follows, Moves

LEMMA DeviceFollows ==
    ASSUME NEW d \in Devices, IInv, IInv', Kept, Decline(d) \/ Poll(d) PROVE Follows
<1>1. /\ TypeOK /\ DeviceTypes /\ AcceptsAlone
      /\ accepting' \subseteq accepting /\ exchanges' \subseteq exchanges
  BY HereTypes DEF Decline, Poll
<1>2. OnlyAt(d) /\ Drops(d)
  BY <1>1, ExpireMoves, ClearMoves DEF Decline, Poll, Unstored
<1> QED
  BY <1>1, <1>2, NoneNew, MovesKeepAccepts DEF Follows, Moves

LEMMA ContactFollows ==
    ASSUME NEW d \in Devices, IInv, IInv', Kept, Contact(d) PROVE Follows
<1>1. PICK m : m = ContactMsg(d)
  OBVIOUS
<1>2. /\ TypeOK /\ DeviceTypes /\ AcceptsAlone /\ accepting' \subseteq accepting
      /\ UNCHANGED <<row, live, pending, rows>> /\ m # NoMsg
      /\ exchanges' \subseteq exchanges \cup {Request(d, row[d].peer, m)}
  BY <1>1, HereTypes DEF Contact, Open, deviceVars
<1>3. row[d] \in Rows /\ row[d].peer \in Devices /\ row[d].id \in 0..MaxHandoffs
  BY <1>1, <1>2, BoundAssumption DEF DeviceTypes, NoRow, ContactMsg, Rows, Ids
<1>4. PICK p \in Devices : p = row[d].peer
  BY <1>3
<1>5. exchanges' \subseteq exchanges \cup {Request(d, p, m)}
  BY <1>2, <1>4
<1>6. m \in Msgs /\ Told(d, p, m)
  <2>1. CASE row[d].role = "taker" /\ row[d].state = "stored"
    <3>1. m \in Msgs /\ m.type = "STATUS"
      BY <1>1, <1>3, <2>1, NewMsg DEF ContactMsg
    <3> QED
      BY <3>1, Idle
  <2>2. CASE row[d].role = "giver" /\ row[d].state = "committed"
    <3>1. m \in Msgs /\ m.type = "COMMIT"
      BY <1>1, <1>3, <2>2, NewMsg DEF ContactMsg
    <3>2. IsTrue(d, p, m)'
      BY <1>2, <2>2, <3>1 DEF IsTrue, Undertakes, Undecided
    <3> QED
      BY <3>1, <3>2 DEF Told
  <2> QED
    BY <1>1, <1>2, <2>1, <2>2 DEF ContactMsg
<1> QED
  BY <1>2, <1>5, <1>6, RequestTold, StayMoves, MovesKeepAccepts DEF Follows, Moves

LEMMA RestartFollows ==
    ASSUME NEW d \in Devices, IInv, IInv', Kept, Restart(d) PROVE Follows
<1>1. /\ TypeOK /\ DeviceTypes /\ AcceptsAlone /\ accepting' \subseteq accepting
      /\ UNCHANGED <<live, pending, rows>>
  BY HereTypes DEF Restart
<1>2. OnlyAt(d) /\ Moves(d)
  <2>1. CASE Clearable(row[d])
    BY <1>1, <2>1, ClearMoves DEF Restart, Clearable, Undecided, Unstored, Moves
  <2>2. CASE ~Clearable(row[d])
    BY <1>1, <2>2, StayMoves DEF Restart, Moves
  <2> QED
    BY <2>1, <2>2
<1>3. ASSUME NEW y \in exchanges'
      PROVE  Told(y.from, y.to, y.msg) /\ Told(y.to, y.from, y.reply)
  <2>1. PICK e \in exchanges : y = Severed(e, d)
    BY DEF Restart, Pertinent
  <2>2. e \in Exchange
    BY <1>1, TypeParts
  <2>3. y.from = e.from /\ y.to = e.to /\ y.msg = e.msg /\ y.reply = e.reply
    BY <2>1, <2>2 DEF Severed, Exchange
  <2> QED
    BY <2>3 DEF Told, Carried
<1> QED
  BY <1>1, <1>2, <1>3, MovesKeepAccepts DEF Follows

LEMMA SurroundingsFollow ==
    ASSUME IInv, IInv', Kept, NEW d \in Devices,
           \/ \E p \in Devices : Authority(d, p)
           \/ \E x \in Answers : Remember(d, x)
    PROVE  Follows
<1>1. /\ TypeOK /\ DeviceTypes /\ AcceptsAlone
      /\ accepting' \subseteq accepting /\ exchanges' \subseteq exchanges
  BY HereTypes DEF Authority, Remember
<1>2. OnlyAt(d) /\ Moves(d)
  <2>1. ASSUME NEW p \in Devices, Authority(d, p) PROVE OnlyAt(d) /\ Moves(d)
    BY <2>1, StayMoves DEF Authority, deviceVars, Moves
  <2>2. ASSUME NEW x \in Answers, Remember(d, x) PROVE OnlyAt(d) /\ Moves(d)
    <3>1. /\ \A c \in Devices \ {d} : rows'[c] = rows[c]
          /\ rows[d] \subseteq rows'[d] /\ UNCHANGED <<row, live, pending>>
          /\ ~LateAnswers => row[d].state # "sent"
      BY <1>1, <2>2 DEF Remember, DeviceTypes
    <3> QED
      BY <3>1 DEF OnlyAt, Moves, Stays
  <2> QED
    BY <2>1, <2>2
<1> QED
  BY <1>1, <1>2, NoneNew, MovesKeepAccepts DEF Follows

LEMMA NextFollows ==
    ASSUME IInv, IInv', Kept, ~Overlap, [Next]_vars PROVE Follows
<1>1. CASE UNCHANGED vars
  <2>1. UNCHANGED <<row, live, pending, rows, accepting, exchanges>> /\ TypeOK /\ AcceptsAlone
    BY <1>1, HereTypes DEF vars, deviceVars
  <2>2. OnlyAt(Founder) /\ Moves(Founder)
    BY <2>1, DeviceAssumption, StayMoves DEF Moves
  <2> QED
    BY <2>1, <2>2, DeviceAssumption, NoneNew, MovesKeepAccepts DEF Follows
<1>2. ASSUME NEW d \in Devices,
             StartAccept(d) \/ Decline(d) \/ Poll(d) \/ Contact(d) \/ Restart(d)
      PROVE  Follows
  BY <1>2, StartAcceptFollows, DeviceFollows, ContactFollows, RestartFollows
<1>3. ASSUME NEW d \in Devices, NEW p \in Devices, Offer(d, p) PROVE Follows
  BY <1>3, OfferFollows
<1>4. ASSUME NEW d \in Devices, \/ \E p \in Devices : Authority(d, p)
                                \/ \E x \in Answers : Remember(d, x)
      PROVE  Follows
  BY <1>4, SurroundingsFollow
<1>5. ASSUME NEW a \in accepting, FinishAccept(a) PROVE Follows
  BY <1>5, FinishAcceptFollows
<1>6. ASSUME NEW e \in exchanges,
             \/ Receive(e) \/ ReceiveAccept(e) \/ FinishVerify(e)
             \/ Hear(e) \/ Fail(e) \/ GiveUp(e) \/ Lose(e)
      PROVE  Follows
  BY <1>6, ReceiveFollows, ReceiveAcceptFollows, FinishVerifyFollows, HearFollows, FailFollows,
     GiveUpFollows, LoseFollows
<1> QED
  BY <1>1, <1>2, <1>3, <1>4, <1>5, <1>6 DEF Next

LEMMA InitKept == ASSUME Init PROVE Kept
<1>1. RowsMeanKeys /\ AcceptsAlone /\ StoredIsStaged /\ WireIsTrue
  BY DEF Init, RowsMeanKeys, AcceptsAlone, StoredIsStaged, WireIsTrue, NoRow, Undecided, Awaits
<1>2. HostOrHeir
  BY DeviceAssumption DEF Init, HostOrHeir, Hosts
<1> QED
  BY <1>1, <1>2 DEF Kept

Sure == IInv /\ Kept

LEMMA SureStep ==
    ASSUME ~Overlap, Sure, [Next]_vars
    PROVE  Sure' /\ \E d \in Devices : Moved(d)
BY Inductive, NextFollows, FollowsKeeps DEF Sure

LEMMA SureSound == Sure => Sound
BY TypeParts DEF Sure, IInv, Kept, Sound

\* The whole promise, whatever is lost, repeated, restarted or abandoned: the
\* key is with the host, or with the one successor the host chose for it.
THEOREM CustodyKept == ASSUME ~Overlap PROVE Spec => KeepsCustody
<1>1. Init => Custody!Init
  <2> SUFFICES ASSUME Init PROVE Hosts = {Founder} /\ Heir = NoDevice
    BY DEF Custody!Init, Heir
  <2>1. Hosts = {Founder}
    BY DeviceAssumption DEF Init, Hosts
  <2> QED
    BY <2>1 DEF Heir
<1>2. Sure /\ [Next]_vars => Sure' /\ [Custody!Next]_<<Hosts, Heir>>
  <2> SUFFICES ASSUME Sure, [Next]_vars PROVE Sure' /\ [Custody!Next]_<<Hosts, Heir>>
    OBVIOUS
  <2>1. Sure'
    BY SureStep
  <2>2. Sound /\ Sound'
    <3>1. (Sure => Sound)'
      BY SureSound, PTL
    <3> QED
      BY <2>1, <3>1, SureSound
  <2>3. PICK d \in Devices : Moved(d)
    BY SureStep
  <2>4. \/ UNCHANGED <<Hosts, Heir>>
        \/ \E s \in Devices : s # d /\ Hosts = {d} /\ Hosts' = {} /\ Heir' = s
        \/ Hosts = {} /\ Hosts' = {Heir} /\ Heir' = NoDevice
    BY <2>2, <2>3, MovesKeepCustody
  <2> QED
    BY <2>1, <2>4 DEF Custody!Next, Custody!Release, Custody!TakeOver, Heir
<1>3. Init => Sure
  BY InitInv, InitKept DEF Sure
<1> QED
  BY <1>1, <1>2, <1>3, PTL DEF Spec, KeepsCustody, Custody!Spec, Heir

\* No step of a handoff takes a remembered answer from the camp's host, as
\* long as the host imports nothing while its key is on its way.
THEOREM AnswersKept == ASSUME ~Overlap, ~LateAnswers PROVE Spec => AnswersSurvive
<1>1. Sure /\ [Next]_vars => Sure' /\ HostAnswers \subseteq HostAnswers'
  <2> SUFFICES ASSUME Sure, [Next]_vars PROVE Sure' /\ HostAnswers \subseteq HostAnswers'
    OBVIOUS
  <2>1. Sure'
    BY SureStep
  <2>2. Sound /\ Sound' /\ StoredIsStaged
    <3>1. (Sure => Sound)'
      BY SureSound, PTL
    <3> QED
      BY <2>1, <3>1, SureSound DEF Sure, Kept
  <2>3. PICK d \in Devices : Moved(d)
    BY SureStep
  <2> QED
    BY <2>1, <2>2, <2>3, MovesKeepAnswers
<1>2. Init => Sure
  BY InitInv, InitKept DEF Sure
<1> QED
  BY <1>1, <1>2, PTL DEF Spec, AnswersSurvive
=============================================================================
