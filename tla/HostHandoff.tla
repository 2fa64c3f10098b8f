----------------------------- MODULE HostHandoff -----------------------------
(***************************************************************************)
(* The planned handoff of the camp's one signing key from the host to      *)
(* another admin device.                                                   *)
(*                                                                         *)
(*   electron/auth/hostHandoff.js                the state machine         *)
(*   electron/sync/automerge/hostHandoffWire.js  conversations, retries    *)
(*   electron/sync/automerge/transport.js        one request, one reply    *)
(*                                                                         *)
(*     giver H                             taker S                         *)
(*     offered  --------- OFFER -------->  offered                         *)
(*              <-------- ACCEPT --------  accepted                        *)
(*     sent     --------- KEY   -------->  stored   (key pending)          *)
(*     committed (key deleted) <- STORED                                   *)
(*              --------- COMMIT ------->  done     (key live)             *)
(*     no row   <-------- DONE  ---------                                  *)
(*                                                                         *)
(* The rows and keys are in SQLite; ephemeral keys, conversations and the  *)
(* calls waiting at an await are in memory and go with the process.        *)
(* Signatures, sealing and payload validation are those of honest devices  *)
(* of one camp: a KEY opens with the ephemeral key it was sealed to.       *)
(***************************************************************************)
EXTENDS Integers, FiniteSets

CONSTANTS
    Devices,
    Founder,        \* the device the camp was set up on
    NoDevice,
    Answers,        \* rows of HANDOFF_TABLES: remembered import answers
    FrameRows,      \* how many of them a KEY frame can carry
    Overlap,        \* BOOLEAN: two accept() calls may overlap on one device
    DiskMayFail,    \* BOOLEAN: the activation transaction may fail
    LateAnswers,    \* BOOLEAN: a host may import while its key is sealed
    MaxHandoffs, MaxAccepts, MaxRestarts, MaxChanges, MaxExchanges  \* bounds

ASSUME DeviceAssumption == Founder \in Devices /\ NoDevice \notin Devices
ASSUME SwitchAssumption == {Overlap, DiskMayFail, LateAnswers} \subseteq BOOLEAN
ASSUME BoundAssumption == {FrameRows, MaxHandoffs, MaxAccepts, MaxRestarts,
                           MaxChanges, MaxExchanges} \subseteq Nat

Ids == 1..MaxHandoffs
Nonces == 1..MaxAccepts

VARIABLES
    row,        \* host_handoff: this device's one handoff row
    live,       \* host_signing_key is present
    pending,    \* host_signing_key_pending, with the rows staged beside it
    rows,       \* the host-only tables
    eph,        \* ephemerals: per handoff, which ephemeral key is in memory
    accepting,  \* accept() calls at their await
    exchanges,  \* conversations' requests and replies on the wire
    admins,     \* isAdminDevice as each device sees it
    nextId, nextEph,
    restarts, changes    \* history, for the bounds

deviceVars == <<row, live, pending, rows, eph>>
countVars == <<nextId, restarts, changes>>
vars == <<deviceVars, accepting, exchanges, admins, nextEph, countVars>>

NoRow == [id |-> 0, role |-> "none", peer |-> NoDevice, state |-> "none"]
NoPending == [id |-> 0, rows |-> {}]

Msg(t, i) == [type |-> t, id |-> i, eph |-> 0, rows |-> {}]
NoMsg == Msg("none", 0)

\* A request from a device to another, its reply, and whether the sender is
\* still waiting.  A handler is "verifying" while it awaits a signature check.
Request(d, p, m) ==
    [from |-> d, to |-> p, msg |-> m, stage |-> "sent", reply |-> NoMsg, open |-> TRUE]

\* An exchange nobody waits for and nobody has to handle is gone.
Pertinent(S) == {e \in S : e.open \/ e.stage \in {"sent", "verifying"}}

Init ==
    /\ row = [d \in Devices |-> NoRow]
    /\ live = [d \in Devices |-> d = Founder]
    /\ pending = [d \in Devices |-> NoPending]
    /\ rows = [d \in Devices |-> {}]
    /\ eph = [d \in Devices |-> [i \in Ids |-> 0]]
    /\ accepting = {} /\ exchanges = {}
    /\ admins = [d \in Devices |-> Devices]
    /\ nextId = 1 /\ nextEph = 1 /\ restarts = 0 /\ changes = 0

-----------------------------------------------------------------------------
(* The row                                                                 *)

Undecided(r) == r.role = "giver" /\ r.state \in {"offered", "sent"}
Unstored(r) == r.role = "taker" /\ r.state \in {"offered", "accepted"}

\* setState is an UPDATE: with no row it changes nothing.
SetState(d, s) == row' = [row EXCEPT ![d].state = IF row[d] = NoRow THEN @ ELSE s]
ClearRow(d) == row' = [row EXCEPT ![d] = NoRow]
Forget(d, i) == eph' = [eph EXCEPT ![d][i] = 0]

\* Mutant: a failed conversation clears a taker's row whatever its state.
ClearableAnyTaker(r) == Undecided(r) \/ r.role = "taker"

\* Rows a timeout, an abandoned conversation or a restart may clear.
Clearable(r) == Undecided(r) \/ Unstored(r)

\* expireStale when the row's time is up.  The clock is free.
Expire(d) ==
    /\ Clearable(row[d])
    /\ ClearRow(d)
    /\ IF row[d].state = "accepted" THEN Forget(d, row[d].id) ELSE UNCHANGED eph
    /\ UNCHANGED <<live, pending, rows>>

\* abandon(handoff_id): a conversation about i failed.
Abandon(d, i) ==
    IF row[d].id = i /\ Clearable(row[d])
    THEN /\ ClearRow(d)
         /\ IF row[d].role = "taker" THEN Forget(d, i) ELSE UNCHANGED eph
         /\ UNCHANGED <<live, pending, rows>>
    ELSE UNCHANGED deviceVars

\* peerChecks: p is an admin device and the peer of d's row for i.
Party(d, role, p, i) ==
    p \in admins[d] /\ row[d].role = role /\ row[d].id = i /\ row[d].peer = p

-----------------------------------------------------------------------------
(* Message handlers: when each takes a message, and what it does           *)

TakesOffer(d, p, m) ==
    /\ p \in admins[d]
    /\ ~live[d]
    /\ \/ row[d].id \in {0, m.id}
       \/ row[d].state \in {"done", "offered", "accepted"}
       \/ Clearable(row[d])

OnOffer(d, p, m) ==
    IF row[d].id = m.id THEN UNCHANGED deviceVars
    ELSE /\ row' = [row EXCEPT ![d] = [id |-> m.id, role |-> "taker", peer |-> p,
                                       state |-> "offered"]]
         /\ \/ UNCHANGED eph
            \/ row[d].state = "accepted" /\ Forget(d, row[d].id)
         /\ UNCHANGED <<live, pending, rows>>

\* The first half of onAccept, up to its await.
TakesAccept(d, p, m) == Party(d, "giver", p, m.id) /\ Undecided(row[d]) /\ live[d]

\* A KEY is opened with the ephemeral key held for its handoff.
TakesKey(d, p, m) ==
    /\ Party(d, "taker", p, m.id)
    /\ row[d].state = "stored" \/ (row[d].state = "accepted" /\ m.eph = eph[d][m.id])

OnKey(d, p, m) ==
    IF row[d].state = "stored" THEN UNCHANGED deviceVars
    ELSE /\ pending' = [pending EXCEPT ![d] = [id |-> m.id, rows |-> m.rows]]
         /\ SetState(d, "stored")
         /\ Forget(d, m.id)
         /\ UNCHANGED <<live, rows>>

TakesStored(d, p, m) ==
    /\ Party(d, "giver", p, m.id)
    /\ row[d].state = "committed" \/ (row[d].state = "sent" /\ live[d])

\* The decision point: key and rows are deleted as 'committed' is recorded.
OnStored(d, p, m) ==
    IF row[d].state = "committed" THEN UNCHANGED deviceVars
    ELSE /\ live' = [live EXCEPT ![d] = FALSE]
         /\ rows' = [rows EXCEPT ![d] = {}]
         /\ SetState(d, "committed")
         /\ UNCHANGED <<pending, eph>>

Activates(d, p, m) ==
    /\ Party(d, "taker", p, m.id) /\ row[d].state = "stored"
    /\ pending[d].id = m.id
    /\ ~live[d]

TakesCommit(d, p, m) ==
    (Party(d, "taker", p, m.id) /\ row[d].state = "done") \/ Activates(d, p, m)

\* Mutant: the staged rows are not swapped in.
OnCommitKeyOnly(d, p, m) ==
    IF row[d].state = "done" THEN UNCHANGED deviceVars
    ELSE /\ live' = [live EXCEPT ![d] = TRUE]
         /\ pending' = [pending EXCEPT ![d] = NoPending]
         /\ SetState(d, "done")
         /\ UNCHANGED <<rows, eph>>

\* One transaction moves the pending key and rows live.
OnCommit(d, p, m) ==
    IF row[d].state = "done" THEN UNCHANGED deviceVars
    ELSE /\ live' = [live EXCEPT ![d] = TRUE]
         /\ rows' = [rows EXCEPT ![d] = pending[d].rows]
         /\ pending' = [pending EXCEPT ![d] = NoPending]
         /\ SetState(d, "done")
         /\ UNCHANGED eph

OnDone(d, p, m) ==
    /\ IF row[d].role = "giver" /\ row[d].id = m.id /\ row[d].peer = p
          /\ row[d].state = "committed"
       THEN ClearRow(d) ELSE UNCHANGED row
    /\ UNCHANGED <<live, pending, rows, eph>>

GaveTo(d, p, i) == row[d].role = "giver" /\ row[d].id = i /\ row[d].peer = p
\* Mutants: a giver whose key is only sent counts as committed; one that has
\* committed does not.
HasCommittedOrSent(d, p, i) == GaveTo(d, p, i) /\ row[d].state \in {"sent", "committed"}
HasCommittedNever(d, p, i) == GaveTo(d, p, i) /\ row[d].state = "done"

HasCommitted(d, p, i) == GaveTo(d, p, i) /\ row[d].state = "committed"

\* Answering NOT_COMMITTED is final: the row goes with the answer.
OnStatus(d, p, m) ==
    IF GaveTo(d, p, m.id) /\ Undecided(row[d])
    THEN ClearRow(d) /\ UNCHANGED <<live, pending, rows, eph>>
    ELSE UNCHANGED deviceVars \/ Expire(d)

OnNotCommitted(d, p, m) ==
    IF row[d].state \in {"offered", "accepted", "stored"}
    THEN /\ pending' = [pending EXCEPT ![d] = NoPending]
         /\ ClearRow(d)
         /\ Forget(d, m.id)
         /\ UNCHANGED <<live, rows>>
    ELSE UNCHANGED deviceVars

\* handle(): the messages taken, refused otherwise with an ERROR.
Takes(d, p, m) ==
    CASE m.type = "OFFER" -> TakesOffer(d, p, m)
      [] m.type = "KEY" -> TakesKey(d, p, m)
      [] m.type = "STORED" -> TakesStored(d, p, m)
      [] m.type = "COMMIT" -> TakesCommit(d, p, m)
      [] m.type = "STATUS" -> p \in admins[d]
      [] m.type = "NOT_COMMITTED" -> Party(d, "taker", p, m.id)
      [] m.type \in {"DONE", "ACK", "ERROR"} -> TRUE
      [] OTHER -> FALSE

\* A message taken may still be refused: the activation write fails.
MayRefuse(d, p, m) ==
    ~Takes(d, p, m) \/ (DiskMayFail /\ m.type = "COMMIT" /\ Activates(d, p, m))

Effect(d, p, m) ==
    CASE m.type = "OFFER" -> OnOffer(d, p, m)
      [] m.type = "KEY" -> OnKey(d, p, m)
      [] m.type = "STORED" -> OnStored(d, p, m)
      [] m.type = "COMMIT" -> OnCommit(d, p, m)
      [] m.type = "DONE" -> OnDone(d, p, m)
      [] m.type = "STATUS" -> OnStatus(d, p, m)
      [] m.type = "NOT_COMMITTED" -> OnNotCommitted(d, p, m)
      [] m.type = "ERROR" -> Abandon(d, m.id)
      [] OTHER -> UNCHANGED deviceVars

Answer(d, p, m) ==
    CASE m.type = "KEY" -> Msg("STORED", m.id)
      [] m.type = "STORED" -> Msg("COMMIT", m.id)
      [] m.type = "COMMIT" -> Msg("DONE", m.id)
      [] m.type = "STATUS" /\ HasCommitted(d, p, m.id) -> Msg("COMMIT", m.id)
      [] m.type = "STATUS" /\ ~HasCommitted(d, p, m.id) -> Msg("NOT_COMMITTED", m.id)
      [] OTHER -> Msg("ACK", m.id)

-----------------------------------------------------------------------------
(* Calls of the two directors                                              *)

Open(e) ==
    /\ e \notin exchanges
    /\ Cardinality(exchanges) < MaxExchanges
    /\ exchanges' = exchanges \cup {e}

\* offer(), and the OFFER that opens its conversation.
Offer(d, p) ==
    /\ nextId \in Ids
    /\ live[d]
    /\ p # d /\ p \in admins[d]
    /\ row[d] = NoRow \/ Clearable(row[d])
    /\ row' = [row EXCEPT ![d] = [id |-> nextId, role |-> "giver", peer |-> p,
                                  state |-> "offered"]]
    /\ IF row[d].state = "accepted" THEN Forget(d, row[d].id) ELSE UNCHANGED eph
    /\ Open(Request(d, p, Msg("OFFER", nextId)))
    /\ nextId' = nextId + 1
    /\ UNCHANGED <<live, pending, rows, accepting, admins, nextEph, restarts, changes>>

\* accept(), up to its await: the row is read and an ephemeral key made.
StartAccept(d) ==
    /\ nextEph \in Nonces
    /\ row[d].role = "taker" /\ row[d].state = "offered"
    /\ row[d].peer \in admins[d]
    /\ Overlap \/ \A a \in accepting : a.dev # d
    /\ accepting' = accepting \cup {[dev |-> d, id |-> row[d].id, peer |-> row[d].peer,
                                     eph |-> nextEph]}
    /\ nextEph' = nextEph + 1
    /\ UNCHANGED <<deviceVars, exchanges, admins, countVars>>

\* accept() goes on, on whatever row there is by now.
FinishAccept(a) ==
    /\ accepting' = accepting \ {a}
    /\ eph' = [eph EXCEPT ![a.dev][a.id] = a.eph]
    /\ SetState(a.dev, "accepted")
    /\ Open(Request(a.dev, a.peer, [Msg("ACCEPT", a.id) EXCEPT !.eph = a.eph]))
    /\ UNCHANGED <<live, pending, rows, admins, nextEph, countVars>>

Decline(d) ==
    /\ Unstored(row[d])
    /\ Overlap \/ \A a \in accepting : a.dev # d
    /\ ClearRow(d)
    /\ Forget(d, row[d].id)
    /\ UNCHANGED <<live, pending, rows, accepting, exchanges, admins, nextEph, countVars>>

\* status(), polled by the control.
Poll(d) ==
    /\ Expire(d)
    /\ UNCHANGED <<accepting, exchanges, admins, nextEph, countVars>>

\* Mutant: the giver does not repeat its COMMIT.
ContactMsgTaker(d) ==
    IF row[d].role = "taker" /\ row[d].state = "stored" THEN Msg("STATUS", row[d].id)
    ELSE NoMsg

\* What this device says when the peer of its row is reachable.
ContactMsg(d) ==
    IF row[d].role = "taker" /\ row[d].state = "stored" THEN Msg("STATUS", row[d].id)
    ELSE IF row[d].role = "giver" /\ row[d].state = "committed" THEN Msg("COMMIT", row[d].id)
    ELSE NoMsg

\* The peer is admitted (again), or the taker's retry timer fired.
Contact(d) ==
    /\ ContactMsg(d) # NoMsg
    /\ Open(Request(d, row[d].peer, ContactMsg(d)))
    /\ UNCHANGED <<deviceVars, accepting, admins, nextEph, countVars>>

-----------------------------------------------------------------------------
(* Conversations                                                           *)

Replied(e, m) == [e EXCEPT !.stage = "replied", !.reply = m]
Replace(e, S) == exchanges' = Pertinent((exchanges \ {e}) \cup S)
wireOnly == <<accepting, admins, nextEph, countVars>>

\* A request reaches its handler and is answered.
Receive(e) ==
    /\ e.stage = "sent"
    /\ \/ /\ Takes(e.to, e.from, e.msg)
          /\ Effect(e.to, e.from, e.msg)
          /\ Replace(e, {Replied(e, Answer(e.to, e.from, e.msg))})
       \/ /\ e.msg.type # "ACCEPT"
          /\ MayRefuse(e.to, e.from, e.msg)
          /\ Replace(e, {Replied(e, Msg("ERROR", e.msg.id))})
          /\ UNCHANGED deviceVars
    /\ UNCHANGED wireOnly

\* onAccept up to its await, or refused.
ReceiveAccept(e) ==
    /\ e.stage = "sent" /\ e.msg.type = "ACCEPT"
    /\ IF TakesAccept(e.to, e.from, e.msg)
       THEN Replace(e, {[e EXCEPT !.stage = "verifying"]})
       ELSE Replace(e, {Replied(e, Msg("ERROR", e.msg.id))})
    /\ UNCHANGED <<deviceVars, wireOnly>>

\* onAccept goes on: it reads the key and the rows as they are now.  With no
\* key it throws, and the transport answers for it.
FinishVerify(e) ==
    /\ e.stage = "verifying"
    /\ \/ /\ ~live[e.to]
          /\ Replace(e, {Replied(e, Msg("ERROR", 0))})
          /\ UNCHANGED row
       \/ /\ live[e.to] /\ Cardinality(rows[e.to]) > FrameRows
          /\ Replace(e, {Replied(e, Msg("ERROR", e.msg.id))})
          /\ ClearRow(e.to)
       \/ /\ live[e.to] /\ Cardinality(rows[e.to]) <= FrameRows
          /\ Replace(e, {Replied(e, [type |-> "KEY", id |-> e.msg.id, eph |-> e.msg.eph,
                                     rows |-> rows[e.to]])})
          /\ SetState(e.to, "sent")
    /\ UNCHANGED <<live, pending, rows, eph, wireOnly>>

\* converse: the reply is itself handled, and its answer goes out in turn.
Hear(e) ==
    /\ e.open /\ e.stage = "replied" /\ e.reply.type # "ERROR"
    /\ Takes(e.from, e.to, e.reply)
    /\ Effect(e.from, e.to, e.reply)
    /\ LET next == Answer(e.from, e.to, e.reply)
       IN  Replace(e, IF next.type = "ACK" THEN {} ELSE {Request(e.from, e.to, next)})
    /\ UNCHANGED wireOnly

\* converse: the peer refused, or its reply is refused here (which the peer
\* is told).  A KEY refused by rejectKey is one case of it.
Fail(e) ==
    /\ e.open /\ e.stage = "replied"
    /\ e.reply.type = "ERROR" \/ MayRefuse(e.from, e.to, e.reply)
    /\ Abandon(e.from, e.msg.id)
    /\ Replace(e, IF e.reply.type = "ERROR" THEN {}
                  ELSE {[Request(e.from, e.to, Msg("ERROR", e.reply.id)) EXCEPT !.open = FALSE]})
    /\ UNCHANGED wireOnly

\* The stream broke or timed out; the request may still be on its way.
GiveUp(e) ==
    /\ e.open
    /\ Abandon(e.from, e.msg.id)
    /\ Replace(e, {[e EXCEPT !.open = FALSE]})
    /\ UNCHANGED wireOnly

\* A request nobody waits for any more is lost.
Lose(e) ==
    /\ ~e.open /\ e.stage = "sent"
    /\ Replace(e, {})
    /\ UNCHANGED <<deviceVars, wireOnly>>

-----------------------------------------------------------------------------
(* The surroundings                                                        *)

\* What a restart of d does to an exchange.
Severed(e, d) ==
    IF e.from = d THEN [e EXCEPT !.open = FALSE]
    ELSE IF e.to = d /\ e.stage # "replied" THEN [e EXCEPT !.stage = "lost"]
    ELSE e

\* A crash, or the relaunch after the flip; recoverOnStartup runs first.
Restart(d) ==
    /\ restarts < MaxRestarts
    /\ restarts' = restarts + 1
    /\ IF Clearable(row[d]) THEN ClearRow(d) ELSE UNCHANGED row
    /\ eph' = [eph EXCEPT ![d] = [i \in Ids |-> 0]]
    /\ accepting' = {a \in accepting : a.dev # d}
    /\ exchanges' = Pertinent({Severed(e, d) : e \in exchanges})
    /\ UNCHANGED <<live, pending, rows, admins, nextId, nextEph, changes>>

\* The authority log reaches d: p is an admin device, or no longer one.
Authority(d, p) ==
    /\ changes < MaxChanges
    /\ changes' = changes + 1
    /\ admins' = [admins EXCEPT ![d] = IF p \in @ THEN @ \ {p} ELSE @ \cup {p}]
    /\ UNCHANGED <<deviceVars, accepting, exchanges, nextId, nextEph, restarts>>

\* An import on d remembers an answer.
Remember(d, x) ==
    /\ x \notin rows[d]
    /\ LateAnswers \/ row[d].state # "sent"
    /\ rows' = [rows EXCEPT ![d] = @ \cup {x}]
    /\ UNCHANGED <<row, live, pending, eph, accepting, exchanges, admins, nextEph, countVars>>

Next ==
    \/ \E d \in Devices :
          \/ StartAccept(d) \/ Decline(d) \/ Poll(d) \/ Contact(d) \/ Restart(d)
          \/ \E p \in Devices : Offer(d, p) \/ Authority(d, p)
          \/ \E x \in Answers : Remember(d, x)
    \/ \E a \in accepting : FinishAccept(a)
    \/ \E e \in exchanges :
          \/ Receive(e) \/ ReceiveAccept(e) \/ FinishVerify(e)
          \/ Hear(e) \/ Fail(e) \/ GiveUp(e) \/ Lose(e)

Spec == Init /\ [][Next]_vars

\* Two devices of a camp meet again and again, their retries included, and
\* an exchange between them succeeds now and then.
RequestTo(d, t) ==
    \E e \in exchanges : e.open /\ e.to = d /\ e.msg.type \in t /\ Receive(e)
ReplyTo(d, t) == \E e \in exchanges : e.from = d /\ e.reply.type \in t /\ Hear(e)

Fairness ==
    \A d \in Devices :
        /\ SF_vars(Contact(d))
        /\ SF_vars(RequestTo(d, {"STATUS"})) /\ SF_vars(RequestTo(d, {"COMMIT"}))
        /\ SF_vars(ReplyTo(d, {"COMMIT"})) /\ SF_vars(ReplyTo(d, {"DONE"}))
        /\ WF_vars(\E e \in exchanges : e.from = d /\ (GiveUp(e) \/ Lose(e)))

FairSpec == Spec /\ Fairness

-----------------------------------------------------------------------------
(* Properties                                                              *)

States == {"offered", "accepted", "sent", "stored", "committed", "done"}
Rows == [id : Ids, role : {"giver", "taker"}, peer : Devices, state : States]
Msgs == [type : {"none", "OFFER", "ACCEPT", "KEY", "STORED", "COMMIT", "DONE",
                 "STATUS", "NOT_COMMITTED", "ACK", "ERROR"},
         id : 0..MaxHandoffs, eph : 0..MaxAccepts, rows : SUBSET Answers]

TypeOK ==
    /\ row \in [Devices -> Rows \cup {NoRow}]
    /\ live \in [Devices -> BOOLEAN]
    /\ pending \in [Devices -> [id : 0..MaxHandoffs, rows : SUBSET Answers]]
    /\ rows \in [Devices -> SUBSET Answers]
    /\ eph \in [Devices -> [Ids -> 0..MaxAccepts]]
    /\ accepting \subseteq [dev : Devices, id : Ids, peer : Devices, eph : Nonces]
    /\ exchanges \subseteq [from : Devices, to : Devices, msg : Msgs,
                            stage : {"sent", "verifying", "replied", "lost"},
                            reply : Msgs, open : BOOLEAN]
    /\ admins \in [Devices -> SUBSET Devices]
    /\ nextId \in 1..(MaxHandoffs + 1) /\ nextEph \in 1..(MaxAccepts + 1)
    /\ restarts \in 0..MaxRestarts /\ changes \in 0..MaxChanges

Hosts == {d \in Devices : live[d]}

\* Successors whose giver has committed, and who hold the pending key.
Heirs == {s \in Devices : \E g \in Devices :
             /\ row[g] = [id |-> pending[s].id, role |-> "giver", peer |-> s,
                          state |-> "committed"]
             /\ row[s] = [id |-> pending[s].id, role |-> "taker", peer |-> g,
                          state |-> "stored"]}

\* hostHandoff.js: at most one live host_signing_key exists at any instant,
\* whatever is lost, late, restarted, abandoned or accepted twice.
AtMostOneLiveKey == \A d, e \in Hosts : d = e

\* The whole promise: custody passes from the host to the successor it chose,
\* and when no device is host that successor still holds the key (the ADR:
\* "this is a delay, not data loss").
Custody == INSTANCE KeyCustody WITH
    holders <- Hosts,
    heir <- IF Hosts # {} \/ Heirs = {} THEN NoDevice ELSE CHOOSE s \in Heirs : TRUE

KeepsCustody == Custody!Spec

\* And the zero-host window closes.
WindowCloses == Custody!FairSpec

\* The giver hears of it too: a committed row does not stay for ever.
GiverLearnsDone ==
    \A d \in Devices : row[d].state = "committed" ~> row[d].state # "committed"

\* The answers an import may rely on: the host's, or those on their way.
HostAnswers == UNION ({rows[d] : d \in Hosts} \cup {pending[s].rows : s \in Heirs})

\* The host-only tables travel with hosting: no step of a handoff takes an
\* answer away from the camp's host.
AnswersSurvive == [][HostAnswers \subseteq HostAnswers']_vars

\* The ADR: "Hosting must be movable to another admin device."  With every
\* conversation over and no handoff undecided, a host can offer one.
HostingIsMovable ==
    exchanges = {} /\ accepting = {} /\ (\A d \in Devices : row[d].state # "committed")
    => \A d \in Hosts : row[d] = NoRow \/ Clearable(row[d])
=============================================================================
