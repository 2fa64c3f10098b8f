------------------------------ MODULE Approval ------------------------------
(***************************************************************************)
(* A device asks to be let in, and a director's answer: the row of that    *)
(* device in the approving computer's `devices` table, the connection the  *)
(* answer will be sent over, and the approvals whose answer is being sent  *)
(* (approveDevice, denyDevice and revokeDevice of electron/main.js,        *)
(* evaluatePairingRequest and evaluateLogin of electron/auth/              *)
(* connectionAuth.js, the pairing half of electron/sync/automerge/         *)
(* authGate.js).  The asking side is in Join.                              *)
(*                                                                         *)
(* approveDevice writes the row, awaits the delivery, and puts the row     *)
(* back if nobody was told.  Other calls run during the await.  A secret   *)
(* is the number of the approval that drew it; 0 is the secret of the      *)
(* admission before this model starts, or none.                            *)
(***************************************************************************)
EXTENDS Naturals, FiniteSets

CONSTANTS
    Sessions,        \* the asking device's attempts, each with a connection
    MaxApprovals     \* bound on approveDevice calls

ASSUME ApprovalAssumption == MaxApprovals \in Nat

VARIABLES
    row,        \* status, authorized_at, device_secret_identifier, revoked_at
    removed,    \* authority_cache says this device is revoked
    enrolled,   \* the signed roster admits the device
    waiting,    \* the sessions pendingPairingConnections holds: none or one
    sending,    \* approvals awaiting sendPairingApproved, and to which session
    base,       \* inflightApprovals: what an undelivered approval puts back
    made,       \* approvals so far
    allowed     \* the secrets of the approvals audited "allow", the one
                \* before this model starts included

host == <<row, removed, enrolled, waiting, sending, base, made, allowed>>

Statuses == {"none", "pending", "rejoin_pending", "authorized", "denied", "revoked"}
Secrets == 0 .. MaxApprovals
Row == [status : Statuses, authorized : BOOLEAN, secret : Secrets, revoked : BOOLEAN]

NoRow == [status |-> "none", authorized |-> FALSE, secret |-> 0, revoked |-> FALSE]
Approved(secret) ==
    [status |-> "authorized", authorized |-> TRUE, secret |-> secret, revoked |-> FALSE]

TypeOKHost ==
    /\ row \in Row /\ base \in Row
    /\ removed \in BOOLEAN /\ enrolled \in BOOLEAN
    /\ waiting \subseteq Sessions
    /\ made \in Secrets
    /\ sending \subseteq [secret : Secrets, to : Sessions]
    /\ allowed \subseteq Secrets

\* A device this camp admitted before, or one it has never seen.
InitHost(known) ==
    /\ row = IF known THEN Approved(0) ELSE NoRow
    /\ enrolled = known
    /\ removed = FALSE /\ waiting = {} /\ sending = {}
    /\ base = NoRow /\ made = 0
    /\ allowed = IF known THEN {0} ELSE {}
-----------------------------------------------------------------------------
Out == row.revoked \/ removed

\* A row that is already authorized answers with its stored secret; a request
\* to pair again always waits for a director.
Redelivers(again) == ~Out /\ ~again /\ row.authorized
Listens(again) == ~Out /\ (again => row.authorized) /\ (~again => ~row.authorized)

\* A status a first request may change: a device turned down stays so.
Listed(r) == IF r.status \in {"none", "pending"} THEN "pending" ELSE r.status

\* The decision on a request, and the connection remembered for its answer.
Request(s, again) ==
    /\ Listens(again)
    /\ row' = [row EXCEPT !.status = IF again THEN "rejoin_pending" ELSE Listed(row)]
    /\ waiting' = {s}
    /\ UNCHANGED <<removed, enrolled, sending, base, made, allowed>>

\* The connection closed, and the request with it.
Dropped ==
    /\ waiting # {}
    /\ waiting' = {}
    /\ UNCHANGED <<row, removed, enrolled, sending, base, made, allowed>>

\* A request to pair again is more than a day old.
Lapse ==
    /\ row.status = "rejoin_pending"
    /\ row' = [row EXCEPT !.status = "authorized"]
    /\ UNCHANGED <<removed, enrolled, waiting, sending, base, made, allowed>>

\* Mutant of Baseline: each puts back what it found itself.
BaselineOwn == row

\* Overlapping approvals share what the first of them found.
Baseline == IF sending = {} THEN row ELSE base

\* The row is written, the remembered connection taken, and the answer sent.
Approve ==
    /\ row.status # "none" /\ ~Out
    /\ made < MaxApprovals
    /\ made' = made + 1
    /\ \E s \in waiting : sending' = sending \cup {[secret |-> made', to |-> s]}
    /\ row' = Approved(made')
    /\ base' = Baseline
    /\ waiting' = {}
    /\ UNCHANGED <<removed, enrolled, allowed>>

\* Nobody is waiting: the same call, back to the baseline before it returns.
ApproveNobody ==
    /\ row.status # "none" /\ ~Out
    /\ waiting = {}
    /\ made < MaxApprovals
    /\ made' = made + 1
    /\ row' = Baseline
    /\ UNCHANGED <<removed, enrolled, waiting, sending, base, allowed>>

\* Delivered: the audit says so, and later failures put back this row.
ApproveTold(a) ==
    /\ a \in sending
    /\ sending' = sending \ {a}
    /\ base' = Approved(a.secret)
    /\ allowed' = allowed \cup {a.secret}
    /\ UNCHANGED <<row, removed, enrolled, waiting, made>>

\* Only if the row is still this call's.
PutBack(a) == IF row.secret = a.secret THEN base ELSE row

ApproveFails(a) ==
    /\ a \in sending
    /\ sending' = sending \ {a}
    /\ row' = PutBack(a)
    /\ UNCHANGED <<removed, enrolled, waiting, base, made, allowed>>

\* Mutant of TurnedDown: a request to pair again is denied like any other.
TurnedDownOut(r) == [r EXCEPT !.status = "denied", !.authorized = FALSE]

TurnedDown(r) ==
    [r EXCEPT !.status = CASE @ = "rejoin_pending" -> "authorized"
                           [] @ = "none" -> "none"
                           [] OTHER -> "denied"]

Deny ==
    /\ row' = TurnedDown(row)
    /\ waiting' = {}
    /\ UNCHANGED <<removed, enrolled, sending, base, made, allowed>>

\* The revocation is minted into the authority log and stamped on the row.
Revoke ==
    /\ row.status # "none" \/ enrolled
    /\ row' = [row EXCEPT !.status = "revoked", !.revoked = TRUE]
    /\ removed' = TRUE
    /\ UNCHANGED <<enrolled, waiting, sending, base, made, allowed>>

\* evaluateLogin with the right PIN, and the roster entry before the reply.
Opens(secret) == ~Out /\ row.authorized /\ row.secret = secret

LogsIn(secret) ==
    /\ Opens(secret)
    /\ enrolled' = TRUE
    /\ UNCHANGED <<row, removed, waiting, sending, base, made, allowed>>
-----------------------------------------------------------------------------
(* The approving computer alone, whatever the other side sends.            *)

NextHost ==
    \/ \E s \in Sessions, again \in BOOLEAN : Request(s, again)
    \/ Dropped \/ Lapse \/ Approve \/ ApproveNobody \/ Deny \/ Revoke
    \/ \E a \in sending : ApproveTold(a) \/ ApproveFails(a)
    \/ LogsIn(row.secret)

SpecHost == (\E known \in BOOLEAN : InitHost(known)) /\ [][NextHost]_host
-----------------------------------------------------------------------------
\* When no answer is on its way, the row is not authorized with a secret
\* nobody was given, however approvals, refusals and new requests overlapped
\* (the promise of approveDevice to put the row back).
SecretIsHeld == sending = {} /\ row.authorized => row.secret \in allowed

\* A device that was let in before stays let in: asking to pair again, being
\* turned down, a lapsed request and an approval that is not delivered leave
\* its row authorized (denyDevice: only Remove takes a device out).
KeepsItsPlace == 0 \in allowed => row.authorized
=============================================================================
