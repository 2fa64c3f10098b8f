-------------------------------- MODULE Join --------------------------------
(***************************************************************************)
(* A device joins a camp, or pairs again with its own: the sessions of     *)
(* electron/sync/automerge/joinSession.js, which run on the nodes of       *)
(* NodeLifecycle and ask the computer of Approval to be let in.            *)
(*                                                                         *)
(* What the join code, its proof, the PIN, the limits on requests and the  *)
(* schema versions decide is the choice between a request that is heard    *)
(* and one that is refused.                                                *)
(***************************************************************************)
EXTENDS Approval, NodeLifecycle

ASSUME JoinAssumption == Sessions = Attempts

VARIABLES
    session,    \* phase, first decision received, secret received
    arrived     \* approvals whose answer reached the device

vars == <<host, device, session, arrived>>

Phases == {"new", "asked", "in", "over"}
Fresh == [phase |-> "new", decision |-> "none", secret |-> 0]

TypeOK ==
    /\ TypeOKHost /\ TypeOKDevice
    /\ session \in [Sessions -> [phase : Phases, decision : {"none", "approved", "denied"},
                                 secret : Secrets]]
    /\ arrived \subseteq Secrets

Init ==
    /\ \E known \in BOOLEAN : InitHost(known) /\ InitDevice(known)
    /\ session = [s \in Sessions |-> Fresh]
    /\ arrived = {}
-----------------------------------------------------------------------------
Live(s) == s = active /\ s \in temp /\ stopping = NotStopping /\ call = Idle

To(s, phase) == [session EXCEPT ![s].phase = phase]

\* Only the first decision counts.
Decided(s, decision, secret) ==
    [session EXCEPT ![s].decision = IF @ = "none" THEN decision ELSE @,
                    ![s].secret = IF session[s].decision = "none" THEN secret ELSE @]

\* The reply says it is pending; a lost reply ends the attempt.
Asks(s) ==
    /\ Live(s) /\ session[s].phase = "new"
    /\ Request(s, again)
    /\ \E phase \in {"asked", "over"} : session' = To(s, phase)
    /\ UNCHANGED <<device, arrived>>

IsTold(s) ==
    /\ Live(s) /\ session[s].phase = "new"
    /\ Redelivers(again)
    /\ session' = [session EXCEPT ![s] =
                      [phase |-> "asked", decision |-> "approved", secret |-> row.secret]]
    /\ UNCHANGED <<host, device, arrived>>

\* No host found, a proof that fails, a closed window, a limit, a removed or
\* unknown device: nothing changes on the other side.
IsRefused(s) ==
    /\ Live(s) /\ session[s].phase = "new"
    /\ session' = To(s, "over")
    /\ UNCHANGED <<host, device, arrived>>

\* The answer is dialed to the device, not to the session: another session
\* cannot check its proof, and takes it for a refusal.
AnswerArrives(a, s) ==
    /\ a \in sending /\ a.secret \notin arrived
    /\ s \in temp
    /\ arrived' = arrived \cup {a.secret}
    /\ session' = IF s = a.to THEN Decided(s, "approved", a.secret) ELSE Decided(s, "denied", 0)
    /\ UNCHANGED <<host, device>>

Turned ==
    /\ Deny
    /\ \/ UNCHANGED session
       \/ \E s \in waiting \cap temp : session' = Decided(s, "denied", 0)
    /\ UNCHANGED <<device, arrived>>

\* The device stores the camp when the reply reaches it.
Login(s) ==
    /\ Live(s) /\ session[s].phase = "asked" /\ session[s].decision = "approved"
    /\ LogsIn(session[s].secret)
    /\ \/ BecomesMember(s) /\ session' = To(s, "in")
       \/ UNCHANGED <<device, session>>
    /\ UNCHANGED arrived

Receives(s) ==
    /\ session[s].phase = "in" /\ s \in temp
    /\ DataArrives(s)
    /\ session' = To(s, "over")
    /\ UNCHANGED <<host, arrived>>

Director == Lapse \/ Approve \/ ApproveNobody \/ Revoke \/ Dropped
AnswerEnds(a) == ApproveTold(a) \/ (a.secret \notin arrived /\ ApproveFails(a))

Next ==
    \/ Lifecycle /\ UNCHANGED <<host, session, arrived>>
    \/ (Director \/ \E a \in sending : AnswerEnds(a)) /\ UNCHANGED <<device, session, arrived>>
    \/ Turned
    \/ \E s \in Sessions : Asks(s) \/ IsTold(s) \/ IsRefused(s) \/ Login(s) \/ Receives(s)
    \/ \E a \in sending, s \in Sessions : AnswerArrives(a, s)

Spec == Init /\ [][Next]_vars
-----------------------------------------------------------------------------
\* When nothing is under way and the join screen is closed, a device of a camp
\* syncs, or its last start is known to have ended in failure: a completed join
\* starts sync, and an attempt to pair again that ends in any way brings it
\* back (main.js, activeJoinIsRejoin).  Not so a first join given up between
\* its login and the camp's data.
SyncComesBack ==
    Quiet /\ ~screen /\ member /\ stuck = {} /\ quitting.at = "no"
    /\ (starter > 1 \/ \A s \in Sessions : session[s].phase # "in")
        => starter \in up \cup tried

\* A device the roster admits is one a director let in: its row is authorized,
\* or it was removed (T346: "no half-authorized device exists").
NoHalfAuthorized == sending = {} /\ enrolled /\ ~Out => row.authorized

\* The secret a session was given by an approval that was reported delivered
\* signs it in.
ApprovedOpens ==
    \A s \in Sessions :
        Live(s) /\ session[s].secret \in allowed \ {0} /\ sending = {} /\ ~Out
            => Opens(session[s].secret)
=============================================================================
