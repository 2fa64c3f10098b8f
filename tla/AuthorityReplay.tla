-------------------------- MODULE AuthorityReplay ---------------------------
(***************************************************************************)
(* Who is an admin, as electron/automerge/authorityReplay.js derives it    *)
(* from the entries a device's document holds and from nothing else.       *)
(*                                                                         *)
(* log is every entry minted anywhere, each the one Automerge change that  *)
(* wrote it, in an order that puts a change after its past; P, the numbers *)
(* of the changes a document holds, is closed under past.  Signatures are  *)
(* those the mint helpers make; the genesis names Founder and its peer id. *)
(* An entry is [kind, target, signer, bound, past]: bound, a grant carries *)
(* its target's peer id and not the empty string; past, the changes the    *)
(* writing device held.                                                    *)
(***************************************************************************)
EXTENDS RemovalQuorum, Sequences

CONSTANTS Devices, Founder
ASSUME DevicesAssumption == Founder \in Devices /\ IsFiniteSet(Devices)

Removed(t, state) == t \in state.ever /\ t \notin state.granted

\* Mutant of Voters: one vote per signer, whoever it is against.
LatestVoters(log, votes, t) ==
    {s \in Devices : \E c \in votes :
        /\ log[c].signer = s /\ log[c].target = t
        /\ \A v \in votes : log[v].signer = s => v <= c}

\* The signers with at least one of these votes against t.
Voters(log, votes, t) == {log[c].signer : c \in {v \in votes : log[v].target = t}}

\* An entry counts by its signer's standing in its own past.
Counted(log, P, at, verifiable) ==
    {c \in P : /\ log[c].signer \in verifiable
               /\ log[c].signer # log[c].target
               /\ log[c].signer \in at[c].granted}

Grants(log, counted, at) ==
    {c \in counted : log[c].kind = "grant" /\ ~Removed(log[c].target, at[c])}

\* A vote stands unless a counted grant of its target saw it.
Votes(log, counted, grants) ==
    {c \in counted : /\ log[c].kind = "revoke"
                     /\ \A g \in grants : log[g].target = log[c].target => c \notin log[g].past}

\* stateAt over the changes P, given the states at them and the devices whose
\* signature can be verified.
StateOver(log, P, at, verifiable) ==
    LET counted == Counted(log, P, at, verifiable)
        grants == Grants(log, counted, at)
        votes == Votes(log, counted, grants)
        ever == {Founder} \cup {log[c].target : c \in grants}
        voters == [t \in Devices |-> Voters(log, votes, t)]
    IN  [ever |-> ever, voters |-> voters, granted |-> Survivors(ever, voters)]

\* Mutant of StatesAt: once an admin, a signer counts for ever.
StandingForEver(log, verifiable) ==
    LET at[c \in DOMAIN log] == LET now == StateOver(log, log[c].past, at, verifiable)
                                IN  [now EXCEPT !.granted = now.ever]
    IN  at

\* stateAt at every change, each from the states in its past.
StatesAt(log, verifiable) ==
    LET at[c \in DOMAIN log] == StateOver(log, log[c].past, at, verifiable)
    IN  at

\* One pass of resolveAuthorityPeerIds: whose peer id is bound by the genesis
\* or by a grant of an admin whose own signature could be verified.
Bound(log, P, verifiable) ==
    LET at == StatesAt(log, verifiable)
    IN  {Founder} \cup
        {log[c].target : c \in {c \in P : /\ log[c].kind = "grant" /\ log[c].bound
                                          /\ log[c].target # log[c].signer
                                          /\ log[c].signer \in verifiable
                                          /\ log[c].signer \in at[c].granted}}

\* All its passes: one more than there are grants with a peer id.
Passes(log, P) ==
    1 + Cardinality({c \in P : /\ log[c].kind = "grant" /\ log[c].bound
                               /\ log[c].target \notin {Founder, log[c].signer}})

Repeated(pass, n) ==
    LET known[k \in 0..n] == IF k = 0 THEN {Founder} ELSE pass[known[k - 1]]
    IN  known[n]

Verifiable(log, P) ==
    Repeated([known \in SUBSET Devices |-> Bound(log, P, known)], Passes(log, P))

\* currentState with the verified entries' trust, and currentRevokedDeviceIds:
\* the targets of an admin's entries who are no admins.
CurrentState(log, P) ==
    LET verifiable == Verifiable(log, P)
        at == StatesAt(log, verifiable)
        now == StateOver(log, P, at, verifiable)
        applied == {c \in P : /\ log[c].signer \in verifiable
                              /\ log[c].signer \in at[c].granted}
    IN  [admins |-> now.granted, voters |-> now.voters,
         revoked |-> {log[c].target : c \in applied} \ now.granted]
=============================================================================
