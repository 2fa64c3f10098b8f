---------------------------- MODULE QuorumSweep -----------------------------
(***************************************************************************)
(* The fixed point at the end of stateAt (electron/automerge/              *)
(* authorityReplay.js): sweeps over the devices with votes against them,   *)
(* removing each that is outvoted among the admins left, until a sweep     *)
(* removes nobody.  A JavaScript Map is swept in the order its keys came   *)
(* in, which differs between devices; here each sweep takes any order.     *)
(***************************************************************************)
EXTENDS RemovalQuorum

CONSTANT Devices
ASSUME DevicesFinite == IsFiniteSet(Devices)

VARIABLES
    first,     \* the devices granted before any vote is counted
    voters,    \* who has a standing vote against each device
    granted,   \* grantedSet, as the sweeps leave it
    todo,      \* the targets this sweep has still to look at
    changed    \* this sweep removed somebody

vars == <<first, voters, granted, todo, changed>>

\* No vote counts toward its signer's own removal.
Init ==
    /\ first \in SUBSET Devices
    /\ voters \in {v \in [Devices -> SUBSET Devices] : \A t \in Devices : t \notin v[t]}
    /\ granted = first
    /\ todo = {} /\ changed = TRUE

StartSweep ==
    /\ changed /\ todo = {}
    /\ todo' = {t \in Devices : voters[t] # {}}
    /\ changed' = FALSE
    /\ UNCHANGED <<first, voters, granted>>

LookAndRemoveIf(t, removes) ==
    /\ t \in todo
    /\ todo' = todo \ {t}
    /\ IF removes
       THEN granted' = granted \ {t} /\ changed' = TRUE
       ELSE UNCHANGED <<granted, changed>>
    /\ UNCHANGED <<first, voters>>

\* Mutant of Look: a removed device's votes go with it.
LookEvicting(t) ==
    LookAndRemoveIf(t, t \in granted /\ Outvoted(t, granted, [d \in Devices |-> voters[d] \cap granted]))

Look(t) == LookAndRemoveIf(t, t \in granted /\ Outvoted(t, granted, voters))

Next == StartSweep \/ \E t \in Devices : Look(t)

\* The loop is one run of synchronous code.
Spec == Init /\ [][Next]_vars /\ WF_vars(Next)

Done == todo = {} /\ ~changed

-----------------------------------------------------------------------------
TypeOK ==
    /\ first \in SUBSET Devices
    /\ voters \in [Devices -> SUBSET Devices]
    /\ granted \in SUBSET first
    /\ todo \in SUBSET Devices
    /\ changed \in BOOLEAN

\* No order of removals takes a device that belongs to a settled set: a vote
\* that counts late never removes somebody an early one would have spared.
SurvivorsStay == \A G \in SUBSET first : Settled(G, voters) => G \subseteq granted

\* Whatever the order, the sweeps leave the same admins: stateAt is a function
\* of the votes, not of the order a device's document lists them in.
EndsAtSurvivors == Done => granted = Survivors(first, voters)

=============================================================================
