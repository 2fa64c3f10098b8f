--------------------------- MODULE RemovalQuorum ----------------------------
(***************************************************************************)
(* The quorum of electron/automerge/authorityReplay.js: how many of the    *)
(* admins must vote before one of them is removed, and which admins are    *)
(* left when every removal that the votes allow has been made.             *)
(***************************************************************************)
EXTENDS Integers, FiniteSets

\* Of n admins, the votes that remove one: a majority of the n - 1 others.
QuorumThreshold(n) == (n - 1) \div 2 + 1

\* Mutant of Outvoted: half of the others is enough.
HalfIsEnough(t, G, voters) ==
    voters[t] # {} /\ 2 * Cardinality(voters[t]) >= Cardinality(G) - 1

\* The votes against t reach the threshold of the admins G.
Outvoted(t, G, voters) == Cardinality(voters[t]) >= QuorumThreshold(Cardinality(G))

\* Nobody in G is outvoted there.
Settled(G, voters) == \A t \in G : ~Outvoted(t, G, voters)

\* The largest settled part of the granted devices (QuorumSweep: where every
\* order of removals ends).
Survivors(granted, voters) == UNION {G \in SUBSET granted : Settled(G, voters)}
=============================================================================
