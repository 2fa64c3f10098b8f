-------------------------- MODULE QuorumSweep_proofs --------------------------
(***************************************************************************)
(* QuorumSweep for every finite set of devices, every set of admins and    *)
(* every set of votes: the order in which a sweep takes the targets has no *)
(* influence on who is left.                                               *)
(*                                                                         *)
(* A settled set is spared by every removal because the threshold grows    *)
(* with the admins: whoever is outvoted among many is outvoted among few.  *)
(* What is left at the end is settled because a sweep that removed nobody  *)
(* judged everyone it looked at among the very admins that are left.       *)
(***************************************************************************)
EXTENDS QuorumSweep, FiniteSetTheorems, TLAPS

\* In a sweep that has removed nobody, whoever it has looked at is spared.
LookedAtAreSpared ==
    ~changed => \A t \in granted \ todo : ~Outvoted(t, granted, voters)

IInv == TypeOK /\ SurvivorsStay /\ LookedAtAreSpared

-----------------------------------------------------------------------------
(* Counting                                                                *)

LEMMA Counts ==
    ASSUME NEW S \in SUBSET Devices
    PROVE  IsFiniteSet(S) /\ Cardinality(S) \in Nat
  BY DevicesFinite, FS_Subset, FS_CardinalityType

\* The threshold grows with the number of admins.
LEMMA ThresholdGrows ==
    ASSUME NEW m \in Nat, NEW n \in Nat, m <= n
    PROVE  QuorumThreshold(m) <= QuorumThreshold(n)
  BY DEF QuorumThreshold

\* Nobody voted for by none is outvoted.
LEMMA ThresholdIsPositive ==
    ASSUME NEW n \in Nat, n > 0
    PROVE  QuorumThreshold(n) > 0
  BY DEF QuorumThreshold

\* Outvoted among many, outvoted among few of them.
LEMMA OutvotedAmongFewer ==
    ASSUME NEW G \in SUBSET Devices, NEW H \in SUBSET G, NEW t \in Devices,
           voters \in [Devices -> SUBSET Devices], Outvoted(t, G, voters)
    PROVE  Outvoted(t, H, voters)
<1>1. Cardinality(H) \in Nat /\ Cardinality(G) \in Nat /\ Cardinality(H) <= Cardinality(G)
  BY Counts, FS_Subset
<1>2. Cardinality(voters[t]) \in Nat
  BY Counts
<1>3. QuorumThreshold(Cardinality(H)) <= QuorumThreshold(Cardinality(G))
  BY <1>1, ThresholdGrows
<1>4. QuorumThreshold(Cardinality(H)) \in Int /\ QuorumThreshold(Cardinality(G)) \in Int
  BY <1>1 DEF QuorumThreshold
<1> QED
  BY <1>2, <1>3, <1>4 DEF Outvoted

\* Somebody outvoted has votes against it.
LEMMA OutvotedHasVoters ==
    ASSUME NEW G \in SUBSET Devices, NEW t \in G, Outvoted(t, G, voters)
    PROVE  voters[t] # {}
<1>1. Cardinality(G) \in Nat /\ Cardinality(G) # 0
  BY Counts, FS_EmptySet
<1>2. QuorumThreshold(Cardinality(G)) > 0
  BY <1>1, ThresholdIsPositive
<1> SUFFICES ASSUME voters[t] = {} PROVE FALSE
  OBVIOUS
<1>3. Cardinality(voters[t]) = 0
  BY FS_EmptySet
<1>4. QuorumThreshold(Cardinality(G)) \in Int
  BY <1>1 DEF QuorumThreshold
<1> QED
  BY <1>2, <1>3, <1>4 DEF Outvoted

\* A settled set that holds every settled set is the survivors.
LEMMA GreatestSettled ==
    ASSUME NEW S, NEW G \in SUBSET S, NEW v, Settled(G, v),
           \A H \in SUBSET S : Settled(H, v) => H \subseteq G
    PROVE  G = Survivors(S, v)
  BY DEF Survivors

-----------------------------------------------------------------------------
(* The invariant                                                           *)

LEMMA InitInvariant == Init => IInv
  BY DEF Init, IInv, TypeOK, SurvivorsStay, LookedAtAreSpared

LEMMA StartInvariant == IInv /\ StartSweep => IInv'
<1> SUFFICES ASSUME IInv, StartSweep PROVE IInv'
  OBVIOUS
<1> USE DEF IInv
<1>1. TypeOK'
  BY DEF TypeOK, StartSweep
<1>2. SurvivorsStay'
  BY DEF SurvivorsStay, StartSweep
<1>3. LookedAtAreSpared'
  <2> SUFFICES ASSUME NEW t \in granted, Outvoted(t, granted, voters)
               PROVE  t \in todo'
    BY DEF LookedAtAreSpared, StartSweep
  <2>1. granted \in SUBSET Devices
    BY DEF TypeOK
  <2>2. voters[t] # {}
    BY <2>1, OutvotedHasVoters
  <2> QED
    BY <2>1, <2>2 DEF StartSweep
<1> QED
  BY <1>1, <1>2, <1>3

LEMMA LookInvariant == ASSUME NEW t \in Devices, IInv, Look(t) PROVE IInv'
<1> USE DEF IInv
<1>1. TypeOK'
  BY DEF TypeOK, Look, LookAndRemoveIf
<1>2. CASE t \in granted /\ Outvoted(t, granted, voters)
  <2>1. granted' = granted \ {t} /\ changed' = TRUE /\ UNCHANGED <<first, voters>>
    BY <1>2 DEF Look, LookAndRemoveIf
  <2>2. SurvivorsStay'
    <3> SUFFICES ASSUME NEW G \in SUBSET first, Settled(G, voters)
                 PROVE  G \subseteq granted \ {t}
      BY <2>1 DEF SurvivorsStay
    <3>1. G \subseteq granted
      BY DEF SurvivorsStay
    <3>2. granted \in SUBSET Devices /\ voters \in [Devices -> SUBSET Devices]
      BY DEF TypeOK
    <3>3. Outvoted(t, G, voters)
      BY <1>2, <3>1, <3>2, OutvotedAmongFewer
    <3> QED
      BY <3>1, <3>3 DEF Settled
  <2>3. LookedAtAreSpared'
    BY <2>1 DEF LookedAtAreSpared
  <2> QED
    BY <1>1, <2>2, <2>3
<1>3. CASE ~(t \in granted /\ Outvoted(t, granted, voters))
  <2>1. UNCHANGED <<first, voters, granted, changed>> /\ todo' = todo \ {t}
    BY <1>3 DEF Look, LookAndRemoveIf
  <2>2. SurvivorsStay'
    BY <2>1 DEF SurvivorsStay
  <2>3. LookedAtAreSpared'
    BY <1>3, <2>1 DEF LookedAtAreSpared
  <2> QED
    BY <1>1, <2>2, <2>3
<1> QED
  BY <1>2, <1>3

LEMMA StutterInvariant == IInv /\ UNCHANGED vars => IInv'
  BY DEF IInv, TypeOK, SurvivorsStay, LookedAtAreSpared, vars

LEMMA StepInvariant == IInv /\ [Next]_vars => IInv'
  BY StartInvariant, LookInvariant, StutterInvariant DEF Next

LEMMA EndsRight == IInv => EndsAtSurvivors
<1> SUFFICES ASSUME IInv, Done PROVE granted = Survivors(first, voters)
  BY DEF EndsAtSurvivors
<1>1. granted \in SUBSET first
  BY DEF IInv, TypeOK
<1>2. Settled(granted, voters)
  BY DEF IInv, LookedAtAreSpared, Done, Settled
<1>3. \A G \in SUBSET first : Settled(G, voters) => G \subseteq granted
  BY DEF IInv, SurvivorsStay
<1> QED
  BY <1>1, <1>2, <1>3, GreatestSettled

-----------------------------------------------------------------------------
(* The theorems                                                            *)

\* The state of the sweeps keeps its types: nobody is made an admin by them.
THEOREM TypeCorrect == Spec => []TypeOK
<1>1. IInv => TypeOK
  BY DEF IInv
<1> QED
  BY <1>1, InitInvariant, StepInvariant, PTL DEF Spec

\* stateAt's removals spare every settled set, in every order.
THEOREM Spared == Spec => []SurvivorsStay
<1>1. IInv => SurvivorsStay
  BY DEF IInv
<1> QED
  BY <1>1, InitInvariant, StepInvariant, PTL DEF Spec

\* stateAt's sweeps end with the same admins in every order, on every device.
THEOREM Confluent == Spec => []EndsAtSurvivors
  BY InitInvariant, StepInvariant, EndsRight, PTL DEF Spec
=============================================================================
