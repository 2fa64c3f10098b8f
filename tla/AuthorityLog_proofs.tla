------------------------- MODULE AuthorityLog_proofs -------------------------
(***************************************************************************)
(* AuthorityLog for every finite set of devices and every number of        *)
(* entries.                                                                *)
(*                                                                         *)
(* The states of a log are a function of its entries defined along their   *)
(* pasts; that it is defined, and that an entry minted elsewhere changes   *)
(* none of its values, is shown by looking at the least change where it    *)
(* would fail.  The invariant is that every device's cache is what its     *)
(* document says (Derived).  The rest is about two documents: what one     *)
(* that gains only removals can say, and what one vote can do.             *)
(***************************************************************************)
EXTENDS AuthorityLog, FiniteSetTheorems, WellFoundedInduction, TLAPS

-----------------------------------------------------------------------------
(* The states of a log                                                     *)

\* A set of numbers has a least one.
LEMMA LeastExists ==
    ASSUME NEW S \in SUBSET Nat, S # {}
    PROVE  \E x \in S : \A y \in S : x <= y
<1>1. PICK x \in S : \A y \in S : <<y, x>> \notin OpToRel(<, Nat)
  BY NatLessThanWellFounded, WFMin
<1>2. \A y \in S : ~(y < x)
  BY <1>1 DEF OpToRel
<1> QED
  BY <1>2

Entry == [kind : {"grant", "revoke"}, target : Devices, signer : Devices,
          bound : BOOLEAN, past : SUBSET Nat]

IsLog(l) == l \in Seq(Entry) /\ \A c \in 1..Len(l) : l[c].past \subseteq 1..c - 1

\* m is l and perhaps more.
Extends(l, m) == Len(l) <= Len(m) /\ \A c \in 1..Len(l) : m[c] = l[c]

\* Two logs and their states, as far as the changes P are concerned.
Agree(l, m, f, g, P) == \A c \in P : l[c] = m[c] /\ f[c] = g[c]

LEMMA StateOverSame ==
    ASSUME NEW l, NEW m, NEW f, NEW g, NEW P, NEW v, Agree(l, m, f, g, P)
    PROVE  StateOver(l, P, f, v) = StateOver(m, P, g, v)
<1> DEFINE C == Counted(l, P, f, v)
           G == Grants(l, C, f)
           V == Votes(l, C, G)
<1>1. C = Counted(m, P, g, v)
  BY DEF Counted, Agree
<1>2. C \subseteq P
  BY DEF Counted
<1>3. G = Grants(m, C, g)
  BY <1>2 DEF Grants, Agree
<1>4. G \subseteq P
  BY <1>2 DEF Grants
<1>5. V = Votes(m, C, G)
  BY <1>2, <1>4 DEF Votes, Agree
<1>6. V \subseteq P
  BY <1>2 DEF Votes
<1> HIDE DEF C, G, V
<1>7. ASSUME NEW t \in Devices
      PROVE  Voters(l, V, t) = Voters(m, V, t)
  BY <1>6 DEF Voters, Agree
<1>8. {l[c].target : c \in G} = {m[c].target : c \in G}
  BY <1>4 DEF Agree
<1>9. [t \in Devices |-> Voters(l, V, t)] = [t \in Devices |-> Voters(m, V, t)]
  BY <1>7
<1> QED
  BY <1>1, <1>3, <1>5, <1>8, <1>9 DEF StateOver, C, G, V

\* f is the states of the first n changes of l.
Upto(l, v, n, f) == f = [c \in 1..n |-> StateOver(l, l[c].past, f, v)]

LEMMA StatesUpto ==
    ASSUME NEW l, IsLog(l), NEW v, NEW n \in 0..Len(l)
    PROVE  \E f : Upto(l, v, n, f)
<1> DEFINE B == {k \in Nat : k <= Len(l) /\ ~\E f : Upto(l, v, k, f)}
<1> SUFFICES B = {}
  BY DEF IsLog
<1> SUFFICES ASSUME B # {} PROVE FALSE
  OBVIOUS
<1>1. PICK k \in B : \A y \in B : k <= y
  BY LeastExists
<1>2. k \in Nat /\ k <= Len(l) /\ Len(l) \in Nat /\ ~\E f : Upto(l, v, k, f)
  BY DEF IsLog
<1> HIDE DEF B
<1>3. CASE k = 0
  <2>1. Upto(l, v, 0, [c \in 1..0 |-> 0])
    BY DEF Upto
  <2> QED
    BY <1>2, <1>3, <2>1
<1>4. CASE k # 0
  <2>1. k - 1 \in Nat /\ k - 1 <= Len(l) /\ k - 1 < k
    BY <1>2, <1>4
  <2>2. k - 1 \notin B
    BY <1>1, <1>2, <2>1
  <2>3. PICK f : Upto(l, v, k - 1, f)
    BY <2>1, <2>2 DEF B
  <2> DEFINE g == [c \in 1..k |-> StateOver(l, l[c].past, f, v)]
  <2>4. ASSUME NEW c \in 1..k - 1
        PROVE  f[c] = g[c]
    <3>1. f[c] = StateOver(l, l[c].past, f, v)
      BY <2>3 DEF Upto
    <3>2. c \in 1..k
      BY <1>2
    <3> QED
      BY <3>1, <3>2
  <2>5. ASSUME NEW c \in 1..k
        PROVE  g[c] = StateOver(l, l[c].past, g, v)
    <3>1. l[c].past \subseteq 1..k - 1
      BY <1>2 DEF IsLog
    <3>2. Agree(l, l, f, g, l[c].past)
      BY <3>1, <2>4 DEF Agree
    <3>3. g[c] = StateOver(l, l[c].past, f, v)
      OBVIOUS
    <3> QED
      BY <3>2, <3>3, StateOverSame
  <2>6. g = [c \in 1..k |-> g[c]]
    OBVIOUS
  <2> HIDE DEF g
  <2>7. Upto(l, v, k, g)
    BY <2>5, <2>6 DEF Upto
  <2> QED
    BY <2>7, <1>2
<1> QED
  BY <1>3, <1>4

\* stateAt is defined for every change of a log, from the changes in its past.
LEMMA StatesAre ==
    ASSUME NEW l, IsLog(l), NEW v
    PROVE  StatesAt(l, v) = [c \in 1..Len(l) |-> StateOver(l, l[c].past, StatesAt(l, v), v)]
<1>1. DOMAIN l = 1..Len(l) /\ Len(l) \in 0..Len(l)
  BY DEF IsLog
<1>2. PICK f : Upto(l, v, Len(l), f)
  BY <1>1, StatesUpto
<1>3. f = [c \in DOMAIN l |-> StateOver(l, l[c].past, f, v)]
  BY <1>1, <1>2 DEF Upto
<1>4. StatesAt(l, v) = CHOOSE h : h = [c \in DOMAIN l |-> StateOver(l, l[c].past, h, v)]
  BY DEF StatesAt
<1>5. StatesAt(l, v) = [c \in DOMAIN l |-> StateOver(l, l[c].past, StatesAt(l, v), v)]
  BY <1>3, <1>4
<1> QED
  BY <1>1, <1>5

LEMMA StatesExtend ==
    ASSUME NEW l, NEW m, IsLog(l), IsLog(m), Extends(l, m), NEW v, NEW n \in 1..Len(l)
    PROVE  StatesAt(l, v)[n] = StatesAt(m, v)[n]
<1> DEFINE f == StatesAt(l, v)
           g == StatesAt(m, v)
           B == {k \in Nat : k \in 1..Len(l) /\ f[k] # g[k]}
<1> SUFFICES B = {}
  BY DEF IsLog
<1> SUFFICES ASSUME B # {} PROVE FALSE
  OBVIOUS
<1>1. PICK k \in B : \A y \in B : k <= y
  BY LeastExists
<1>2. k \in 1..Len(l) /\ k \in 1..Len(m) /\ f[k] # g[k] /\ l[k] = m[k] /\ k \in Nat
  BY DEF Extends, IsLog
<1>3. f = [c \in 1..Len(l) |-> StateOver(l, l[c].past, f, v)]
  BY StatesAre
<1>4. g = [c \in 1..Len(m) |-> StateOver(m, m[c].past, g, v)]
  BY StatesAre
<1> HIDE DEF f, g
<1>5. l[k].past \subseteq 1..k - 1 /\ 1..k - 1 \subseteq 1..Len(l)
  BY <1>2 DEF IsLog
<1>6. \A c \in 1..k - 1 : f[c] = g[c]
  BY <1>1, <1>2, <1>5
<1>7. Agree(l, m, f, g, l[k].past)
  BY <1>5, <1>6 DEF Agree, Extends
<1>8. f[k] = StateOver(l, l[k].past, f, v)
  BY <1>2, <1>3
<1>9. g[k] = StateOver(m, l[k].past, g, v)
  BY <1>2, <1>4
<1> QED
  BY <1>2, <1>7, <1>8, <1>9, StateOverSame

-----------------------------------------------------------------------------
(* What a document says depends on the entries it holds, not on what was   *)
(* minted elsewhere.                                                       *)

LEMMA BoundExtends ==
    ASSUME NEW l, NEW m, IsLog(l), IsLog(m), Extends(l, m), NEW P \in SUBSET (1..Len(l)), NEW v
    PROVE  Bound(l, P, v) = Bound(m, P, v)
<1>1. \A c \in P : l[c] = m[c] /\ StatesAt(l, v)[c] = StatesAt(m, v)[c]
  BY StatesExtend DEF Extends
<1> QED
  BY <1>1 DEF Bound

LEMMA PassesExtend ==
    ASSUME NEW l, NEW m, Extends(l, m), NEW P \in SUBSET (1..Len(l))
    PROVE  Passes(l, P) = Passes(m, P)
<1>1. {c \in P : /\ l[c].kind = "grant" /\ l[c].bound
                 /\ l[c].target \notin {Founder, l[c].signer}}
      = {c \in P : /\ m[c].kind = "grant" /\ m[c].bound
                   /\ m[c].target \notin {Founder, m[c].signer}}
  BY DEF Extends
<1> QED
  BY <1>1 DEF Passes

LEMMA VerifiableExtends ==
    ASSUME NEW l, NEW m, IsLog(l), IsLog(m), Extends(l, m), NEW P \in SUBSET (1..Len(l))
    PROVE  Verifiable(l, P) = Verifiable(m, P)
<1>1. \A known \in SUBSET Devices : Bound(l, P, known) = Bound(m, P, known)
  BY BoundExtends
<1>2. [known \in SUBSET Devices |-> Bound(l, P, known)]
      = [known \in SUBSET Devices |-> Bound(m, P, known)]
  BY <1>1
<1>3. Passes(l, P) = Passes(m, P)
  BY PassesExtend
<1> QED
  BY <1>2, <1>3 DEF Verifiable

\* The state of a document, and whose entries in it are verified.
Now(l, P) == StateOver(l, P, StatesAt(l, Verifiable(l, P)), Verifiable(l, P))

Applied(l, P) ==
    {c \in P : /\ l[c].signer \in Verifiable(l, P)
               /\ l[c].signer \in StatesAt(l, Verifiable(l, P))[c].granted}

LEMMA CurrentIs ==
    ASSUME NEW l, NEW P
    PROVE  CurrentState(l, P) = [admins |-> Now(l, P).granted, voters |-> Now(l, P).voters,
                                 revoked |-> {l[c].target : c \in Applied(l, P)} \ Now(l, P).granted]
  BY DEF CurrentState, Now, Applied

LEMMA CurrentExtends ==
    ASSUME NEW l, NEW m, IsLog(l), IsLog(m), Extends(l, m), NEW P \in SUBSET (1..Len(l))
    PROVE  CurrentState(l, P) = CurrentState(m, P)
<1> DEFINE v == Verifiable(l, P)
<1>1. v = Verifiable(m, P)
  BY VerifiableExtends
<1> HIDE DEF v
<1>2. \A c \in P : l[c] = m[c] /\ StatesAt(l, v)[c] = StatesAt(m, v)[c]
  BY StatesExtend DEF Extends
<1>3. Agree(l, m, StatesAt(l, v), StatesAt(m, v), P)
  BY <1>2 DEF Agree
<1>4. Now(l, P) = Now(m, P)
  BY <1>1, <1>3, StateOverSame DEF Now, v
<1>5. Applied(l, P) = Applied(m, P) /\ Applied(l, P) \subseteq P
  BY <1>1, <1>2 DEF Applied, v
<1>6. {l[c].target : c \in Applied(l, P)} = {m[c].target : c \in Applied(m, P)}
  BY <1>2, <1>5
<1> QED
  BY <1>4, <1>6, CurrentIs

LEMMA CacheExtends ==
    ASSUME NEW l, NEW m, IsLog(l), IsLog(m), Extends(l, m), NEW P \in SUBSET (1..Len(l))
    PROVE  CacheOf(l, P) = CacheOf(m, P)
  BY CurrentExtends DEF CacheOf

-----------------------------------------------------------------------------
(* The quorum                                                              *)

LEMMA Counts ==
    ASSUME NEW S \in SUBSET Devices
    PROVE  IsFiniteSet(S) /\ Cardinality(S) \in Nat
  BY DevicesAssumption, FS_Subset, FS_CardinalityType

LEMMA Thresholds ==
    ASSUME NEW m \in Nat, NEW n \in Nat, m <= n
    PROVE  /\ QuorumThreshold(m) \in Int /\ QuorumThreshold(n) \in Int
           /\ QuorumThreshold(m) <= QuorumThreshold(n)
  BY DEF QuorumThreshold

Ballots == [Devices -> SUBSET Devices]

\* More votes against t, or fewer admins: who was outvoted still is.
LEMMA OutvotedStays ==
    ASSUME NEW v \in Ballots, NEW w \in Ballots, NEW t \in Devices, v[t] \subseteq w[t],
           NEW G \in SUBSET Devices, NEW H \in SUBSET G, Outvoted(t, G, v)
    PROVE  Outvoted(t, H, w)
<1>1. v[t] \in SUBSET Devices /\ w[t] \in SUBSET Devices
  BY DEF Ballots
<1>2. /\ Cardinality(v[t]) \in Nat /\ Cardinality(w[t]) \in Nat
      /\ Cardinality(v[t]) <= Cardinality(w[t])
  BY <1>1, Counts, FS_Subset
<1>3. /\ Cardinality(G) \in Nat /\ Cardinality(H) \in Nat
      /\ Cardinality(H) <= Cardinality(G)
  BY Counts, FS_Subset
<1>4. /\ QuorumThreshold(Cardinality(H)) \in Int /\ QuorumThreshold(Cardinality(G)) \in Int
      /\ QuorumThreshold(Cardinality(H)) <= QuorumThreshold(Cardinality(G))
  BY <1>3, Thresholds
<1> QED
  BY <1>2, <1>4 DEF Outvoted

\* The survivors are themselves settled.
LEMMA SurvivorsSettled ==
    ASSUME NEW S \in SUBSET Devices, NEW v \in Ballots
    PROVE  Survivors(S, v) \subseteq S /\ Settled(Survivors(S, v), v)
<1>1. Survivors(S, v) \subseteq S
  BY DEF Survivors
<1>2. ASSUME NEW t \in Survivors(S, v), Outvoted(t, Survivors(S, v), v)
      PROVE  FALSE
  <2>1. PICK G \in SUBSET S : Settled(G, v) /\ t \in G
    BY DEF Survivors
  <2>2. G \subseteq Survivors(S, v)
    BY <2>1 DEF Survivors
  <2>3. Outvoted(t, G, v)
    BY <1>1, <1>2, <2>1, <2>2, OutvotedStays
  <2> QED
    BY <2>1, <2>3 DEF Settled
<1> QED
  BY <1>1, <1>2 DEF Settled

\* More votes leave no more survivors.
LEMMA SurvivorsShrink ==
    ASSUME NEW S \in SUBSET Devices, NEW v \in Ballots, NEW w \in Ballots,
           \A t \in Devices : v[t] \subseteq w[t]
    PROVE  Survivors(S, w) \subseteq Survivors(S, v)
<1>1. ASSUME NEW G \in SUBSET S, Settled(G, w)
      PROVE  Settled(G, v)
  <2> SUFFICES ASSUME NEW t \in G, Outvoted(t, G, v) PROVE FALSE
    BY DEF Settled
  <2>1. Outvoted(t, G, w)
    BY OutvotedStays
  <2> QED
    BY <1>1, <2>1 DEF Settled
<1> QED
  BY <1>1 DEF Survivors

-----------------------------------------------------------------------------
(* A document that gains only removals gains no admin: grants, and with    *)
(* them the verified devices, are those it had; the votes can only grow.   *)

LEMMA Fields ==
    ASSUME NEW l, IsLog(l), NEW c \in 1..Len(l)
    PROVE  /\ l[c] \in Entry /\ l[c].kind \in {"grant", "revoke"}
           /\ l[c].target \in Devices /\ l[c].signer \in Devices
<1>1. l[c] \in Entry
  BY DEF IsLog
<1> QED
  BY <1>1 DEF Entry

\* P is part of Q, and what Q has besides are removals.
OnlyRemovals(l, P, Q) ==
    P \subseteq Q /\ Q \subseteq 1..Len(l) /\ \A c \in Q \ P : l[c].kind = "revoke"

LEMMA VerifiableStays ==
    ASSUME NEW l, NEW P, NEW Q, OnlyRemovals(l, P, Q)
    PROVE  Verifiable(l, P) = Verifiable(l, Q)
<1>1. ASSUME NEW known
      PROVE  Bound(l, P, known) = Bound(l, Q, known)
  <2> DEFINE at == StatesAt(l, known)
             Binds(c) == /\ l[c].kind = "grant" /\ l[c].bound
                         /\ l[c].target # l[c].signer
                         /\ l[c].signer \in known
                         /\ l[c].signer \in at[c].granted
  <2>1. {c \in P : Binds(c)} = {c \in Q : Binds(c)}
    BY DEF OnlyRemovals
  <2> QED
    BY <2>1 DEF Bound
<1>2. [known \in SUBSET Devices |-> Bound(l, P, known)]
      = [known \in SUBSET Devices |-> Bound(l, Q, known)]
  BY <1>1
<1>3. {c \in P : /\ l[c].kind = "grant" /\ l[c].bound
                 /\ l[c].target \notin {Founder, l[c].signer}}
      = {c \in Q : /\ l[c].kind = "grant" /\ l[c].bound
                   /\ l[c].target \notin {Founder, l[c].signer}}
  BY DEF OnlyRemovals
<1>4. Passes(l, P) = Passes(l, Q)
  BY <1>3 DEF Passes
<1> QED
  BY <1>2, <1>4 DEF Verifiable

LEMMA VotersGrow ==
    ASSUME NEW l, NEW V, NEW W, V \subseteq W, NEW t
    PROVE  Voters(l, V, t) \subseteq Voters(l, W, t)
  BY DEF Voters

\* The state of a document in its parts.
CountedIn(l, P) == Counted(l, P, StatesAt(l, Verifiable(l, P)), Verifiable(l, P))
GrantsIn(l, P) == Grants(l, CountedIn(l, P), StatesAt(l, Verifiable(l, P)))
VotesIn(l, P) == Votes(l, CountedIn(l, P), GrantsIn(l, P))
EverIn(l, P) == {Founder} \cup {l[c].target : c \in GrantsIn(l, P)}
Ballot(l, V) == [t \in Devices |-> Voters(l, V, t)]

LEMMA NowIs ==
    ASSUME NEW l, IsLog(l), NEW P \in SUBSET (1..Len(l))
    PROVE  /\ Now(l, P).granted = Survivors(EverIn(l, P), Ballot(l, VotesIn(l, P)))
           /\ Now(l, P).voters = Ballot(l, VotesIn(l, P))
           /\ EverIn(l, P) \in SUBSET Devices
           /\ Ballot(l, VotesIn(l, P)) \in Ballots
           /\ VotesIn(l, P) \subseteq P
<1>0. \A c \in P : l[c].target \in Devices /\ l[c].signer \in Devices
  BY Fields
<1>1. CountedIn(l, P) \subseteq P
  BY DEF CountedIn, Counted
<1>2. GrantsIn(l, P) \subseteq P /\ VotesIn(l, P) \subseteq P
  BY <1>1 DEF GrantsIn, VotesIn, Grants, Votes
<1>3. EverIn(l, P) \in SUBSET Devices
  BY <1>0, <1>2, DevicesAssumption DEF EverIn
<1>4. \A t \in Devices : Voters(l, VotesIn(l, P), t) \in SUBSET Devices
  BY <1>0, <1>2 DEF Voters
<1>5. Ballot(l, VotesIn(l, P)) \in Ballots
  BY <1>4 DEF Ballot, Ballots
<1>6. Now(l, P) = [ever |-> EverIn(l, P), voters |-> Ballot(l, VotesIn(l, P)),
                   granted |-> Survivors(EverIn(l, P), Ballot(l, VotesIn(l, P)))]
  BY DEF Now, StateOver, CountedIn, GrantsIn, VotesIn, EverIn, Ballot
<1> QED
  BY <1>2, <1>3, <1>5, <1>6

LEMMA RemovalsAdd ==
    ASSUME NEW l, IsLog(l), NEW P, NEW Q, OnlyRemovals(l, P, Q)
    PROVE  /\ GrantsIn(l, P) = GrantsIn(l, Q)
           /\ VotesIn(l, P) \subseteq VotesIn(l, Q)
           /\ VotesIn(l, Q) \ VotesIn(l, P) \subseteq Q \ P
<1> DEFINE v == Verifiable(l, P)
           at == StatesAt(l, v)
<1>1. v = Verifiable(l, Q)
  BY VerifiableStays
<1>2. CountedIn(l, P) = Counted(l, P, at, v) /\ CountedIn(l, Q) = Counted(l, Q, at, v)
  BY <1>1 DEF CountedIn
<1>3. /\ GrantsIn(l, P) = Grants(l, CountedIn(l, P), at)
      /\ GrantsIn(l, Q) = Grants(l, CountedIn(l, Q), at)
  BY <1>1 DEF GrantsIn
<1> HIDE DEF v, at
<1>4. GrantsIn(l, P) = GrantsIn(l, Q)
  BY <1>2, <1>3 DEF Grants, Counted, OnlyRemovals
<1>5. VotesIn(l, P) \subseteq VotesIn(l, Q) /\ VotesIn(l, Q) \ VotesIn(l, P) \subseteq Q \ P
  BY <1>2, <1>4 DEF VotesIn, Votes, Counted, OnlyRemovals
<1> QED
  BY <1>4, <1>5

LEMMA RemovalsAdmitNobody ==
    ASSUME NEW l, IsLog(l), NEW P, NEW Q, OnlyRemovals(l, P, Q)
    PROVE  CurrentState(l, Q).admins \subseteq CurrentState(l, P).admins
<1>1. P \in SUBSET (1..Len(l)) /\ Q \in SUBSET (1..Len(l))
  BY DEF OnlyRemovals
<1>2. GrantsIn(l, P) = GrantsIn(l, Q) /\ VotesIn(l, P) \subseteq VotesIn(l, Q)
  BY RemovalsAdd
<1>3. EverIn(l, P) = EverIn(l, Q)
  BY <1>2 DEF EverIn
<1>4. \A t \in Devices : Ballot(l, VotesIn(l, P))[t] \subseteq Ballot(l, VotesIn(l, Q))[t]
  BY <1>2, VotersGrow DEF Ballot
<1>5. Now(l, Q).granted \subseteq Now(l, P).granted
  BY <1>1, <1>3, <1>4, NowIs, SurvivorsShrink
<1> QED
  BY <1>5, CurrentIs

\* What one more vote against t by itself removes from the admins, it removes
\* by a majority.
LEMMA OneVoteRemoves ==
    ASSUME NEW l, IsLog(l), NEW P, NEW n, OnlyRemovals(l, P, P \cup {n}),
           NEW t \in CurrentState(l, P).admins, l[n].target = t,
           t \notin CurrentState(l, P \cup {n}).admins
    PROVE  Outvoted(t, CurrentState(l, P).admins, CurrentState(l, P \cup {n}).voters)
<1> DEFINE Q == P \cup {n}
           v == Ballot(l, VotesIn(l, P))
           w == Ballot(l, VotesIn(l, Q))
           S == EverIn(l, P)
<1>1. P \in SUBSET (1..Len(l)) /\ Q \in SUBSET (1..Len(l))
  BY DEF OnlyRemovals
<1>2. /\ GrantsIn(l, P) = GrantsIn(l, Q)
      /\ VotesIn(l, P) \subseteq VotesIn(l, Q)
      /\ VotesIn(l, Q) \ VotesIn(l, P) \subseteq {n}
  BY RemovalsAdd
<1>3. S = EverIn(l, Q)
  BY <1>2 DEF EverIn
<1>4. /\ CurrentState(l, P).admins = Survivors(S, v)
      /\ CurrentState(l, Q).admins = Survivors(S, w)
      /\ CurrentState(l, Q).voters = w
      /\ S \in SUBSET Devices /\ v \in Ballots /\ w \in Ballots
  BY <1>1, <1>3, NowIs, CurrentIs
<1>5. ASSUME NEW x \in Devices, x # t
      PROVE  v[x] = w[x]
  <2>1. Voters(l, VotesIn(l, P), x) = Voters(l, VotesIn(l, Q), x)
    BY <1>2, <1>5 DEF Voters
  <2> QED
    BY <2>1 DEF Ballot
<1> HIDE DEF Q, v, w, S
<1> DEFINE G == Survivors(S, v)
<1>6. G \subseteq S /\ Settled(G, v)
  BY <1>4, SurvivorsSettled
<1>7. ~Settled(G, w)
  <2>1. t \in G /\ t \notin Survivors(S, w)
    BY <1>4 DEF Q
  <2> QED
    BY <1>6, <2>1 DEF Survivors
<1>8. PICK x \in G : Outvoted(x, G, w)
  BY <1>7 DEF Settled
<1>9. x = t
  <2> SUFFICES ASSUME x # t PROVE FALSE
    OBVIOUS
  <2>1. v[x] = w[x]
    BY <1>4, <1>5, <1>6
  <2> QED
    BY <1>6, <1>8, <2>1 DEF Settled, Outvoted
<1> QED
  BY <1>4, <1>8, <1>9 DEF Q

-----------------------------------------------------------------------------
(* The devices                                                             *)

\* authority_cache is what the entries of the device's document say.
Derived == cache = [d \in Devices |-> CacheOf(log, doc[d])]

HeldOK == IsLog(log) /\ doc \in [Devices -> SUBSET (1..Len(log))]

RowsOK ==
    /\ revokedAt \in [Devices -> SUBSET Devices]
    /\ peerIds \in [Devices -> SUBSET Devices]
    /\ enrolled \in SUBSET Devices

IInv == HeldOK /\ RowsOK /\ Derived

LEMMA CacheType ==
    ASSUME NEW l, NEW P
    PROVE  /\ CacheOf(l, P) \in [Devices -> {"none", "admin", "revoked"}]
           /\ \A t \in Devices : CacheOf(l, P)[t] = "admin" <=> t \in CurrentState(l, P).admins
  BY DEF CacheOf

LEMMA AppendLog ==
    ASSUME NEW l, IsLog(l), NEW x \in Entry, x.past \subseteq 1..Len(l)
    PROVE  /\ IsLog(Append(l, x)) /\ Extends(l, Append(l, x))
           /\ Len(Append(l, x)) = Len(l) + 1 /\ Append(l, x)[Len(l) + 1] = x
<1> DEFINE m == Append(l, x)
<1>1. l \in Seq(Entry) /\ Len(l) \in Nat
  BY DEF IsLog
<1>2. m \in Seq(Entry) /\ Len(m) = Len(l) + 1
  BY <1>1
<1>3. m[Len(l) + 1] = x /\ \A c \in 1..Len(l) : m[c] = l[c]
  BY <1>1
<1> HIDE DEF m
<1>4. ASSUME NEW c \in 1..Len(m)
      PROVE  m[c].past \subseteq 1..c - 1
  <2>1. CASE c \in 1..Len(l)
    BY <1>3, <2>1 DEF IsLog
  <2>2. CASE c = Len(l) + 1
    BY <1>1, <1>3, <2>2
  <2> QED
    BY <1>1, <1>2, <2>1, <2>2
<1> QED
  BY <1>1, <1>2, <1>3, <1>4 DEF IsLog, Extends, m

LEMMA ExtendsItself ==
    ASSUME NEW l, IsLog(l)
    PROVE  Extends(l, l)
  BY DEF Extends, IsLog

\* The projection follows the document, and nothing else changes the answer.
LEMMA ProjectedDerives ==
    ASSUME HeldOK, Derived, IsLog(log'), Extends(log, log'), Projected
    PROVE  Derived'
<1>1. ASSUME NEW d \in Devices, doc'[d] = doc[d]
      PROVE  cache[d] = CacheOf(log', doc'[d])
  <2>1. doc[d] \in SUBSET (1..Len(log))
    BY DEF HeldOK
  <2>2. cache[d] = CacheOf(log, doc[d])
    BY DEF Derived
  <2> QED
    BY <1>1, <2>1, <2>2, CacheExtends DEF HeldOK
<1> QED
  BY <1>1 DEF Projected, Derived

\* An entry on top of what d holds.
LEMMA Minted ==
    ASSUME HeldOK, NEW d \in Devices, NEW live, NEW entry \in Entry, entry.past = doc[d],
           Mint(d, entry, live)
    PROVE  /\ HeldOK' /\ Extends(log, log')
           /\ \A e \in Devices : doc[e] \subseteq doc'[e]
           /\ Len(log') = Len(log) + 1 /\ log'[Len(log')] = entry
           /\ doc'[d] = doc[d] \cup {Len(log')}
<1>1. entry.past \subseteq 1..Len(log)
  BY DEF HeldOK
<1>2. log' = Append(log, entry)
  BY DEF Mint
<1>3. /\ IsLog(log') /\ Extends(log, log')
      /\ Len(log') = Len(log) + 1 /\ log'[Len(log')] = entry
  BY <1>1, <1>2, AppendLog DEF HeldOK
<1>4. Len(log) \in Nat /\ Len(log') \in Nat
  BY <1>3 DEF HeldOK, IsLog
<1>5. 1..Len(log) \subseteq 1..Len(log') /\ Len(log) + 1 \in 1..Len(log')
  BY <1>3, <1>4
<1>6. \A e \in Devices : doc[e] \subseteq 1..Len(log)
  BY DEF HeldOK
<1>7. doc' = [e \in Devices |-> IF e \in Reached(d, live) THEN doc[e] \cup doc[d] \cup {Len(log) + 1}
                                                          ELSE doc[e]]
  BY DEF Mint
<1>8. \A e \in Devices : doc'[e] \subseteq 1..Len(log') /\ doc[e] \subseteq doc'[e]
  BY <1>5, <1>6, <1>7
<1>9. doc' \in [Devices -> SUBSET (1..Len(log'))]
  BY <1>7, <1>8
<1>10. d \in Reached(d, live)
  BY DEF Reached
<1> QED
  BY <1>3, <1>7, <1>8, <1>9, <1>10 DEF HeldOK

GrantEntry(d, t) ==
    [kind |-> "grant", target |-> t, signer |-> d, bound |-> t \in peerIds[d], past |-> doc[d]]
RevokeEntry(d, t) ==
    [kind |-> "revoke", target |-> t, signer |-> d, bound |-> FALSE, past |-> doc[d]]

LEMMA EntryTypes ==
    ASSUME HeldOK, NEW d \in Devices, NEW t \in Devices
    PROVE  /\ GrantEntry(d, t) \in Entry /\ GrantEntry(d, t).past = doc[d]
           /\ RevokeEntry(d, t) \in Entry /\ RevokeEntry(d, t).past = doc[d]
<1>1. doc[d] \in SUBSET Nat
  BY DEF HeldOK
<1> QED
  BY <1>1 DEF GrantEntry, RevokeEntry, Entry

\* A document only grows, and its cache with it.
Grows ==
    /\ HeldOK' /\ Extends(log, log') /\ Derived'
    /\ \A e \in Devices : doc[e] \subseteq doc'[e]

LEMMA SyncGrows ==
    ASSUME IInv, NEW d \in Devices, NEW e \in Devices, Sync(d, e)
    PROVE  Grows /\ RowsOK'
<1>1. log' = log /\ doc' = [doc EXCEPT ![d] = @ \cup doc[e]]
  BY DEF Sync
<1>2. HeldOK' /\ \A x \in Devices : doc[x] \subseteq doc'[x]
  BY <1>1 DEF IInv, HeldOK
<1>3. Extends(log, log')
  BY <1>1, ExtendsItself DEF IInv, HeldOK
<1>4. Derived'
  BY <1>2, <1>3, ProjectedDerives DEF IInv, HeldOK, Sync
<1>5. RowsOK'
  BY DEF IInv, RowsOK, Sync, Unstamped
<1> QED
  BY <1>2, <1>3, <1>4, <1>5 DEF Grows

LEMMA MintGrows ==
    ASSUME IInv, NEW d \in Devices, NEW live, NEW entry \in Entry, entry.past = doc[d],
           Mint(d, entry, live)
    PROVE  Grows
<1>1. HeldOK' /\ Extends(log, log') /\ \A e \in Devices : doc[e] \subseteq doc'[e]
  BY Minted DEF IInv
<1>2. Derived'
  BY <1>1, ProjectedDerives DEF IInv, HeldOK, Mint
<1> QED
  BY <1>1, <1>2 DEF Grows

LEMMA ApproveGrows ==
    ASSUME IInv, NEW d \in Devices, NEW t \in Devices, NEW makeAdmin \in BOOLEAN,
           NEW live \in Connected, Approve(d, t, makeAdmin, live)
    PROVE  Grows /\ RowsOK'
<1>1. CASE makeAdmin
  <2>1. Mint(d, GrantEntry(d, t), live)
    BY <1>1 DEF Approve, GrantEntry
  <2>2. Grows
    BY <2>1, EntryTypes, MintGrows DEF IInv
  <2>3. RowsOK'
    BY <1>1 DEF IInv, RowsOK, Approve, Unstamped
  <2> QED
    BY <2>2, <2>3
<1>2. CASE ~makeAdmin
  <2>1. UNCHANGED <<log, doc, cache, revokedAt, peerIds>>
    BY <1>2 DEF Approve
  <2>2. Grows
    BY <2>1, ExtendsItself DEF IInv, Grows, HeldOK, Derived
  <2>3. RowsOK'
    BY <2>1 DEF IInv, RowsOK, Approve
  <2> QED
    BY <2>2, <2>3
<1> QED
  BY <1>1, <1>2

LEMMA RevokeMints ==
    ASSUME NEW d, NEW t, NEW live, Revoke(d, t, live)
    PROVE  Mint(d, RevokeEntry(d, t), live)
  BY DEF Revoke, RevokeAs, RevokeEntry

LEMMA RevokeGrows ==
    ASSUME IInv, NEW d \in Devices, NEW t \in Devices, NEW live \in Connected,
           Revoke(d, t, live)
    PROVE  Grows /\ RowsOK'
<1>1. Grows
  BY RevokeMints, EntryTypes, MintGrows DEF IInv
<1>2. RowsOK'
  BY DEF IInv, RowsOK, Revoke, RevokeAs, Unstamped
<1> QED
  BY <1>1, <1>2

LEMMA StepGrows ==
    ASSUME IInv, [Next]_vars
    PROVE  IInv' /\ Grows
<1>1. CASE UNCHANGED vars
  BY <1>1, ExtendsItself DEF IInv, Grows, HeldOK, Derived, RowsOK, vars
<1>2. CASE Next
  <2>1. Grows /\ RowsOK'
    BY <1>2, SyncGrows, ApproveGrows, RevokeGrows DEF Next
  <2> QED
    BY <2>1 DEF IInv, Grows
<1> QED
  BY <1>1, <1>2

\* In an empty document the founder is alone.
LEMMA InitDerived ==
    ASSUME Init
    PROVE  IInv
<1> DEFINE none == [t \in Devices |-> Voters(<<>>, {}, t)]
<1>1. none = [t \in Devices |-> {}]
  BY DEF Voters
<1>2. Survivors({Founder}, [t \in Devices |-> {}]) = {Founder}
  <2>1. Cardinality({}) = 0 /\ Cardinality({Founder}) = 1
    BY FS_EmptySet, FS_Singleton
  <2>2. ~Outvoted(Founder, {Founder}, [t \in Devices |-> {}])
    BY <2>1, DevicesAssumption DEF Outvoted, QuorumThreshold
  <2>3. Settled({Founder}, [t \in Devices |-> {}])
    BY <2>2 DEF Settled
  <2> QED
    BY <2>3 DEF Survivors
<1>3. ASSUME NEW at, NEW v
      PROVE  StateOver(<<>>, {}, at, v).granted = {Founder}
  <2>1. Counted(<<>>, {}, at, v) = {}
    BY DEF Counted
  <2>2. Grants(<<>>, {}, at) = {} /\ Votes(<<>>, {}, {}) = {}
    BY DEF Grants, Votes
  <2>3. {<<>>[c].target : c \in {}} = {}
    OBVIOUS
  <2> QED
    BY <1>1, <1>2, <2>1, <2>2, <2>3 DEF StateOver
<1>4. CurrentState(<<>>, {}).admins = {Founder} /\ CurrentState(<<>>, {}).revoked = {}
  BY <1>3, CurrentIs DEF Now, Applied
<1>5. CacheOf(<<>>, {}) = [t \in Devices |-> IF t = Founder THEN "admin" ELSE "none"]
  BY <1>4 DEF CacheOf
<1>6. Derived
  BY <1>5 DEF Init, Derived
<1>7. IsLog(<<>>)
  BY DEF IsLog
<1>8. HeldOK
  BY <1>7 DEF Init, HeldOK
<1>9. RowsOK
  BY DevicesAssumption, LogAssumption DEF Init, RowsOK
<1> QED
  BY <1>6, <1>8, <1>9 DEF IInv

LEMMA Invariance == Spec => []IInv
<1>1. IInv /\ [Next]_vars => IInv'
  BY StepGrows
<1> QED
  BY <1>1, InitDerived, PTL DEF Spec

LEMMA IInvTyped ==
    ASSUME IInv
    PROVE  TypeOK
<1>1. \A c \in Changes : log[c] \in [kind : {"grant", "revoke"}, target : Devices,
                                      signer : Devices, bound : BOOLEAN, past : SUBSET (1..c - 1)]
  <2> TAKE c \in Changes
  <2>1. log[c] \in Entry /\ log[c].past \subseteq 1..c - 1
    BY Fields DEF Changes, IInv, HeldOK, IsLog
  <2> QED
    BY <2>1 DEF Entry
<1>2. cache \in [Devices -> [Devices -> {"none", "admin", "revoked"}]]
  BY CacheType DEF IInv, Derived
<1> QED
  BY <1>1, <1>2 DEF IInv, HeldOK, RowsOK, TypeOK, Changes

\* The log, the documents and what is derived from them keep their types.
THEOREM TypeCorrect == Spec => []TypeOK
  BY Invariance, IInvTyped, PTL

\* Wherever and in whatever order the entries came in, a device's admins and
\* revoked devices are those its document says, so that two devices with the
\* same entries agree (projector.js upsertCampAuthorityLogEntity).
THEOREM SameEntries == Spec => []SameEntriesSameCache
<1>1. IInv => SameEntriesSameCache
  BY DEF IInv, RowsOK, Derived, SameEntriesSameCache
<1> QED
  BY <1>1, Invariance, PTL

-----------------------------------------------------------------------------
(* What a step may do to an admin                                          *)

\* A device whose document gains removals only gains no admin.
LEMMA RemovalsReadmitNobody ==
    ASSUME IInv, Grows, NEW d \in Devices, NEW t \in Devices,
           \A c \in doc'[d] \ doc[d] : log'[c].kind = "revoke", cache[d][t] # "admin"
    PROVE  cache'[d][t] # "admin"
<1>1. cache[d] = CacheOf(log', doc[d])
  <2>1. doc[d] \in SUBSET (1..Len(log))
    BY DEF IInv, HeldOK
  <2>2. cache[d] = CacheOf(log, doc[d])
    BY DEF IInv, Derived
  <2> QED
    BY <2>1, <2>2, CacheExtends DEF IInv, HeldOK, Grows
<1>2. cache'[d] = CacheOf(log', doc'[d])
  BY DEF Grows, Derived
<1>3. OnlyRemovals(log', doc[d], doc'[d])
  BY DEF OnlyRemovals, Grows, HeldOK
<1>4. CurrentState(log', doc'[d]).admins \subseteq CurrentState(log', doc[d]).admins
  BY <1>3, RemovalsAdmitNobody DEF Grows, HeldOK
<1> QED
  BY <1>1, <1>2, <1>4, CacheType

LEMMA StepReadmits ==
    ASSUME IInv, Grows, NEW d \in Devices, NEW t \in Devices,
           cache[d][t] = "revoked", cache'[d][t] = "admin"
    PROVE  \E c \in doc'[d] \ doc[d] : log'[c].kind = "grant"
<1>1. \A c \in doc'[d] : log'[c].kind \in {"grant", "revoke"}
  BY Fields DEF Grows, HeldOK
<1> SUFFICES ASSUME ~\E c \in doc'[d] \ doc[d] : log'[c].kind = "grant" PROVE FALSE
  OBVIOUS
<1>2. \A c \in doc'[d] \ doc[d] : log'[c].kind = "revoke"
  BY <1>1
<1> QED
  BY <1>2, RemovalsReadmitNobody

\* No removal makes an admin of anybody, whatever order the documents meet in:
\* to readmit a device takes a grant that was not there (authorityReplay.js
\* stateAt).
THEOREM GrantsReadmit == Spec => OnlyGrantsReadmit
<1>1. IInv /\ [Next]_vars =>
        [\A d, t \in Devices : cache[d][t] = "revoked" /\ cache'[d][t] = "admin" =>
             \E c \in doc'[d] \ doc[d] : log'[c].kind = "grant"]_vars
  BY StepGrows, StepReadmits
<1> QED
  BY <1>1, Invariance, PTL DEF Spec, OnlyGrantsReadmit

LEMMA StampsFollow ==
    ASSUME IInv, NoStampOnAdmin, [Next]_vars
    PROVE  NoStampOnAdmin'
<1> SUFFICES ASSUME NEW e \in Devices, NEW t \in revokedAt'[e] PROVE cache'[e][t] # "admin"
  BY DEF NoStampOnAdmin, Admins
<1>1. \A x \in Devices : x \in revokedAt[e] => cache[e][x] # "admin"
  BY DEF NoStampOnAdmin, Admins
<1>2. revokedAt[e] \subseteq Devices
  BY DEF IInv, RowsOK
<1>3. CASE UNCHANGED <<cache, revokedAt>>
  BY <1>1, <1>2, <1>3
<1>4. CASE t \in Unstamped(e)
  BY <1>4 DEF Unstamped
<1>5. ASSUME NEW d \in Devices, NEW x \in Devices, Sync(d, x)
      PROVE  cache'[e][t] # "admin"
  <2>1. CASE e = d
    BY <1>4, <1>5, <2>1 DEF Sync, IInv, RowsOK
  <2>2. CASE e # d
    <3>1. revokedAt'[e] = revokedAt[e] /\ doc'[e] = doc[e]
      BY <1>5, <2>2 DEF Sync, IInv, RowsOK, HeldOK
    <3>2. cache'[e] = cache[e]
      BY <1>5, <3>1 DEF Sync, Projected
    <3> QED
      BY <1>1, <1>2, <3>1, <3>2
  <2> QED
    BY <2>1, <2>2
<1>6. ASSUME NEW d \in Devices, NEW x \in Devices, NEW makeAdmin \in BOOLEAN,
             NEW live \in Connected, Approve(d, x, makeAdmin, live)
      PROVE  cache'[e][t] # "admin"
  BY <1>3, <1>4, <1>6 DEF Approve
<1>7. ASSUME NEW d \in Devices, NEW x \in Devices, NEW live \in Connected, Revoke(d, x, live)
      PROVE  cache'[e][t] # "admin"
  <2> DEFINE decided == cache[d][x] = "admin" => cache'[d][x] = "revoked"
  <2>1. revokedAt' = [a \in Devices |-> Unstamped(a) \cup {y \in {x} : a = d /\ decided}]
    BY <1>7 DEF Revoke, RevokeAs
  <2>2. t \in Unstamped(e) \/ (t = x /\ e = d /\ decided)
    BY <2>1
  <2>3. CASE t = x /\ e = d /\ decided /\ cache[d][x] # "admin"
    <3>1. Mint(d, RevokeEntry(d, x), live) /\ RevokeEntry(d, x) \in Entry
          /\ RevokeEntry(d, x).past = doc[d] /\ RevokeEntry(d, x).kind = "revoke"
      BY <1>7, RevokeMints, EntryTypes DEF IInv, RevokeEntry
    <3>2. doc'[d] = doc[d] \cup {Len(log')} /\ log'[Len(log')].kind = "revoke"
      BY <3>1, Minted DEF IInv
    <3> QED
      BY <2>3, <3>2, RemovalsReadmitNobody, StepGrows
  <2> QED
    BY <1>4, <2>2, <2>3
<1> QED
  BY <1>3, <1>5, <1>6, <1>7 DEF Next, vars

\* An admin's row carries no stamp: whoever a removal stamps is no admin on
\* that device, and whoever becomes one loses the stamp (main.js revokeDevice,
\* projector.js clearStaleRevocation).
THEOREM StampsSpareAdmins == Spec => []NoStampOnAdmin
<1>1. Init => NoStampOnAdmin
  BY DEF Init, NoStampOnAdmin
<1>2. IInv /\ NoStampOnAdmin /\ [Next]_vars => NoStampOnAdmin'
  BY StampsFollow
<1> QED
  BY <1>1, <1>2, Invariance, PTL DEF Spec

LEMMA VoteDecides ==
    ASSUME IInv, [Next]_vars, NEW d \in Devices, NEW t \in Devices, Len(log') > Len(log),
           log'[Len(log')].kind = "revoke", log'[Len(log')].signer = d,
           log'[Len(log')].target = t,
           cache[d][t] = "admin", cache'[d][t] # "admin"
    PROVE  Cardinality(CurrentState(log', doc'[d]).voters[t])
               >= QuorumThreshold(Cardinality(Admins(d)))
<1>1. Len(log) \in Nat /\ log' # log
  BY DEF IInv, HeldOK, IsLog
<1>2. ASSUME NEW x \in Devices, NEW y \in Devices, NEW makeAdmin \in BOOLEAN,
             NEW live \in Connected, Approve(x, y, makeAdmin, live)
      PROVE  FALSE
  <2>1. Mint(x, GrantEntry(x, y), live)
    BY <1>1, <1>2 DEF Approve, GrantEntry
  <2>2. log'[Len(log')].kind = "grant"
    BY <2>1, Minted, EntryTypes DEF IInv, GrantEntry
  <2> QED
    BY <2>2
<1>3. PICK x \in Devices, y \in Devices, live \in Connected : Revoke(x, y, live)
  BY <1>1, <1>2 DEF Next, Sync, vars
<1>4. /\ doc'[x] = doc[x] \cup {Len(log')} /\ log'[Len(log')] = RevokeEntry(x, y)
  BY <1>3, RevokeMints, EntryTypes, Minted DEF IInv
<1>5. x = d /\ y = t
  BY <1>4 DEF RevokeEntry
<1> DEFINE n == Len(log')
           P == doc[d]
<1>6. Grows
  BY StepGrows
<1>7. cache[d] = CacheOf(log', P)
  <2>1. P \in SUBSET (1..Len(log))
    BY DEF IInv, HeldOK
  <2>2. cache[d] = CacheOf(log, P)
    BY DEF IInv, Derived
  <2> QED
    BY <1>6, <2>1, <2>2, CacheExtends DEF IInv, HeldOK, Grows
<1>8. doc'[d] = P \cup {n}
  BY <1>4, <1>5
<1>9. cache'[d] = CacheOf(log', P \cup {n})
  BY <1>6, <1>8 DEF Grows, Derived
<1>10. OnlyRemovals(log', P, P \cup {n})
  <2>1. P \cup {n} \subseteq 1..Len(log')
    BY <1>6, <1>8 DEF Grows, HeldOK
  <2> QED
    BY <2>1 DEF OnlyRemovals
<1>11. IsLog(log')
  BY <1>6 DEF Grows, HeldOK
<1> HIDE DEF n, P
<1>12. Outvoted(t, CurrentState(log', P).admins, CurrentState(log', P \cup {n}).voters)
  <2>1. t \in CurrentState(log', P).admins /\ t \notin CurrentState(log', P \cup {n}).admins
    BY <1>7, <1>9, CacheType
  <2>2. log'[n].target = t
    BY DEF n
  <2> QED
    BY <1>10, <1>11, <2>1, <2>2, OneVoteRemoves
<1>13. Admins(d) = CurrentState(log', P).admins
  <2>1. CurrentState(log', P).admins \subseteq Devices
    BY <1>10, <1>11, NowIs, CurrentIs DEF OnlyRemovals, Survivors
  <2> QED
    BY <1>7, <2>1, CacheType DEF Admins
<1> QED
  BY <1>8, <1>12, <1>13 DEF Outvoted

\* A vote takes an admin away only when, with it, a majority of the other
\* admins the voting device knows have voted (authorityReplay.js stateAt,
\* main.js revokeDevice).
THEOREM MajorityDecides == Spec => VoteNeedsMajority
<1>1. IInv /\ [Next]_vars =>
        [\A d, t \in Devices :
           /\ Len(log') > Len(log)
           /\ log'[Len(log')].kind = "revoke" /\ log'[Len(log')].signer = d
           /\ log'[Len(log')].target = t
           /\ cache[d][t] = "admin" /\ cache'[d][t] # "admin"
           => Cardinality(CurrentState(log', doc'[d]).voters[t])
                  >= QuorumThreshold(Cardinality(Admins(d)))]_vars
  BY VoteDecides
<1> QED
  BY <1>1, Invariance, PTL DEF Spec, VoteNeedsMajority

-----------------------------------------------------------------------------
(* When every grant carries its target's peer id, whoever is an admin can  *)
(* be verified: the passes go up the ladder of grants, one at least at     *)
(* each, and are as many as its rungs.  Then signatures keep nobody's      *)
(* entry from counting, and the states are those of causal standing alone. *)

\* The states if every signature could be verified.
Standings(l) == StatesAt(l, Devices)

Stands(l, c) == l[c].signer \in Standings(l)[c].granted

Closed(l, P) == P \subseteq 1..Len(l) /\ \A c \in P : l[c].past \subseteq P

\* A log written on such documents, with every peer id.
Causal(l) == IsLog(l) /\ \A c \in 1..Len(l) : Closed(l, l[c].past)
Introduced(l) ==
    \A c \in 1..Len(l) : l[c].signer # l[c].target /\ (l[c].kind = "grant" => l[c].bound)

GrantOf(l, g, s) == l[g].kind = "grant" /\ l[g].target = s /\ Stands(l, g)

LEMMA StandingIs ==
    ASSUME NEW l, IsLog(l), NEW c \in 1..Len(l), NEW v
    PROVE  StatesAt(l, v)[c] = StateOver(l, l[c].past, StatesAt(l, v), v)
<1> DEFINE f == StatesAt(l, v)
<1>1. f = [n \in 1..Len(l) |-> StateOver(l, l[n].past, f, v)]
  BY StatesAre
<1> HIDE DEF f
<1>2. f[c] = StateOver(l, l[c].past, f, v)
  BY <1>1
<1> QED
  BY <1>2 DEF f

\* Whoever is an admin is the founder or was made one.
LEMMA WasGranted ==
    ASSUME NEW l, NEW P, NEW at, NEW v, NEW s \in StateOver(l, P, at, v).granted, s # Founder
    PROVE  \E g \in P : l[g].kind = "grant" /\ l[g].target = s /\ l[g].signer \in at[g].granted
<1> DEFINE C == Counted(l, P, at, v)
           G == Grants(l, C, at)
           S == {Founder} \cup {l[c].target : c \in G}
           w == [t \in Devices |-> Voters(l, Votes(l, C, G), t)]
<1>1. StateOver(l, P, at, v).granted = Survivors(S, w)
  BY DEF StateOver
<1>2. s \in S
  BY <1>1 DEF Survivors
<1>3. PICK g \in G : l[g].target = s
  BY <1>2
<1>4. g \in P /\ l[g].kind = "grant" /\ l[g].signer \in at[g].granted
  BY <1>3 DEF Grants, Counted
<1> QED
  BY <1>3, <1>4

LEMMA StanderWasGranted ==
    ASSUME NEW l, IsLog(l), NEW c \in 1..Len(l), Stands(l, c), l[c].signer # Founder
    PROVE  \E g \in l[c].past : GrantOf(l, g, l[c].signer)
<1>1. l[c].signer \in StateOver(l, l[c].past, Standings(l), Devices).granted
  BY StandingIs DEF Stands, Standings
<1> QED
  BY <1>1, WasGranted DEF GrantOf, Stands

\* The verified devices matter only to entries that stand.
LEMMA VerifiedSame ==
    ASSUME NEW l, NEW P, NEW at, NEW v, NEW w,
           \A c \in P : l[c].signer \in at[c].granted => (l[c].signer \in v <=> l[c].signer \in w)
    PROVE  StateOver(l, P, at, v) = StateOver(l, P, at, w)
<1>1. Counted(l, P, at, v) = Counted(l, P, at, w)
  BY DEF Counted
<1> QED
  BY <1>1 DEF StateOver

LEMMA SignersAreDevices ==
    ASSUME NEW l, IsLog(l), NEW P \in SUBSET (1..Len(l))
    PROVE  \A c \in P : l[c].signer \in Devices /\ l[c].target \in Devices
  BY Fields

\* If the signers of the entries that stand can be verified, the states are
\* the standings.
LEMMA StandingsReached ==
    ASSUME NEW l, IsLog(l), NEW P, Closed(l, P), NEW K \in SUBSET Devices,
           \A c \in P : Stands(l, c) => l[c].signer \in K,
           NEW n \in P
    PROVE  StatesAt(l, K)[n] = Standings(l)[n]
<1> DEFINE f == StatesAt(l, K)
           g == Standings(l)
           B == {k \in P : f[k] # g[k]}
<1>0. P \in SUBSET (1..Len(l)) /\ P \subseteq Nat
  BY DEF Closed, IsLog
<1> SUFFICES B = {}
  OBVIOUS
<1> SUFFICES ASSUME B # {} PROVE FALSE
  OBVIOUS
<1>1. PICK k \in B : \A y \in B : k <= y
  BY <1>0, LeastExists
<1>2. k \in P /\ k \in 1..Len(l) /\ f[k] # g[k]
  BY <1>0
<1>3. l[k].past \subseteq 1..k - 1 /\ l[k].past \subseteq P
  BY <1>2 DEF IsLog, Closed
<1>4. \A c \in l[k].past : f[c] = g[c]
  BY <1>0, <1>1, <1>3
<1>5. f[k] = StateOver(l, l[k].past, f, K) /\ g[k] = StateOver(l, l[k].past, g, Devices)
  BY <1>2, StandingIs DEF Standings
<1> HIDE DEF f
<1>6. StateOver(l, l[k].past, f, K) = StateOver(l, l[k].past, g, K)
  BY <1>4, StateOverSame DEF Agree
<1>7. \A c \in l[k].past : l[c].signer \in g[c].granted => l[c].signer \in K /\ l[c].signer \in Devices
  BY <1>0, <1>3, SignersAreDevices DEF Stands
<1> HIDE DEF g
<1>8. StateOver(l, l[k].past, g, K) = StateOver(l, l[k].past, g, Devices)
  BY <1>7, VerifiedSame
<1> QED
  BY <1>2, <1>5, <1>6, <1>8

\* The passes, one after the other.
Passed(pass, n, f) == f = [k \in 0..n |-> IF k = 0 THEN {Founder} ELSE pass[f[k - 1]]]

LEMMA PassedUpto ==
    ASSUME NEW pass, NEW n \in Nat
    PROVE  \E f : Passed(pass, n, f)
<1> DEFINE B == {k \in Nat : ~\E f : Passed(pass, k, f)}
<1> SUFFICES B = {}
  OBVIOUS
<1> SUFFICES ASSUME B # {} PROVE FALSE
  OBVIOUS
<1>1. PICK k \in B : \A y \in B : k <= y
  BY LeastExists
<1>2. k \in Nat /\ ~\E f : Passed(pass, k, f)
  OBVIOUS
<1> HIDE DEF B
<1>3. CASE k = 0
  <2> DEFINE f == [j \in 0..0 |-> {Founder}]
  <2>1. Passed(pass, 0, f)
    BY DEF Passed
  <2> QED
    BY <1>2, <1>3, <2>1
<1>4. CASE k # 0
  <2>1. k - 1 \in Nat /\ k - 1 < k
    BY <1>2, <1>4
  <2>2. k - 1 \notin B
    BY <1>1, <1>2, <2>1
  <2>3. PICK f : Passed(pass, k - 1, f)
    BY <2>1, <2>2 DEF B
  <2> DEFINE g == [j \in 0..k |-> IF j = 0 THEN {Founder} ELSE pass[f[j - 1]]]
  <2>4. ASSUME NEW j \in 0..k - 1
        PROVE  f[j] = g[j]
    <3>1. f[j] = IF j = 0 THEN {Founder} ELSE pass[f[j - 1]]
      BY <2>3 DEF Passed
    <3>2. j \in 0..k
      BY <1>2
    <3> QED
      BY <3>1, <3>2
  <2>5. ASSUME NEW j \in 0..k
        PROVE  g[j] = IF j = 0 THEN {Founder} ELSE pass[g[j - 1]]
    <3>1. g[j] = IF j = 0 THEN {Founder} ELSE pass[f[j - 1]]
      OBVIOUS
    <3>2. j # 0 => j - 1 \in 0..k - 1
      BY <1>2
    <3>3. j # 0 => f[j - 1] = g[j - 1]
      BY <2>4, <3>2
    <3> QED
      BY <3>1, <3>3
  <2>6. g = [j \in 0..k |-> g[j]]
    OBVIOUS
  <2> HIDE DEF g
  <2>7. Passed(pass, k, g)
    BY <2>5, <2>6 DEF Passed
  <2> QED
    BY <2>7, <1>2
<1> QED
  BY <1>3, <1>4

LEMMA RepeatedIs ==
    ASSUME NEW pass, NEW n \in Nat
    PROVE  \E f : Passed(pass, n, f) /\ Repeated(pass, n) = f[n]
<1> DEFINE Body(f) == f = [k \in 0..n |-> IF k = 0 THEN {Founder} ELSE pass[f[k - 1]]]
           h == CHOOSE f : Body(f)
<1>1. PICK g : Passed(pass, n, g)
  BY PassedUpto
<1>2. Body(h)
  BY <1>1 DEF Passed
<1>3. Repeated(pass, n) = h[n]
  BY DEF Repeated
<1> HIDE DEF h
<1> QED
  BY <1>2, <1>3 DEF Passed

\* The grants below g on the ladder.
Below(l, g) == {h \in l[g].past : l[h].kind = "grant" /\ l[h].target # Founder}

LEMMA BelowShrinks ==
    ASSUME NEW l, Causal(l), NEW g \in 1..Len(l), NEW h \in Below(l, g)
    PROVE  /\ Cardinality(Below(l, g)) \in Nat /\ Cardinality(Below(l, h)) \in Nat
           /\ Cardinality(Below(l, h)) < Cardinality(Below(l, g))
<1>1. h \in l[g].past /\ l[g].past \subseteq 1..Len(l) /\ h \in 1..Len(l)
  BY DEF Below, Causal, Closed
<1>2. l[h].past \subseteq l[g].past /\ l[h].past \subseteq 1..h - 1
  BY <1>1 DEF Causal, Closed, IsLog
<1>3. h \notin l[h].past
  BY <1>1, <1>2
<1>4. Below(l, h) \subseteq Below(l, g) /\ h \notin Below(l, h)
  BY <1>2, <1>3 DEF Below
<1>5. IsFiniteSet(Below(l, g))
  <2>1. IsFiniteSet(1..Len(l))
    BY FS_Interval DEF Causal, IsLog
  <2>2. Below(l, g) \subseteq 1..Len(l)
    BY <1>1 DEF Below
  <2> QED
    BY <2>1, <2>2, FS_Subset
<1>6. IsFiniteSet(Below(l, h))
  BY <1>4, <1>5, FS_Subset
<1>7. Cardinality(Below(l, h)) <= Cardinality(Below(l, g))
      /\ (Cardinality(Below(l, h)) = Cardinality(Below(l, g)) => Below(l, h) = Below(l, g))
  BY <1>4, <1>5, FS_Subset
<1> QED
  BY <1>4, <1>5, <1>6, <1>7, FS_CardinalityType

\* f[j] knows whoever was granted with fewer than j grants below.
Climbs(l, P, known, j) ==
    \A g \in P : /\ GrantOf(l, g, l[g].target) /\ l[g].target # Founder
                 /\ Cardinality(Below(l, g)) < j
                 => l[g].target \in known

\* One pass takes the ladder one rung up.
LEMMA PassClimbs ==
    ASSUME NEW l, Causal(l), Introduced(l), NEW P, Closed(l, P),
           NEW K \in SUBSET Devices, Founder \in K, NEW j \in Nat, Climbs(l, P, K, j)
    PROVE  Climbs(l, P, Bound(l, P, K), j + 1)
<1> SUFFICES ASSUME NEW g \in P, GrantOf(l, g, l[g].target), l[g].target # Founder,
                    Cardinality(Below(l, g)) < j + 1
             PROVE  l[g].target \in Bound(l, P, K)
  BY DEF Climbs
<1> DEFINE Q == l[g].past \cup {g}
<1>0. IsLog(l) /\ g \in 1..Len(l) /\ P \subseteq 1..Len(l)
  BY DEF Causal, Closed
<1>1. Q \subseteq P /\ Closed(l, Q)
  <2>1. Closed(l, l[g].past) /\ l[g].past \subseteq P
    BY <1>0 DEF Causal, Closed
  <2> QED
    BY <1>0, <2>1 DEF Closed
<1>2. ASSUME NEW c \in Q, Stands(l, c)
      PROVE  l[c].signer \in K
  <2>1. CASE l[c].signer = Founder
    BY <2>1
  <2>2. CASE l[c].signer # Founder
    <3>1. c \in 1..Len(l) /\ l[c].past \subseteq l[g].past
      BY <1>0, <1>1 DEF Causal, Closed
    <3>2. PICK h \in l[c].past : GrantOf(l, h, l[c].signer)
      BY <1>0, <1>2, <2>2, <3>1, StanderWasGranted
    <3>3. h \in Below(l, g) /\ h \in P
      BY <1>1, <2>2, <3>1, <3>2 DEF Below, GrantOf
    <3>4. Cardinality(Below(l, h)) < j
      BY <1>0, <3>3, BelowShrinks
    <3>5. GrantOf(l, h, l[h].target) /\ l[h].target = l[c].signer
      BY <3>2 DEF GrantOf
    <3> QED
      BY <2>2, <3>3, <3>4, <3>5 DEF Climbs
  <2> QED
    BY <2>1, <2>2
<1>3. StatesAt(l, K)[g] = Standings(l)[g]
  BY <1>0, <1>1, <1>2, StandingsReached
<1>4. Stands(l, g) /\ l[g].kind = "grant"
  BY DEF GrantOf
<1>5. l[g].signer \in K /\ l[g].signer \in StatesAt(l, K)[g].granted
  BY <1>2, <1>3, <1>4 DEF Stands
<1>6. l[g].bound /\ l[g].target # l[g].signer
  BY <1>0, <1>4 DEF Introduced
<1> QED
  BY <1>4, <1>5, <1>6 DEF Bound

LEMMA BoundType ==
    ASSUME NEW l, IsLog(l), NEW P \in SUBSET (1..Len(l)), NEW K
    PROVE  Bound(l, P, K) \in SUBSET Devices /\ Founder \in Bound(l, P, K)
<1>1. \A c \in P : l[c].target \in Devices
  BY SignersAreDevices
<1> QED
  BY <1>1, DevicesAssumption DEF Bound

\* After the passes everybody whose entries stand can be verified.
LEMMA LadderClimbed ==
    ASSUME NEW l, Causal(l), Introduced(l), NEW P, Closed(l, P)
    PROVE  /\ Verifiable(l, P) \in SUBSET Devices
           /\ \A c \in P : Stands(l, c) => l[c].signer \in Verifiable(l, P)
<1> DEFINE pass == [known \in SUBSET Devices |-> Bound(l, P, known)]
           A == {c \in P : /\ l[c].kind = "grant" /\ l[c].bound
                           /\ l[c].target \notin {Founder, l[c].signer}}
           n == Passes(l, P)
<1>0. IsLog(l) /\ P \in SUBSET (1..Len(l)) /\ Len(l) \in Nat
  BY DEF Causal, Closed, IsLog
<1>1. IsFiniteSet(A) /\ Cardinality(A) \in Nat
  <2>1. IsFiniteSet(1..Len(l))
    BY <1>0, FS_Interval
  <2>2. A \subseteq 1..Len(l)
    BY <1>0
  <2> HIDE DEF A
  <2> QED
    BY <2>1, <2>2, FS_Subset, FS_CardinalityType
<1>2. n = 1 + Cardinality(A) /\ n \in Nat
  BY <1>1 DEF Passes
<1>3. PICK f : Passed(pass, n, f) /\ Verifiable(l, P) = f[n]
  BY <1>2, RepeatedIs DEF Verifiable
<1>4. \A K \in SUBSET Devices : pass[K] = Bound(l, P, K)
  OBVIOUS
<1> HIDE DEF pass, n, A
<1> DEFINE Good(j) == /\ f[j] \in SUBSET Devices /\ Founder \in f[j]
                      /\ Climbs(l, P, f[j], j)
           B == {j \in Nat : j <= n /\ ~Good(j)}
<1>5. B = {}
  <2> SUFFICES ASSUME B # {} PROVE FALSE
    OBVIOUS
  <2>1. PICK j \in B : \A y \in B : j <= y
    BY LeastExists
  <2>2. j \in 0..n /\ j \in Nat /\ ~Good(j)
    BY <1>2
  <2>3. f[j] = IF j = 0 THEN {Founder} ELSE pass[f[j - 1]]
    BY <1>3, <2>2 DEF Passed
  <2>4. CASE j = 0
    <3>1. \A g \in P : Cardinality(Below(l, g)) \in Nat
      <4> TAKE g \in P
      <4>1. IsFiniteSet(1..Len(l))
        BY <1>0, FS_Interval
      <4>2. Below(l, g) \subseteq 1..Len(l)
        BY <1>0 DEF Below, Closed
      <4> QED
        BY <4>1, <4>2, FS_Subset, FS_CardinalityType
    <3>2. Climbs(l, P, f[0], 0)
      BY <3>1 DEF Climbs
    <3> QED
      BY <2>2, <2>3, <2>4, <3>2, DevicesAssumption
  <2>5. CASE j # 0
    <3>1. j - 1 \in Nat /\ j - 1 <= n /\ j - 1 < j
      BY <1>2, <2>2, <2>5
    <3>2. Good(j - 1)
      BY <2>1, <3>1
    <3>3. f[j] = Bound(l, P, f[j - 1])
      BY <1>4, <2>3, <2>5, <3>2
    <3>4. Climbs(l, P, Bound(l, P, f[j - 1]), (j - 1) + 1)
      BY <3>1, <3>2, PassClimbs
    <3>5. (j - 1) + 1 = j
      BY <3>1
    <3>6. f[j] \in SUBSET Devices /\ Founder \in f[j]
      BY <1>0, <3>3, BoundType
    <3> QED
      BY <2>2, <3>3, <3>4, <3>5, <3>6
  <2> QED
    BY <2>4, <2>5
<1>6. Good(n)
  BY <1>2, <1>5
<1>7. ASSUME NEW c \in P, Stands(l, c)
      PROVE  l[c].signer \in f[n]
  <2>1. CASE l[c].signer = Founder
    BY <1>6, <2>1
  <2>2. CASE l[c].signer # Founder
    <3>1. c \in 1..Len(l) /\ l[c].past \subseteq P
      BY DEF Closed
    <3>2. PICK g \in l[c].past : GrantOf(l, g, l[c].signer)
      BY <1>0, <1>7, <2>2, <3>1, StanderWasGranted
    <3>3. g \in P /\ l[g].target = l[c].signer /\ GrantOf(l, g, l[g].target)
      BY <3>1, <3>2 DEF GrantOf
    <3>4. l[g].past \subseteq P
      BY <3>3 DEF Closed
    <3>5. Below(l, g) \subseteq A
      BY <1>0, <3>4 DEF Below, A, Introduced
    <3>6. Cardinality(Below(l, g)) < n
      BY <1>1, <1>2, <3>5, FS_Subset, FS_CardinalityType
    <3> QED
      BY <1>6, <2>2, <3>3, <3>6 DEF Climbs
  <2> QED
    BY <2>1, <2>2
<1> QED
  BY <1>3, <1>6, <1>7

\* What a document says is then decided by causal standing alone.
LEMMA NowStanding ==
    ASSUME NEW l, Causal(l), Introduced(l), NEW P, Closed(l, P)
    PROVE  /\ Now(l, P) = StateOver(l, P, Standings(l), Devices)
           /\ Applied(l, P) = {c \in P : Stands(l, c)}
<1> DEFINE K == Verifiable(l, P)
           at == StatesAt(l, K)
<1>0. IsLog(l) /\ P \in SUBSET (1..Len(l))
  BY DEF Causal, Closed
<1>1. K \in SUBSET Devices /\ \A c \in P : Stands(l, c) => l[c].signer \in K
  BY LadderClimbed
<1>2. \A c \in P : at[c] = Standings(l)[c]
  BY <1>0, <1>1, StandingsReached
<1>3. Applied(l, P) = {c \in P : l[c].signer \in K /\ l[c].signer \in at[c].granted}
  BY DEF Applied
<1>4. Now(l, P) = StateOver(l, P, at, K)
  BY DEF Now
<1> HIDE DEF K, at
<1>5. StateOver(l, P, at, K) = StateOver(l, P, Standings(l), K)
  BY <1>2, StateOverSame DEF Agree
<1>6. StateOver(l, P, Standings(l), K) = StateOver(l, P, Standings(l), Devices)
  BY <1>0, <1>1, SignersAreDevices, VerifiedSame DEF Stands
<1>7. Applied(l, P) = {c \in P : Stands(l, c)}
  BY <1>1, <1>2, <1>3 DEF Stands
<1> QED
  BY <1>4, <1>5, <1>6, <1>7

\* An entry whose signer has no standing changes nothing.
LEMMA MutedEntry ==
    ASSUME NEW l, Causal(l), Introduced(l), NEW P, Closed(l, P), NEW n, Closed(l, P \cup {n}),
           ~Stands(l, n)
    PROVE  CurrentState(l, P \cup {n}) = CurrentState(l, P)
<1> DEFINE Q == P \cup {n}
<1>1. Counted(l, Q, Standings(l), Devices) = Counted(l, P, Standings(l), Devices)
  BY DEF Counted, Stands
<1>2. StateOver(l, Q, Standings(l), Devices) = StateOver(l, P, Standings(l), Devices)
  BY <1>1 DEF StateOver
<1>3. {c \in Q : Stands(l, c)} = {c \in P : Stands(l, c)}
  OBVIOUS
<1>4. Now(l, Q) = Now(l, P) /\ Applied(l, Q) = Applied(l, P)
  BY <1>2, <1>3, NowStanding
<1> HIDE DEF Q
<1>5. CurrentState(l, Q) = CurrentState(l, P)
  BY <1>4, CurrentIs
<1> QED
  BY <1>5 DEF Q

\* The documents are closed under the past of their changes, and everybody
\* has met everybody.
Rooted == Causal(log) /\ Introduced(log) /\ \A d \in Devices : Closed(log, doc[d])
AllMet == \A d \in Devices : Devices \ {d} \subseteq peerIds[d]

LEMMA ClosedExtends ==
    ASSUME NEW l, NEW m, Extends(l, m), Len(l) \in Nat, Len(m) \in Nat, NEW P, Closed(l, P)
    PROVE  Closed(m, P)
<1>1. 1..Len(l) \subseteq 1..Len(m)
  BY DEF Extends
<1>2. \A c \in P : m[c] = l[c]
  BY DEF Extends, Closed
<1> QED
  BY <1>1, <1>2 DEF Closed

LEMMA MintRooted ==
    ASSUME IInv, Rooted, NEW d \in Devices, NEW live, NEW entry \in Entry, entry.past = doc[d],
           entry.signer # entry.target, entry.kind = "grant" => entry.bound,
           Mint(d, entry, live)
    PROVE  Rooted'
<1> DEFINE n == Len(log')
<1>1. /\ HeldOK' /\ Extends(log, log')
      /\ n = Len(log) + 1 /\ log'[n] = entry
  BY Minted DEF IInv
<1>2. Len(log) \in Nat /\ n \in Nat /\ IsLog(log')
  BY <1>1 DEF IInv, HeldOK, IsLog
<1>3. \A P : Closed(log, P) => Closed(log', P)
  BY <1>1, <1>2, ClosedExtends
<1>4. ASSUME NEW c \in 1..n
      PROVE  Closed(log', log'[c].past) /\ log'[c].signer # log'[c].target
             /\ (log'[c].kind = "grant" => log'[c].bound)
  <2>1. CASE c \in 1..Len(log)
    BY <1>1, <1>3, <2>1 DEF Rooted, Causal, Introduced, Extends
  <2>2. CASE c = n
    BY <1>1, <1>3, <2>2 DEF Rooted
  <2> QED
    BY <1>1, <1>2, <2>1, <2>2
<1>5. ASSUME NEW e \in Devices
      PROVE  Closed(log', doc'[e])
  <2>1. Closed(log', doc[e]) /\ Closed(log', doc[d])
    BY <1>3 DEF Rooted
  <2>2. doc'[e] = doc[e] \/ doc'[e] = doc[e] \cup doc[d] \cup {n}
    BY <1>1 DEF Mint
  <2>3. n \in 1..Len(log') /\ log'[n].past = doc[d]
    BY <1>1, <1>2
  <2> HIDE DEF n
  <2> QED
    BY <2>1, <2>2, <2>3 DEF Closed
<1> QED
  BY <1>2, <1>4, <1>5 DEF Rooted, Causal, Introduced

LEMMA RootedStays ==
    ASSUME IInv, Rooted, AllMet, [Next]_vars
    PROVE  Rooted' /\ AllMet'
<1>1. CASE UNCHANGED vars
  BY <1>1 DEF Rooted, AllMet, vars
<1>2. ASSUME NEW d \in Devices, NEW e \in Devices, Sync(d, e)
      PROVE  Rooted' /\ AllMet'
  <2>1. log' = log /\ doc' = [doc EXCEPT ![d] = @ \cup doc[e]]
    BY <1>2 DEF Sync
  <2>2. \A x \in Devices : doc'[x] = doc[x] \/ doc'[x] = doc[d] \cup doc[e]
    BY <2>1 DEF IInv, HeldOK
  <2>3. Closed(log, doc[d] \cup doc[e])
    BY DEF Rooted, Closed
  <2>4. Rooted'
    BY <2>1, <2>2, <2>3 DEF Rooted
  <2>5. AllMet'
    BY <1>2 DEF Sync, AllMet, IInv, RowsOK
  <2> QED
    BY <2>4, <2>5
<1>3. ASSUME NEW d \in Devices, NEW t \in Devices, NEW makeAdmin \in BOOLEAN,
             NEW live \in Connected, Approve(d, t, makeAdmin, live)
      PROVE  Rooted' /\ AllMet'
  <2>1. AllMet' /\ t # d
    BY <1>3 DEF Approve, AllMet
  <2>2. CASE makeAdmin
    <3>1. Mint(d, GrantEntry(d, t), live)
      BY <1>3, <2>2 DEF Approve, GrantEntry
    <3>2. GrantEntry(d, t) \in Entry /\ GrantEntry(d, t).past = doc[d]
      BY EntryTypes DEF IInv
    <3>3. GrantEntry(d, t).signer # GrantEntry(d, t).target /\ GrantEntry(d, t).bound
      BY <2>1 DEF GrantEntry, AllMet
    <3>4. Rooted'
      BY <3>1, <3>2, <3>3, MintRooted
    <3> QED
      BY <2>1, <3>4
  <2>3. CASE ~makeAdmin
    BY <1>3, <2>1, <2>3 DEF Approve, Rooted
  <2> QED
    BY <2>2, <2>3
<1>4. ASSUME NEW d \in Devices, NEW t \in Devices, NEW live \in Connected, Revoke(d, t, live)
      PROVE  Rooted' /\ AllMet'
  <2>1. AllMet' /\ t # d
    BY <1>4 DEF Revoke, RevokeAs, AllMet
  <2>2. Mint(d, RevokeEntry(d, t), live)
    BY <1>4, RevokeMints
  <2>3. RevokeEntry(d, t) \in Entry /\ RevokeEntry(d, t).past = doc[d]
    BY EntryTypes DEF IInv
  <2>4. RevokeEntry(d, t).signer # RevokeEntry(d, t).target /\ RevokeEntry(d, t).kind # "grant"
    BY <2>1 DEF RevokeEntry
  <2> QED
    BY <2>1, <2>2, <2>3, <2>4, MintRooted
<1> QED
  BY <1>1, <1>2, <1>3, <1>4 DEF Next

LEMMA Mute ==
    ASSUME IInv, Rooted, AllMet, [Next]_vars, NEW d \in Devices, NEW e \in Devices,
           Len(log') > Len(log), log'[Len(log')].signer = d,
           cache[d][d] = "revoked", doc[d] \subseteq doc[e]
    PROVE  cache'[e] = cache[e]
<1> DEFINE n == Len(log')
<1>1. Len(log) \in Nat /\ log' # log
  BY DEF IInv, HeldOK, IsLog
<1>2. Rooted' /\ Grows
  BY RootedStays, StepGrows
<1> DEFINE MintedBy(x, live, entry) ==
              Mint(x, entry, live) /\ entry.past = doc[x] /\ entry.signer = x
<1>3. PICK x \in Devices, live \in Connected, entry \in Entry : MintedBy(x, live, entry)
  <2>1. ASSUME NEW x \in Devices, NEW t \in Devices, NEW makeAdmin \in BOOLEAN,
               NEW live \in Connected, Approve(x, t, makeAdmin, live)
        PROVE  \E entry \in Entry : MintedBy(x, live, entry)
    <3>1. Mint(x, GrantEntry(x, t), live) /\ GrantEntry(x, t).signer = x
      BY <1>1, <2>1 DEF Approve, GrantEntry
    <3> QED
      BY <3>1, EntryTypes DEF IInv
  <2>2. ASSUME NEW x \in Devices, NEW t \in Devices, NEW live \in Connected, Revoke(x, t, live)
        PROVE  \E entry \in Entry : MintedBy(x, live, entry)
    <3>1. Mint(x, RevokeEntry(x, t), live) /\ RevokeEntry(x, t).signer = x
      BY <2>2, RevokeMints DEF RevokeEntry
    <3> QED
      BY <3>1, EntryTypes DEF IInv
  <2> HIDE DEF MintedBy
  <2>3. CASE UNCHANGED vars
    BY <1>1, <2>3 DEF vars
  <2>4. CASE Next
    BY <1>1, <2>1, <2>2, <2>4 DEF Next, Sync
  <2> QED
    BY <2>3, <2>4
<1>4. log'[n] = entry /\ n = Len(log) + 1
  BY <1>3, Minted DEF IInv
<1>5. x = d
  BY <1>3, <1>4
<1>6. doc'[e] = doc[e] \/ doc'[e] = doc[e] \cup {n}
  BY <1>3, <1>4, <1>5 DEF Mint
<1>7. IsLog(log') /\ Extends(log, log') /\ n \in 1..Len(log')
  BY <1>1, <1>2, <1>4 DEF Grows, HeldOK, IsLog
<1>8. \A y \in Devices : cache[y] = CacheOf(log', doc[y])
  <2> TAKE y \in Devices
  <2>1. doc[y] \in SUBSET (1..Len(log)) /\ cache[y] = CacheOf(log, doc[y])
    BY DEF IInv, HeldOK, Derived
  <2> QED
    BY <1>7, <2>1, CacheExtends DEF IInv, HeldOK
<1>9. cache'[e] = CacheOf(log', doc'[e])
  BY <1>2 DEF Grows, Derived
<1>10. Causal(log') /\ Introduced(log') /\ Closed(log', doc'[e])
  BY <1>2 DEF Rooted
<1>11. Closed(log', doc[d]) /\ Closed(log', doc[e])
  <2>1. Len(log') \in Nat
    BY <1>7 DEF IsLog
  <2> QED
    BY <1>1, <1>7, <2>1, ClosedExtends DEF Rooted
<1>12. ~Stands(log', n)
  <2>1. Standings(log')[n] = StateOver(log', log'[n].past, Standings(log'), Devices)
    BY <1>7, StandingIs DEF Standings
  <2>2. Standings(log')[n] = Now(log', doc[d])
    BY <1>3, <1>4, <1>5, <1>10, <1>11, <2>1, NowStanding
  <2>3. d \notin CurrentState(log', doc[d]).admins
    BY <1>8, CacheType
  <2>4. d \notin Now(log', doc[d]).granted
    BY <2>3, CurrentIs
  <2> QED
    BY <2>2, <2>4 DEF Stands
<1> HIDE DEF n
<1>13. CASE doc'[e] = doc[e]
  BY <1>8, <1>9, <1>13
<1>14. CASE doc'[e] = doc[e] \cup {n}
  <2>1. CurrentState(log', doc[e] \cup {n}) = CurrentState(log', doc[e])
    BY <1>10, <1>11, <1>12, <1>14, MutedEntry
  <2>2. CacheOf(log', doc[e] \cup {n}) = CacheOf(log', doc[e])
    BY <2>1 DEF CacheOf
  <2> QED
    BY <1>8, <1>9, <1>14, <2>2
<1> QED
  BY <1>6, <1>13, <1>14

\* What a device that knows itself removed goes on minting changes nothing for
\* anybody who has seen what it has, as long as every grant carries a peer id
\* (authorityReplay.js isValidSignerAt, resolveAuthorityPeerIds).
THEOREM RemovedMintsForNobody ==
    ASSUME PeerIdsKnown = TRUE
    PROVE  Spec => RemovedIsMute
<1>1. Init => Rooted /\ AllMet
  <2> SUFFICES ASSUME Init PROVE Rooted /\ AllMet
    OBVIOUS
  <2>1. IsLog(<<>>)
    BY DEF IsLog
  <2>2. Rooted
    BY <2>1 DEF Init, Rooted, Causal, Introduced, Closed
  <2>3. AllMet
    BY DEF Init, AllMet
  <2> QED
    BY <2>2, <2>3
<1>2. IInv /\ Rooted /\ AllMet /\ [Next]_vars => Rooted' /\ AllMet'
  BY RootedStays
<1>3. IInv /\ Rooted /\ AllMet /\ [Next]_vars =>
        [\A d, e \in Devices :
             /\ Len(log') > Len(log) /\ log'[Len(log')].signer = d
             /\ cache[d][d] = "revoked" /\ doc[d] \subseteq doc[e]
             => cache'[e] = cache[e]]_vars
  BY Mute
<1> QED
  BY <1>1, <1>2, <1>3, Invariance, PTL DEF Spec, RemovedIsMute
=============================================================================
