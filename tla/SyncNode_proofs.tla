--------------------------- MODULE SyncNode_proofs ---------------------------
(***************************************************************************)
(* SyncNode for every set of devices, links, fields and values, and for    *)
(* every bound on changes, cuts, failures and lost sends.                  *)
(*                                                                         *)
(* The invariant Safe has four parts: the log (Held), the connections      *)
(* (Wire), SQLite (Books) and the counters (Flags).  Every action is       *)
(* reduced once to what it does (Effect): to each pair of devices what     *)
(* happens to their two ends of the connection (Exchange), and to one      *)
(* device that its document grew and its books followed (Booking).  From   *)
(* then on no proof looks at the actions again:                            *)
(*   - Booking gives that SQLite follows the document, that no side of a   *)
(*     conflict is chosen silently, that removals are enforced (Follows),  *)
(*     and that the devices implement ReplicatedCamp;                      *)
(*   - both give that removed devices learn nothing new (Discreet);        *)
(*   - Exchange gives that devices with nothing left to say hold the same  *)
(*     document (Understood), as long as no send failed on a connection    *)
(*     that stayed.                                                        *)
(***************************************************************************)
EXTENDS SyncNode, FiniteSetTheorems, WellFoundedInduction, TLAPS

-----------------------------------------------------------------------------
(* Documents.  A log is a sequence of changes, each built on earlier ones  *)
(* and on all that those were built on.                                    *)

Change == [field : Fields \cup Removable, val : Values \cup {"removed"}, past : SUBSET Nat]

IsLog(l) ==
    /\ l \in Seq(Change)
    /\ \A c \in 1..Len(l) :
          /\ l[c].past \subseteq 1..(c - 1)
          /\ l[c].field \in Fields => l[c].val \in Values
          /\ \A e \in l[c].past : l[e].past \subseteq l[c].past

\* m is l, or l and one more change on top of it.
Extends(l, m) ==
    /\ Len(m) \in Nat /\ Len(l) \in Nat /\ Len(l) =< Len(m)
    /\ \A c \in 1..Len(l) : m[c] = l[c]

LEMMA ChangeFields ==
    ASSUME NEW x \in Change
    PROVE  x.field \in Fields \cup Removable /\ x.val \in Values \cup {"removed"}
           /\ x.past \in SUBSET Nat
  BY DEF Change

LEMMA LogLookup ==
    ASSUME NEW l, IsLog(l), NEW c \in 1..Len(l)
    PROVE  /\ l[c] \in Change /\ l[c].past \subseteq 1..Len(l)
           /\ l[c].past \subseteq 1..(c - 1) /\ c \notin l[c].past
<1>1. l \in Seq(Change) /\ l[c].past \subseteq 1..(c - 1)
  BY DEF IsLog
<1>2. l[c] \in Change /\ Len(l) \in Nat
  BY <1>1
<1> QED
  BY <1>1, <1>2

LEMMA ExtendsItself ==
    ASSUME NEW l, IsLog(l)
    PROVE  Extends(l, l)
  BY DEF Extends, IsLog

\* A change on top of a document that holds all its causes makes a log again.
LEMMA Appended ==
    ASSUME NEW l, IsLog(l), NEW x \in Change, x.past \subseteq 1..Len(l),
           x.field \in Fields => x.val \in Values,
           \A e \in x.past : l[e].past \subseteq x.past,
           NEW m, m = Append(l, x)
    PROVE  /\ IsLog(m) /\ Extends(l, m)
           /\ Len(m) = Len(l) + 1 /\ m[Len(l) + 1] = x
<1>1. l \in Seq(Change) /\ Len(l) \in Nat
  BY DEF IsLog
<1>2. m \in Seq(Change) /\ Len(m) = Len(l) + 1 /\ m[Len(l) + 1] = x
  BY <1>1
<1>3. \A c \in 1..Len(l) : m[c] = l[c]
  BY <1>1
<1>4. ASSUME NEW c \in 1..Len(m)
      PROVE  /\ m[c].past \subseteq 1..(c - 1)
             /\ m[c].field \in Fields => m[c].val \in Values
             /\ \A e \in m[c].past : m[e].past \subseteq m[c].past
  <2>1. CASE c \in 1..Len(l)
    <3>1. /\ l[c].past \subseteq 1..(c - 1)
          /\ l[c].field \in Fields => l[c].val \in Values
          /\ \A e \in l[c].past : l[e].past \subseteq l[c].past
      BY <2>1 DEF IsLog
    <3>2. m[c] = l[c] /\ \A e \in l[c].past : m[e] = l[e]
      BY <1>1, <1>3, <2>1, <3>1
    <3> QED
      BY <3>1, <3>2
  <2>2. CASE c = Len(l) + 1
    <3>1. m[c] = x /\ \A e \in x.past : m[e] = l[e]
      BY <1>2, <1>3, <2>2
    <3> QED
      BY <1>1, <2>2, <3>1
  <2> QED
    BY <1>1, <1>2, <2>1, <2>2
<1> QED
  BY <1>1, <1>2, <1>3, <1>4 DEF IsLog, Extends

\* What is added to the log says nothing of the changes it does not touch.
LEMMA DocExtends ==
    ASSUME NEW l, NEW m, Extends(l, m), NEW held \in SUBSET (1..Len(l))
    PROVE  DocOf(m, held) = DocOf(l, held)
<1>1. \A c \in held : m[c] = l[c]
  BY DEF Extends
<1> QED
  BY <1>1 DEF DocOf

LEMMA LiveExtends ==
    ASSUME NEW l, NEW m, Extends(l, m), NEW doc \in SUBSET (1..Len(l)), NEW f
    PROVE  Live(m, doc, f) = Live(l, doc, f) /\ LiveValues(m, doc, f) = LiveValues(l, doc, f)
<1>1. \A c \in doc : m[c] = l[c]
  BY DEF Extends
<1>2. Live(m, doc, f) = Live(l, doc, f)
  BY <1>1 DEF Live
<1>3. \A c \in Live(l, doc, f) : m[c] = l[c]
  BY <1>1 DEF Live
<1> QED
  BY <1>2, <1>3 DEF LiveValues

LEMMA LiveWithin ==
    ASSUME NEW l, NEW doc, NEW f
    PROVE  Live(l, doc, f) \subseteq doc
  BY DEF Live

LEMMA ContestedExtends ==
    ASSUME NEW l, NEW m, Extends(l, m), NEW doc \in SUBSET (1..Len(l)), NEW f
    PROVE  Contested(m, doc, f) <=> Contested(l, doc, f)
  BY LiveExtends DEF Contested

LEMMA RemovedByExtends ==
    ASSUME NEW l, NEW m, Extends(l, m), NEW doc \in SUBSET (1..Len(l))
    PROVE  RemovedBy(m, doc) = RemovedBy(l, doc)
<1>1. \A c \in doc : m[c] = l[c]
  BY DEF Extends
<1> QED
  BY <1>1 DEF RemovedBy

\* The last live assignment exists: the smallest set of later ones is empty.
LEMMA MaxExists ==
    ASSUME NEW n \in Nat, NEW S \in SUBSET (1..n), S # {}
    PROVE  Max(S) \in S
<1> DEFINE above(x) == {y \in S : y > x}
           T == {above(x) : x \in S}
<1>1. IsFiniteSet(S)
  <2>1. IsFiniteSet(1..n)
    BY FS_Interval
  <2> QED
    BY <2>1, FS_Subset
<1>2. IsWellFoundedOn(StrictSubsetOrdering(S), SUBSET S)
  BY <1>1, FS_StrictSubsetOrderingWellFounded, FS_FiniteSubsetsOfFinite
<1>3. T \in SUBSET (SUBSET S) /\ T # {}
  OBVIOUS
<1>4. PICK t \in T : \A z \in T : <<z, t>> \notin StrictSubsetOrdering(S)
  BY <1>2, <1>3, WFMin
<1>5. PICK x \in S : t = above(x)
  OBVIOUS
<1>6. ASSUME NEW y \in S, y > x
      PROVE  FALSE
  <2>1. above(y) \in T
    OBVIOUS
  <2>4. \A z \in S : z > y => z > x
    BY <1>6
  <2>5. above(y) \subseteq above(x)
    BY <2>4
  <2>2. y \in above(x) /\ y \notin above(y)
    BY <1>6
  <2>3. <<above(y), t>> \in StrictSubsetOrdering(S)
    BY <1>3, <1>5, <2>1, <2>2, <2>5 DEF StrictSubsetOrdering
  <2> QED
    BY <1>4, <2>1, <2>3
<1>7. \A y \in S : x >= y
  BY <1>6
<1> QED
  BY <1>7 DEF Max

LEMMA ShowsExtends ==
    ASSUME NEW l, NEW m, Extends(l, m), NEW doc \in SUBSET (1..Len(l)), NEW f
    PROVE  Shows(m, doc, f) = Shows(l, doc, f)
<1>0. Live(m, doc, f) = Live(l, doc, f)
  BY LiveExtends
<1>1. Live(m, doc, f) = Live(l, doc, f) /\ Live(l, doc, f) \in SUBSET (1..Len(l))
  BY <1>0, LiveWithin
<1>2. CASE Live(l, doc, f) # {}
  <2>1. Max(Live(l, doc, f)) \in 1..Len(l)
    BY <1>1, <1>2, MaxExists DEF Extends
  <2> QED
    BY <1>1, <2>1 DEF Shows, Extends
<1> QED
  BY <1>1, <1>2 DEF Shows

With(doc, n) == doc \cup {n}

\* m is the log l and one more change, the n-th, on top of the document doc.
Mints(l, m, doc, n) ==
    /\ IsLog(l) /\ IsLog(m) /\ Extends(l, m)
    /\ n = Len(l) + 1 /\ Len(m) = n
    /\ doc \subseteq 1..Len(l) /\ m[n].past = doc

LEMMA MintedIndex ==
    ASSUME NEW l, NEW m, NEW doc, NEW n, Mints(l, m, doc, n)
    PROVE  /\ n \in Nat /\ n \notin doc /\ n \notin 1..Len(l) /\ n \in 1..Len(m)
           /\ \A c \in 1..Len(l) : m[c] = l[c] /\ n \notin m[c].past
<1>1. Len(l) \in Nat /\ n = Len(l) + 1 /\ Len(m) = n
  BY DEF Mints, Extends
<1>2. \A c \in 1..Len(l) : m[c] = l[c]
  BY DEF Mints, Extends
<1>3. \A c \in 1..Len(l) : l[c].past \subseteq 1..Len(l)
  BY LogLookup DEF Mints
<1> QED
  BY <1>1, <1>2, <1>3 DEF Mints

\* A change on top of a document: the document with the change, in which the
\* change alone answers for its field.
LEMMA MintedDoc ==
    ASSUME NEW l, NEW m, NEW n, NEW held \in SUBSET (1..Len(l)), Mints(l, m, DocOf(l, held), n)
    PROVE  DocOf(m, With(held, n)) = With(DocOf(l, held), n)
<1>1. n \notin held /\ \A c \in held : m[c] = l[c] /\ n \notin l[c].past
  BY MintedIndex
<1>2. DocOf(l, held) \subseteq held /\ m[n].past = DocOf(l, held)
  BY DEF DocOf, Mints
<1>3. \A c \in held : m[c].past \subseteq With(held, n) <=> l[c].past \subseteq held
  BY <1>1 DEF With
<1>4. m[n].past \subseteq held
  BY <1>2
<1> QED
  BY <1>3, <1>4 DEF DocOf, With

LEMMA MintedLive ==
    ASSUME NEW l, NEW m, NEW doc, NEW n, Mints(l, m, doc, n), NEW f
    PROVE  /\ m[n].field = f => Live(m, With(doc, n), f) = {n}
           /\ m[n].field # f => Live(m, With(doc, n), f) = Live(l, doc, f)
<1> DEFINE new == With(doc, n)
<1>1. n \notin doc /\ m[n].past = doc
  BY MintedIndex DEF Mints
<1>2. \A c \in doc : m[c] = l[c] /\ n \notin m[c].past
  BY MintedIndex DEF Mints
<1>4. CASE m[n].field = f
  <2>1. \A c \in new : c \notin m[n].past <=> c = n
    BY <1>1 DEF With
  <2>2. n \in Live(m, new, f)
    BY <1>1, <1>2, <1>4 DEF Live, With
  <2>3. \A c \in Live(m, new, f) : c \in new /\ c \notin m[n].past
    BY <1>4 DEF Live, With
  <2> QED
    BY <1>4, <2>1, <2>2, <2>3
<1>5. CASE m[n].field # f
  <2>1. \A c : c \in new /\ m[c].field = f <=> c \in doc /\ m[c].field = f
    BY <1>5 DEF With
  <2>3. \A c : c \in Live(m, new, f) <=> c \in Live(m, doc, f)
    BY <2>1 DEF Live
  <2>2. Live(m, new, f) = Live(m, doc, f)
    BY <2>3 DEF Live
  <2> QED
    BY <1>5, <2>2, LiveExtends DEF Mints
<1> QED
  BY <1>4, <1>5

LEMMA MaxOfOne ==
    ASSUME NEW n \in Nat
    PROVE  Max({n}) = n
  BY DEF Max

\* The field of the change shows it and is not contested.
LEMMA MintedField ==
    ASSUME NEW l, NEW m, NEW doc, NEW n, Mints(l, m, doc, n), NEW f, m[n].field = f
    PROVE  Shows(m, With(doc, n), f) = m[n].val /\ ~Contested(m, With(doc, n), f)
<1>1. Live(m, With(doc, n), f) = {n}
  BY MintedLive
<1>2. LiveValues(m, With(doc, n), f) = {m[n].val}
  BY <1>1 DEF LiveValues
<1>3. Cardinality(LiveValues(m, With(doc, n), f)) = 1
  BY <1>2, FS_Singleton
<1>4. Max({n}) = n
  BY MintedIndex, MaxOfOne
<1> QED
  BY <1>1, <1>3, <1>4 DEF Shows, Contested

\* The other fields are as they were.
LEMMA OtherFields ==
    ASSUME NEW l, NEW m, NEW doc, NEW n, Mints(l, m, doc, n), NEW f, m[n].field # f
    PROVE  /\ Shows(m, With(doc, n), f) = Shows(l, doc, f)
           /\ LiveValues(m, With(doc, n), f) = LiveValues(l, doc, f)
           /\ Contested(m, With(doc, n), f) <=> Contested(l, doc, f)
<1>1. Live(m, With(doc, n), f) = Live(l, doc, f)
  BY MintedLive
<1>2. Live(l, doc, f) \in SUBSET doc /\ doc \subseteq 1..Len(l) /\ Len(l) \in Nat
  BY LiveWithin DEF Mints, Extends
<1>3. \A c \in Live(l, doc, f) : m[c] = l[c]
  BY <1>2, MintedIndex
<1>4. LiveValues(m, With(doc, n), f) = LiveValues(l, doc, f)
  BY <1>1, <1>3 DEF LiveValues
<1>5. Live(l, doc, f) # {} => Max(Live(l, doc, f)) \in Live(l, doc, f)
  BY <1>2, MaxExists
<1>6. Shows(m, With(doc, n), f) = Shows(l, doc, f)
  BY <1>1, <1>3, <1>5 DEF Shows
<1> QED
  BY <1>4, <1>6 DEF Contested

LEMMA MintedRemovals ==
    ASSUME NEW l, NEW m, NEW doc, NEW n, Mints(l, m, doc, n)
    PROVE  RemovedBy(m, With(doc, n)) = RemovedBy(l, doc) \cup ({m[n].field} \cap Removable)
<1>1. \A c \in doc : m[c] = l[c]
  BY MintedIndex DEF Mints
<1> QED
  BY <1>1 DEF RemovedBy, With

\* More changes make a larger document, which holds the causes of all it holds.
LEMMA DocGrows ==
    ASSUME NEW l, NEW held, NEW more, held \subseteq more
    PROVE  DocOf(l, held) \subseteq DocOf(l, more) /\ DocOf(l, held) \subseteq held
  BY DEF DocOf

LEMMA DocClosed ==
    ASSUME NEW l, IsLog(l), NEW held \in SUBSET (1..Len(l)), NEW c \in DocOf(l, held)
    PROVE  l[c].past \subseteq DocOf(l, held)
<1>1. c \in 1..Len(l) /\ l[c].past \subseteq held
  BY DEF DocOf
<1>2. \A e \in l[c].past : l[e].past \subseteq l[c].past
  BY <1>1 DEF IsLog
<1> QED
  BY <1>1, <1>2 DEF DocOf

LEMMA FieldTypes ==
    ASSUME NEW l, IsLog(l), NEW doc \in SUBSET (1..Len(l)), NEW f \in Fields
    PROVE  /\ LiveValues(l, doc, f) \subseteq Values
           /\ Shows(l, doc, f) \in Values \cup {Blank}
<1>1. Live(l, doc, f) \in SUBSET (1..Len(l))
  BY LiveWithin
<1>2. \A c \in Live(l, doc, f) : l[c].val \in Values
  BY <1>1 DEF Live, IsLog
<1>3. Len(l) \in Nat
  BY DEF IsLog
<1>4. Live(l, doc, f) # {} => Max(Live(l, doc, f)) \in Live(l, doc, f)
  BY <1>1, <1>3, MaxExists
<1> QED
  BY <1>2, <1>4 DEF LiveValues, Shows

-----------------------------------------------------------------------------
(* What every step leaves behind it: a log that grew by at most one change, *)
(* and documents that only grew.                                           *)

Held ==
    /\ IsLog(log) /\ Len(log) =< MaxChanges
    /\ got \in [Devices -> SUBSET (1..Len(log))]

Letter == [heads : SUBSET Nat, changes : SUBSET Nat]
State == [theirs : (SUBSET Nat) \cup {Nothing}, sent : SUBSET Nat,
          spoken : (SUBSET Nat) \cup {Nothing}, inFlight : BOOLEAN]

\* What is on its way tells of the sender's document.
Carries(q, doc) ==
    q \in Seq(Letter) /\ \A i \in 1..Len(q) : q[i].heads \subseteq doc /\ q[i].changes \subseteq doc

\* What a device remembers of an exchange: of its own document what it said,
\* of the other's no more than that one holds.
Remembers(s, mine, other) ==
    /\ s \in State
    /\ s.theirs = Nothing \/ s.theirs \subseteq other
    /\ s.sent \subseteq mine
    /\ s.spoken = Nothing \/ s.spoken \subseteq mine

Table(F) == F = [x \in Devices |-> [y \in Devices |-> F[x][y]]]

Wire ==
    /\ Table(sync) /\ Table(chan) /\ admitted \in [Devices -> SUBSET Devices]
    /\ \A x, y \in Devices :
          /\ y \in admitted[x] => {x, y} \in Links
          /\ y \notin admitted[x] => sync[x][y] = FreshSync /\ chan[x][y] = <<>>
          /\ Carries(chan[x][y], Doc(x))
          /\ Remembers(sync[x][y], Doc(x), Doc(y))

Grows ==
    /\ Extends(log, log')
    /\ \A d \in Devices : got[d] \subseteq got'[d] /\ Doc(d) \subseteq Doc(d)'

LEMMA DocWithin ==
    ASSUME Held, NEW d \in Devices
    PROVE  Doc(d) \subseteq got[d] /\ Doc(d) \subseteq 1..Len(log) /\ Len(log) \in Nat
  BY DEF Held, Doc, DocOf, IsLog

LEMMA NothingNew ==
    ASSUME Held, UNCHANGED <<log, got>>
    PROVE  Held' /\ Grows
<1>1. Extends(log, log)
  BY ExtendsItself DEF Held
<1> QED
  BY <1>1 DEF Held, Grows, Doc

LEMMA Merged ==
    ASSUME Held, NEW d \in Devices, NEW changes \in SUBSET (1..Len(log)),
           log' = log, got' = [got EXCEPT ![d] = got[d] \cup changes]
    PROVE  Held' /\ Grows
<1>1. Extends(log, log)
  BY ExtendsItself DEF Held
<1>2. got' \in [Devices -> SUBSET (1..Len(log))]
  BY DEF Held
<1>3. \A e \in Devices : got[e] \subseteq got'[e]
  BY DEF Held
<1>4. \A e \in Devices : DocOf(log, got[e]) \subseteq DocOf(log, got'[e])
  BY <1>3, DocGrows
<1> QED
  BY <1>1, <1>2, <1>3, <1>4 DEF Held, Grows, Doc

\* Minting: the document of d gains the change, the others stay.
MintedOn(d, field, val) ==
    LET n == Len(log) + 1
    IN  /\ Mints(log, log', Doc(d), n)
        /\ log'[n].field = field /\ log'[n].val = val
        /\ got' = [got EXCEPT ![d] = With(got[d], n)]
        /\ Doc(d)' = With(Doc(d), n)
        /\ \A e \in Devices \ {d} : Doc(e)' = Doc(e)

LEMMA MintingGrows ==
    ASSUME Held, NEW d \in Devices, NEW field \in Fields \cup Removable,
           NEW val \in Values \cup {"removed"}, field \in Fields => val \in Values,
           Minted(d, field, val)
    PROVE  Held' /\ Grows /\ MintedOn(d, field, val)
<1> DEFINE n == Len(log) + 1
           x == [field |-> field, val |-> val, past |-> Doc(d)]
<1>1. Doc(d) \subseteq got[d] /\ Doc(d) \subseteq 1..Len(log) /\ Len(log) \in Nat
  BY DocWithin
<1>2. x \in Change /\ x.past = Doc(d) /\ x.field = field /\ x.val = val
  BY <1>1 DEF Change
<1>3. \A e \in x.past : log[e].past \subseteq x.past
  BY <1>2, DocClosed DEF Held, Doc
<1>4. log' = Append(log, x) /\ got' = [got EXCEPT ![d] = @ \cup {n}] /\ Len(log) < MaxChanges
  BY DEF Minted
<1>12. n = Len(log) + 1
  OBVIOUS
<1> HIDE DEF x, n
<1>5. /\ IsLog(log') /\ Extends(log, log')
      /\ Len(log') = Len(log) + 1 /\ log'[Len(log) + 1] = x
  <2>1. IsLog(log) /\ x.past \subseteq 1..Len(log) /\ (x.field \in Fields => x.val \in Values)
    BY <1>1, <1>2 DEF Held
  <2> QED
    BY <1>2, <1>3, <1>4, <2>1, Appended
<1>6. Mints(log, log', Doc(d), n) /\ log'[n].field = field /\ log'[n].val = val
  BY <1>1, <1>2, <1>5, <1>12 DEF Mints, Held
<1>7. got' = [got EXCEPT ![d] = With(got[d], n)]
  BY <1>4 DEF With
<1>8. /\ got' \in [Devices -> SUBSET (1..Len(log'))] /\ Len(log') =< MaxChanges
      /\ got'[d] = With(got[d], n) /\ \A e \in Devices \ {d} : got'[e] = got[e]
  <2>1. got \in [Devices -> SUBSET (1..Len(log))] /\ MaxChanges \in Nat
    BY BoundAssumption DEF Held
  <2>2. \A S \in SUBSET (1..Len(log)) : S \in SUBSET (1..Len(log')) /\ With(S, n) \in SUBSET (1..Len(log'))
    <3>1. 1..Len(log) \subseteq 1..Len(log') /\ n \in 1..Len(log')
      BY <1>1, <1>5, <1>12
    <3> QED
      BY <3>1 DEF With
  <2>3. got'[d] = With(got[d], n) /\ \A e \in Devices \ {d} : got'[e] = got[e]
    <3>1. got'[d] = With(got[d], n)
      BY <1>7, <2>1
    <3>2. \A e \in Devices \ {d} : got'[e] = got[e]
      BY <1>7, <2>1
    <3> QED
      BY <3>1, <3>2
  <2>4. ASSUME NEW e \in Devices
        PROVE  got'[e] \in SUBSET (1..Len(log'))
    <3>1. got[e] \in SUBSET (1..Len(log)) /\ got[d] \in SUBSET (1..Len(log))
      BY <2>1
    <3>2. got[e] \in SUBSET (1..Len(log')) /\ With(got[d], n) \in SUBSET (1..Len(log'))
      BY <2>2, <3>1
    <3> QED
      BY <2>3, <3>2
  <2> QED
    BY <1>1, <1>4, <1>5, <1>7, <2>1, <2>3, <2>4
<1>9. Doc(d)' = With(Doc(d), n)
  <2>1. Mints(log, log', DocOf(log, got[d]), n) /\ got[d] \in SUBSET (1..Len(log))
    BY <1>6 DEF Held, Doc
  <2>2. DocOf(log', With(got[d], n)) = With(DocOf(log, got[d]), n)
    BY <2>1, MintedDoc
  <2> QED
    BY <1>8, <2>2 DEF Doc
<1>10. \A e \in Devices \ {d} : Doc(e)' = Doc(e)
  BY <1>5, <1>8, DocExtends DEF Doc, Held
<1>11. \A e \in Devices : got[e] \subseteq got'[e] /\ Doc(e) \subseteq Doc(e)'
  BY <1>8, <1>9, <1>10 DEF With
<1>13. Held' /\ Grows
  BY <1>5, <1>8, <1>11 DEF Held, Grows
<1>14. MintedOn(d, field, val)
  BY <1>6, <1>7, <1>9, <1>10 DEF MintedOn, n
<1> QED
  BY <1>13, <1>14

-----------------------------------------------------------------------------
(* What a step does to the two ends of a connection.                       *)

\* x may talk to y: it admitted y, their versions agree, it has not y down
\* as removed.
Talks(x, y) == y \in admitted[x] /\ version[x] = version[y] /\ y \notin removed[x]

\* x has nothing to tell y that it had not before.
Waits(x, y) ==
    /\ Talks(x, y)' => Talks(x, y) /\ (~unsent'[x] => ~unsent[x] /\ Doc(x)' = Doc(x))
    /\ y \in admitted[x] => y \in admitted'[x]

Hold(x, y) == Waits(x, y) /\ sync'[x][y] = sync[x][y] /\ chan'[x][y] = chan[x][y]

\* x speaks to y from the sync state s.
Say(x, y, s) ==
    /\ Talks(x, y)' /\ (Talks(x, y) \/ sync[x][y] = FreshSync)
    /\ sync'[x][y] = Advanced(Doc(x)', s)
    /\ chan'[x][y] = Told(Doc(x)', s, chan[x][y])

\* A message from y is taken, and y's end stays as it is.
Taken(x, y) ==
    /\ chan[y][x] # <<>> /\ chan'[y][x] = Tail(chan[y][x])
    /\ Waits(y, x) /\ sync'[y][x] = sync[y][x]

\* x takes a message from y and answers it.
Hear(x, y) ==
    /\ Taken(x, y) /\ Talks(x, y)
    /\ Say(x, y, Heard(Doc(x), sync[x][y], Head(chan[y][x])))

\* The message is lost: x does not listen to y, or the connection ate it.
Lose(x, y) == Taken(x, y) /\ Hold(x, y) /\ (~Talks(x, y)' \/ drops' # drops)

Cut(x, y) ==
    /\ y \notin admitted'[x] /\ sync'[x][y] = FreshSync /\ chan'[x][y] = <<>>
    /\ x \notin admitted'[y] /\ sync'[y][x] = FreshSync /\ chan'[y][x] = <<>>

Meet(x, y) ==
    \/ Cut(x, y)
    \/ Hold(x, y) /\ Hold(y, x)
    \/ Say(x, y, sync[x][y]) /\ Hold(y, x)
    \/ Hold(x, y) /\ Say(y, x, sync[y][x])
    \/ Hear(x, y) \/ Hear(y, x)
    \/ Lose(x, y) \/ Lose(y, x)

\* What every step does to the connections.
Exchange ==
    /\ Table(sync') /\ Table(chan') /\ admitted' \in [Devices -> SUBSET Devices]
    /\ \A x, y \in Devices : (y \in admitted'[x] => {x, y} \in Links) /\ Meet(x, y)

LEMMA MeetIsMutual ==
    ASSUME NEW x, NEW y, Meet(x, y)
    PROVE  Meet(y, x)
  BY DEF Meet, Cut

\* The table F with another entry for d and p.
Entered(F, d, p, v) == [F EXCEPT ![d][p] = v]

LEMMA TableEntry ==
    ASSUME NEW F, Table(F), NEW d \in Devices, NEW p \in Devices, NEW v,
           NEW G, G = Entered(F, d, p, v)
    PROVE  /\ Table(G) /\ G[d][p] = v
           /\ \A x, y \in Devices : x # d \/ y # p => G[x][y] = F[x][y]
<1>1. F = [x \in Devices |-> [y \in Devices |-> F[x][y]]]
  BY DEF Table
<1>3. \A x \in Devices : F[x] = [y \in Devices |-> F[x][y]]
  BY <1>1
<1> DEFINE row(x) == [y \in Devices |-> IF x = d /\ y = p THEN v ELSE F[x][y]]
<1>4. G = [F EXCEPT ![d] = [F[d] EXCEPT ![p] = v]]
  BY DEF Entered
<1>5. [F[d] EXCEPT ![p] = v] = row(d)
  BY <1>3
<1>6. \A x \in Devices : x # d => F[x] = row(x)
  BY <1>3
<1> DEFINE old(x) == [y \in Devices |-> F[x][y]]
<1>8. F = [x \in Devices |-> old(x)]
  BY <1>1
<1> HIDE DEF row, old
<1>9. G = [F EXCEPT ![d] = row(d)]
  BY <1>4, <1>5
<1>7. G = [x \in Devices |-> row(x)]
  BY <1>6, <1>8, <1>9
<1>2. G = [x \in Devices |-> [y \in Devices |-> IF x = d /\ y = p THEN v ELSE F[x][y]]]
  BY <1>7 DEF row
<1> DEFINE entry(x, y) == IF x = d /\ y = p THEN v ELSE F[x][y]
<1>10. G = [x \in Devices |-> [y \in Devices |-> entry(x, y)]]
  BY <1>2
<1>11. /\ entry(d, p) = v
       /\ \A x, y \in Devices : x # d \/ y # p => entry(x, y) = F[x][y]
  OBVIOUS
<1> HIDE DEF entry
<1>12. \A x, y \in Devices : G[x][y] = entry(x, y)
  BY <1>10
<1>13. Table(G)
  BY <1>10, <1>12 DEF Table
<1> QED
  BY <1>11, <1>12, <1>13

\* Distinct devices only: nobody is linked to itself.
LEMMA LinkedApart ==
    ASSUME NEW x \in Devices, {x, x} \in Links
    PROVE  FALSE
<1>1. Cardinality({x, x}) = 2
  BY DeviceAssumption
<1>2. {x, x} = {x} /\ Cardinality({x}) = 1
  BY FS_Singleton
<1> QED
  BY <1>1, <1>2

\* The connection of x and y is one that d hangs up.
HungUp(d, gone, x, y) == (x = d /\ y \in gone) \/ (y = d /\ x \in gone)

\* d tells those of its peers it may, and keeps quiet to the others.
SaysTo(d, held, states, peers, gone, inbox) ==
    \A y \in Devices \ gone :
       /\ y \in peers /\ MaySync(d, y) =>
             /\ sync'[d][y] = Advanced(DocOf(log', held), states[y])
             /\ chan'[d][y] = Told(DocOf(log', held), states[y], inbox[d][y])
       /\ ~(y \in peers /\ MaySync(d, y)) =>
             sync'[d][y] = states[y] /\ chan'[d][y] = inbox[d][y]

\* What speaking changes, connection by connection.
LEMMA Spoken ==
    ASSUME NEW d \in Devices, NEW held, NEW states, NEW peers,
           NEW gone \in SUBSET (Devices \ {d}), NEW inbox,
           admitted \in [Devices -> SUBSET Devices],
           Speak(d, held, states, peers, gone, inbox)
    PROVE  /\ Table(sync') /\ Table(chan') /\ admitted' \in [Devices -> SUBSET Devices]
           /\ \A x, y \in Devices :
                 /\ y \in admitted'[x] <=> y \in admitted[x] /\ ~HungUp(d, gone, x, y)
                 /\ HungUp(d, gone, x, y) => sync'[x][y] = FreshSync /\ chan'[x][y] = <<>>
                 /\ ~HungUp(d, gone, x, y) /\ x # d =>
                       sync'[x][y] = sync[x][y] /\ chan'[x][y] = inbox[x][y]
           /\ SaysTo(d, held, states, peers, gone, inbox)
<1> DEFINE doc == DocOf(log', held)
           told == {p \in peers \ gone : MaySync(d, p)}
           said(x, y) == IF HungUp(d, gone, x, y) THEN FreshSync
                         ELSE IF x # d THEN sync[x][y]
                         ELSE IF y \in told THEN Advanced(doc, states[y]) ELSE states[y]
           sent(x, y) == IF HungUp(d, gone, x, y) THEN <<>>
                         ELSE IF x = d /\ y \in told THEN Told(doc, states[y], inbox[x][y])
                         ELSE inbox[x][y]
<1>1. admitted' = [x \in Devices |-> {y \in admitted[x] : ~HungUp(d, gone, x, y)}]
  BY DEF Speak, HungUp
<1>2. sync' = [x \in Devices |-> [y \in Devices |-> said(x, y)]]
  BY Zenon DEF Speak, HungUp
<1>3. chan' = [x \in Devices |-> [y \in Devices |-> sent(x, y)]]
  BY Zenon DEF Speak, HungUp
<1> HIDE DEF said, sent
<1>4. \A x, y \in Devices : sync'[x][y] = said(x, y) /\ chan'[x][y] = sent(x, y)
  BY <1>2, <1>3
<1>5. Table(sync') /\ Table(chan')
  BY <1>2, <1>3 DEF Table
<1>6. admitted' \in [Devices -> SUBSET Devices]
  BY <1>1
<1>7. \A x, y \in Devices : y \in admitted'[x] <=> y \in admitted[x] /\ ~HungUp(d, gone, x, y)
  BY <1>1
<1>8. \A y \in Devices \ gone : ~HungUp(d, gone, d, y)
  BY DEF HungUp
<1>9. ASSUME NEW x \in Devices, NEW y \in Devices
      PROVE  /\ HungUp(d, gone, x, y) => sync'[x][y] = FreshSync /\ chan'[x][y] = <<>>
             /\ ~HungUp(d, gone, x, y) /\ x # d =>
                   sync'[x][y] = sync[x][y] /\ chan'[x][y] = inbox[x][y]
  BY <1>4 DEF said, sent
<1>10. ASSUME NEW y \in Devices \ gone
       PROVE  /\ y \in peers /\ MaySync(d, y) =>
                    /\ sync'[d][y] = Advanced(doc, states[y])
                    /\ chan'[d][y] = Told(doc, states[y], inbox[d][y])
              /\ ~(y \in peers /\ MaySync(d, y)) =>
                    sync'[d][y] = states[y] /\ chan'[d][y] = inbox[d][y]
  <2>1. ~HungUp(d, gone, d, y) /\ (y \in told <=> y \in peers /\ MaySync(d, y))
    BY <1>8
  <2> HIDE DEF told, doc
  <2> QED
    BY <1>4, <2>1 DEF said, sent
<1>11. SaysTo(d, held, states, peers, gone, inbox)
  BY <1>10 DEF SaysTo
<1> HIDE DEF doc
<1> QED
  BY <1>5, <1>6, <1>7, <1>9, <1>11

-----------------------------------------------------------------------------
(* SQLite: the rows, the cards, the authority cache.                       *)

Rows == [Fields -> Values \cup {Blank}]

Books ==
    /\ rows \in [Devices -> Rows]
    /\ cards \in [Devices -> [Fields -> Card]]
    /\ removed \in [Devices -> SUBSET Removable]
    /\ behind \in [Devices -> BOOLEAN]
    /\ failures \in Nat
    /\ \A d \in Devices : removed[d] \subseteq RemovedBy(log, Doc(d))

Flags ==
    /\ unsent \in [Devices -> BOOLEAN] /\ version \in [Devices -> {0, 1}]
    /\ cuts \in Nat /\ drops \in Nat

\* Removals and projections that threw are not taken back.
Lasting ==
    /\ \A d \in Devices : removed[d] \subseteq removed'[d]
    /\ failures =< failures'

\* The books of d stay as they are.
Untouched(d) ==
    /\ rows'[d] = rows[d] /\ cards'[d] = cards[d] /\ removed'[d] = removed[d]
    /\ behind'[d] = behind[d]

\* What a projection on d does: all of it, or `base` stays and it is known.
Projected(d, base) ==
    /\ cards'[d] = Recorded(log', Doc(d)', cards[d])
    /\ ~behind'[d] =>
          /\ rows'[d] = [f \in Fields |-> Shows(log', Doc(d)', f)]
          /\ removed'[d] = RemovedBy(log', Doc(d)')
          /\ Projectable(log', Doc(d)', cards'[d])
          /\ failures' = failures
    /\ behind'[d] => rows'[d] = base /\ removed'[d] = removed[d] /\ failures' = failures + 1
    /\ \A e \in Devices \ {d} : Untouched(e)

LEMMA RemovalsGrow ==
    ASSUME Held, Held', Grows, NEW d \in Devices
    PROVE  /\ RemovedBy(log, Doc(d)) \subseteq RemovedBy(log', Doc(d)')
           /\ RemovedBy(log', Doc(d)') \subseteq Removable
<1>1. Doc(d) \subseteq 1..Len(log) /\ Doc(d) \subseteq Doc(d)'
  BY DocWithin DEF Grows
<1>2. \A c \in Doc(d) : log'[c] = log[c]
  BY <1>1 DEF Grows, Extends
<1> QED
  BY <1>1, <1>2 DEF RemovedBy

LEMMA BooksKept ==
    ASSUME Held, Held', Grows, Books, UNCHANGED <<rows, cards, removed, behind, failures>>
    PROVE  Books' /\ Lasting /\ \A d \in Devices : Untouched(d)
<1>1. \A d \in Devices : removed'[d] \subseteq RemovedBy(log', Doc(d)')
  BY RemovalsGrow DEF Books
<1> QED
  BY <1>1 DEF Books, Lasting, Untouched

LEMMA RecordedCards ==
    ASSUME NEW l, IsLog(l), NEW doc \in SUBSET (1..Len(l)), NEW card \in [Fields -> Card]
    PROVE  Recorded(l, doc, card) \in [Fields -> Card]
<1>1. ASSUME NEW f \in Fields
      PROVE  Recorded(l, doc, card)[f] \in Card
  <2>1. card[f] \in Card /\ LiveValues(l, doc, f) \in SUBSET Values
    BY FieldTypes
  <2>2. /\ [state |-> "pending", sides |-> LiveValues(l, doc, f)] \in Card
        /\ [state |-> "settled", sides |-> {}] \in Card
    BY <2>1 DEF Card
  <2> QED
    BY <2>1, <2>2 DEF Recorded
<1> QED
  BY <1>1 DEF Recorded

LEMMA ProjectionBooks ==
    ASSUME Held, Held', Grows, Books, NEW d \in Devices, NEW base \in Rows,
           NEW doc, doc = Doc(d)', Project(d, doc, base)
    PROVE  Books' /\ Lasting /\ Projected(d, base)
<1>1. cards' = [cards EXCEPT ![d] = Recorded(log', doc, cards[d])]
  BY DEF Project
<1>2. PICK fails \in BOOLEAN :
         LET lands == ~fails /\ Projectable(log', doc, cards'[d])
         IN  /\ failures' = failures + (IF lands THEN 0 ELSE 1)
             /\ rows' = [rows EXCEPT ![d] =
                            IF lands THEN [f \in Fields |-> Shows(log', doc, f)] ELSE base]
             /\ removed' = [removed EXCEPT ![d] = IF lands THEN RemovedBy(log', doc) ELSE @]
             /\ behind' = [behind EXCEPT ![d] = ~lands]
  BY Zenon DEF Project
<1> DEFINE lands == ~fails /\ Projectable(log', doc, cards'[d])
           shown == [f \in Fields |-> Shows(log', doc, f)]
<1>3. IsLog(log') /\ doc \in SUBSET (1..Len(log'))
  <2>1. Doc(d)' \subseteq (1..Len(log))'
    BY DEF Held, Doc, DocOf
  <2> QED
    BY <2>1 DEF Held
<1>4. shown \in Rows
  BY <1>3, FieldTypes DEF Rows
<1>5. cards[d] \in [Fields -> Card] /\ Recorded(log', doc, cards[d]) \in [Fields -> Card]
  BY <1>3, RecordedCards DEF Books
<1>6. RemovedBy(log, Doc(d)) \subseteq RemovedBy(log', doc) /\ RemovedBy(log', doc) \subseteq Removable
  BY RemovalsGrow
<1>7. lands \in BOOLEAN
  OBVIOUS
<1>8. /\ failures' = failures + (IF lands THEN 0 ELSE 1)
      /\ rows' = [rows EXCEPT ![d] = IF lands THEN shown ELSE base]
      /\ removed' = [removed EXCEPT ![d] = IF lands THEN RemovedBy(log', doc) ELSE removed[d]]
      /\ behind' = [behind EXCEPT ![d] = ~lands]
  BY <1>2
<1>9. lands => Projectable(log', doc, cards'[d])
  OBVIOUS
<1> HIDE DEF lands, shown
<1>10. /\ cards' \in [Devices -> [Fields -> Card]]
       /\ cards'[d] = Recorded(log', doc, cards[d])
       /\ \A e \in Devices \ {d} : cards'[e] = cards[e]
  BY <1>1, <1>5 DEF Books
<1>11. /\ rows' \in [Devices -> Rows]
       /\ rows'[d] = IF lands THEN shown ELSE base
       /\ \A e \in Devices \ {d} : rows'[e] = rows[e]
  BY <1>4, <1>8 DEF Books
<1>12. /\ removed' \in [Devices -> SUBSET Removable]
       /\ removed'[d] = IF lands THEN RemovedBy(log', doc) ELSE removed[d]
       /\ \A e \in Devices \ {d} : removed'[e] = removed[e]
  BY <1>6, <1>8 DEF Books
<1>13. /\ behind' \in [Devices -> BOOLEAN] /\ behind'[d] = ~lands
       /\ \A e \in Devices \ {d} : behind'[e] = behind[e]
  BY <1>7, <1>8 DEF Books
<1>14. failures' \in Nat /\ failures =< failures'
  BY <1>7, <1>8 DEF Books
<1>15. ASSUME NEW e \in Devices
       PROVE  removed[e] \subseteq removed'[e] /\ removed'[e] \subseteq RemovedBy(log', Doc(e)')
  <2>1. removed[e] \subseteq RemovedBy(log, Doc(e)) /\ RemovedBy(log, Doc(e)) \subseteq RemovedBy(log', Doc(e)')
    BY RemovalsGrow DEF Books
  <2> QED
    BY <1>12, <2>1
<1>16. Projected(d, base)
  <2>1. \A e \in Devices \ {d} : Untouched(e)
    BY <1>10, <1>11, <1>12, <1>13 DEF Untouched
  <2>2. CASE lands
    <3>1. rows'[d] = shown /\ removed'[d] = RemovedBy(log', doc) /\ failures' = failures
      BY <1>8, <1>11, <1>12, <2>2 DEF Books
    <3> QED
      BY <1>9, <1>10, <1>13, <2>1, <2>2, <3>1 DEF Projected, shown
  <2>3. CASE ~lands
    <3>1. rows'[d] = base /\ removed'[d] = removed[d] /\ failures' = failures + 1
      BY <1>8, <1>11, <1>12, <2>3
    <3> QED
      BY <1>10, <1>13, <2>1, <2>3, <3>1 DEF Projected
  <2> QED
    BY <2>2, <2>3
<1> QED
  BY <1>10, <1>11, <1>12, <1>13, <1>14, <1>15, <1>16 DEF Books, Lasting

-----------------------------------------------------------------------------
(* What a step does to the documents and the books of each device.         *)

\* The document and the books stay; nobody down as removed is admitted.
SameBooks(d) ==
    /\ Untouched(d) /\ Doc(d)' = Doc(d)
    /\ admitted'[d] \cap removed[d] \subseteq admitted[d]

\* A projection of what was merged or minted, and the removed are hung up on.
ProjectedBooks(d) ==
    /\ \E base \in Rows :
          /\ Projected(d, base)
          /\ \A f \in Fields : base[f] \in {rows[d][f], Shows(log', Doc(d)', f)}
    /\ ~behind'[d] => admitted'[d] \cap removed'[d] = {}

WrittenBooks(d, f, v) ==
    /\ rows' = [rows EXCEPT ![d][f] = v]
    /\ UNCHANGED <<cards, removed, behind, failures>>
    /\ admitted'[d] = admitted[d]

RevokedBooks(t) ==
    /\ removed' = [removed EXCEPT ![Host] = removed[Host] \cup {t}]
    /\ UNCHANGED <<rows, cards, behind, failures>>
    /\ admitted'[Host] \subseteq admitted[Host] \ {t}

\* How the document of d grew, and its books with it.
Minting(d) ==
    \/ \E f \in Fields, v \in Values :
          MintedOn(d, f, v) /\ (WrittenBooks(d, f, v) \/ ProjectedBooks(d))
    \/ \E t \in Removable : d = Host /\ MintedOn(d, t, "removed") /\ RevokedBooks(t)

Learning(d) ==
    /\ log' = log /\ \A e \in Devices \ {d} : got'[e] = got[e]
    /\ \/ got'[d] = got[d]
       \/ \E p \in Devices : /\ chan[p][d] # <<>>
                             /\ got'[d] = got[d] \cup Head(chan[p][d]).changes
    /\ (SameBooks(d) /\ failures' = failures) \/ ProjectedBooks(d)

Booking == \E d \in Devices :
    (Minting(d) \/ Learning(d)) /\ \A e \in Devices \ {d} : SameBooks(e)

Safe == Held /\ Wire /\ Books /\ Flags
Effect == Held' /\ Grows /\ Books' /\ Flags' /\ Lasting /\ Exchange /\ Booking

LEMMA Undisturbed ==
    ASSUME Held, Books, UNCHANGED <<log, got, rows, cards, removed, behind, failures>>,
           \A d \in Devices : admitted'[d] \cap removed[d] \subseteq admitted[d]
    PROVE  Held' /\ Grows /\ Books' /\ Lasting /\ Booking
<1>1. Held' /\ Grows
  BY NothingNew
<1>2. Books' /\ Lasting /\ \A d \in Devices : Untouched(d)
  BY <1>1, BooksKept
<1>3. \A d \in Devices : Doc(d)' = Doc(d)
  BY DEF Doc
<1>4. \A d \in Devices : SameBooks(d)
  BY <1>2, <1>3 DEF SameBooks
<1>5. Host \in Devices
  BY DeviceAssumption
<1>6. Learning(Host)
  BY <1>4, <1>5 DEF Learning
<1> QED
  BY <1>1, <1>2, <1>4, <1>5, <1>6 DEF Booking

\* An end whose device neither says anything nor changes its mind holds.
LEMMA HoldsStill ==
    ASSUME NEW x \in Devices, NEW y \in Devices,
           sync'[x][y] = sync[x][y], chan'[x][y] = chan[x][y],
           y \in admitted'[x] <=> y \in admitted[x],
           removed[x] \subseteq removed'[x], version' = version,
           unsent'[x] = unsent[x], Doc(x)' = Doc(x)
    PROVE  Hold(x, y)
  BY DEF Hold, Waits, Talks

LEMMA ForgetExchange ==
    ASSUME Wire, NEW pairs, Forget(pairs),
           UNCHANGED <<log, got, removed, unsent>>,
           \A x, y \in Devices : {x, y} \in Links /\ {x, y} \notin pairs =>
               version'[x] = version[x] /\ version'[y] = version[y]
    PROVE  Exchange
<1> DEFINE kept(x) == {y \in admitted[x] : {x, y} \notin pairs}
           said(x, y) == IF {x, y} \in pairs THEN FreshSync ELSE sync[x][y]
           sent(x, y) == IF {x, y} \in pairs THEN <<>> ELSE chan[x][y]
<1>1. /\ admitted' = [x \in Devices |-> kept(x)]
      /\ sync' = [x \in Devices |-> [y \in Devices |-> said(x, y)]]
      /\ chan' = [x \in Devices |-> [y \in Devices |-> sent(x, y)]]
  BY Zenon DEF Forget
<1>2. \A x, y \in Devices :
         /\ {x, y} \in pairs => said(x, y) = FreshSync /\ sent(x, y) = <<>> /\ y \notin kept(x)
         /\ {x, y} \notin pairs =>
               /\ said(x, y) = sync[x][y] /\ sent(x, y) = chan[x][y]
               /\ y \in kept(x) <=> y \in admitted[x]
         /\ y \in kept(x) => {x, y} \in Links
  BY DEF Wire
<1>3. \A x \in Devices : kept(x) \in SUBSET Devices
  BY DEF Wire
<1> HIDE DEF kept, said, sent
<1>4. \A x, y \in Devices : /\ admitted'[x] = kept(x)
                            /\ sync'[x][y] = said(x, y) /\ chan'[x][y] = sent(x, y)
  BY <1>1
<1>5. Table(sync') /\ Table(chan') /\ admitted' \in [Devices -> SUBSET Devices]
  BY <1>1, <1>3, <1>4 DEF Table
<1>6. ASSUME NEW x \in Devices, NEW y \in Devices
      PROVE  (y \in admitted'[x] => {x, y} \in Links) /\ Meet(x, y)
  <2>0. {x, y} = {y, x} /\ Doc(x)' = Doc(x) /\ Doc(y)' = Doc(y)
    BY DEF Doc
  <2>1. CASE {x, y} \in pairs
    BY <1>2, <1>4, <2>0, <2>1 DEF Meet, Cut
  <2>2. CASE {x, y} \notin pairs
    <3>1. /\ y \in admitted'[x] <=> y \in admitted[x]
          /\ x \in admitted'[y] <=> x \in admitted[y]
          /\ sync'[x][y] = sync[x][y] /\ chan'[x][y] = chan[x][y]
          /\ sync'[y][x] = sync[y][x] /\ chan'[y][x] = chan[y][x]
      BY <1>2, <1>4, <2>0, <2>2
    <3>2. y \in admitted[x] \/ x \in admitted[y] =>
             version'[x] = version[x] /\ version'[y] = version[y]
      BY <2>0, <2>2 DEF Wire
    <3>3. Hold(x, y) /\ Hold(y, x)
      BY <2>0, <3>1, <3>2 DEF Hold, Waits, Talks
    <3> QED
      BY <1>2, <1>4, <3>3 DEF Meet
  <2> QED
    BY <2>1, <2>2
<1> QED
  BY <1>5, <1>6 DEF Exchange

LEMMA DisconnectEffect ==
    ASSUME Safe, NEW d \in Devices, NEW p \in Devices, Disconnect(d, p)
    PROVE  Effect
<1>1. /\ Forget({{d, p}}) /\ cuts' = cuts + 1
      /\ UNCHANGED <<log, got, rows, cards, removed, behind, unsent, version, failures, drops>>
  BY DEF Disconnect
<1>2. Exchange
  BY <1>1, ForgetExchange DEF Safe
<1>3. \A x \in Devices : admitted'[x] \subseteq admitted[x]
  BY <1>1 DEF Forget
<1>4. Held' /\ Grows /\ Books' /\ Lasting /\ Booking
  BY <1>1, <1>3, Undisturbed DEF Safe
<1>5. Flags'
  BY <1>1 DEF Safe, Flags
<1> QED
  BY <1>2, <1>4, <1>5 DEF Effect

LEMMA UpgradeEffect ==
    ASSUME Safe, NEW d \in Devices, Upgrade(d)
    PROVE  Effect
<1>1. /\ Forget({pair \in Links : d \in pair}) /\ version' = [version EXCEPT ![d] = 1]
      /\ UNCHANGED <<log, got, rows, cards, removed, behind, unsent, cuts, drops, failures>>
  BY DEF Upgrade, faults
<1> DEFINE pairs == {pair \in Links : d \in pair}
<1>2. \A x, y \in Devices : {x, y} \in Links /\ {x, y} \notin pairs =>
         version'[x] = version[x] /\ version'[y] = version[y]
  BY <1>1 DEF Safe, Flags
<1>6. Forget(pairs)
  BY <1>1
<1> HIDE DEF pairs
<1>7. Exchange
  BY <1>1, <1>2, <1>6, ForgetExchange DEF Safe
<1>3. \A x \in Devices : admitted'[x] \subseteq admitted[x]
  BY <1>6 DEF Forget
<1>4. Held' /\ Grows /\ Books' /\ Lasting /\ Booking
  BY <1>1, <1>3, Undisturbed DEF Safe
<1>5. Flags'
  BY <1>1 DEF Safe, Flags
<1> QED
  BY <1>7, <1>4, <1>5 DEF Effect

LEMMA LostExchange ==
    ASSUME Wire, NEW d \in Devices, NEW p \in Devices, chan[p][d] # <<>>,
           chan' = Entered(chan, p, d, Tail(chan[p][d])),
           UNCHANGED <<log, got, removed, unsent, version, admitted, sync>>,
           ~Talks(d, p) \/ drops' # drops
    PROVE  Exchange
<1>1. d # p
  BY LinkedApart DEF Wire
<1>2. /\ Table(chan') /\ chan'[p][d] = Tail(chan[p][d])
      /\ \A x, y \in Devices : x # p \/ y # d => chan'[x][y] = chan[x][y]
  <2> DEFINE rest == Tail(chan[p][d])
  <2>1. chan' = Entered(chan, p, d, rest) /\ Table(chan)
    BY DEF Wire
  <2> HIDE DEF rest
  <2>2. /\ Table(chan') /\ chan'[p][d] = rest
        /\ \A x, y \in Devices : x # p \/ y # d => chan'[x][y] = chan[x][y]
    BY <2>1, TableEntry
  <2> QED
    BY <2>2 DEF rest
<1>3. \A x \in Devices : Doc(x)' = Doc(x)
  BY DEF Doc
<1>4. \A x, y \in Devices : Waits(x, y)
  BY <1>3 DEF Waits, Talks
<1>5. \A x, y \in Devices : x # p \/ y # d => Hold(x, y)
  BY <1>2, <1>4 DEF Hold
<1>6. Lose(d, p)
  BY <1>1, <1>2, <1>4, <1>5 DEF Lose, Taken, Talks
<1>7. ASSUME NEW x \in Devices, NEW y \in Devices
      PROVE  Meet(x, y)
  <2>1. CASE x = d /\ y = p
    BY <1>6, <2>1 DEF Meet
  <2>2. CASE x = p /\ y = d
    BY <1>6, <2>2 DEF Meet
  <2>3. CASE ~(x = d /\ y = p) /\ ~(x = p /\ y = d)
    BY <1>5, <2>3 DEF Meet
  <2> QED
    BY <2>1, <2>2, <2>3
<1>8. Table(sync') /\ admitted' \in [Devices -> SUBSET Devices]
      /\ \A x, y \in Devices : y \in admitted'[x] => {x, y} \in Links
  BY DEF Wire, Table
<1> QED
  BY <1>2, <1>7, <1>8 DEF Exchange

LEMMA DropEffect ==
    ASSUME Safe, NEW d \in Devices, NEW p \in Devices, Drop(d, p)
    PROVE  Effect
<1>1. /\ chan[d][p] # <<>> /\ drops' = drops + 1
      /\ chan' = Entered(chan, d, p, Tail(chan[d][p]))
      /\ UNCHANGED <<log, got, rows, cards, removed, behind, unsent, version,
                     admitted, sync, cuts, failures>>
  BY DEF Drop, Entered
<1>2. drops' # drops /\ Flags'
  BY <1>1 DEF Safe, Flags
<1>3. Exchange
  BY <1>1, <1>2, LostExchange DEF Safe
<1>4. Held' /\ Grows /\ Books' /\ Lasting /\ Booking
  BY <1>1, Undisturbed DEF Safe
<1> QED
  BY <1>2, <1>3, <1>4 DEF Effect

LEMMA RefuseEffect ==
    ASSUME Safe, NEW d \in Devices, NEW p \in Devices, Refuse(d, p)
    PROVE  Effect
<1>1. /\ chan[p][d] # <<>> /\ ~Talks(d, p)
      /\ chan' = Entered(chan, p, d, Tail(chan[p][d]))
      /\ UNCHANGED <<log, got, rows, cards, removed, behind, unsent, version,
                     admitted, sync, cuts, failures, drops>>
  BY DEF Refuse, Talks, faults, Entered
<1>2. Flags'
  BY <1>1 DEF Safe, Flags
<1>3. Exchange
  BY <1>1, LostExchange DEF Safe
<1>4. Held' /\ Grows /\ Books' /\ Lasting /\ Booking
  BY <1>1, Undisturbed DEF Safe
<1> QED
  BY <1>2, <1>3, <1>4 DEF Effect

LEMMA AdmitEffect ==
    ASSUME Safe, NEW d \in Devices, NEW p \in Devices, Admit(d, p)
    PROVE  Effect
<1>1. /\ {d, p} \in Links /\ p \notin admitted[d] /\ p \notin removed[d]
      /\ admitted' = [admitted EXCEPT ![d] = admitted[d] \cup {p}]
      /\ UNCHANGED <<log, got, rows, cards, removed, behind, unsent, version,
                     cuts, drops, failures>>
  BY DEF Admit, faults
<1>2. d # p /\ Wire
  BY <1>1, LinkedApart DEF Safe
<1>3. \A x \in Devices : Doc(x)' = Doc(x)
  BY <1>1 DEF Doc
<1>4. /\ admitted' \in [Devices -> SUBSET Devices] /\ admitted'[d] = admitted[d] \cup {p}
      /\ \A x \in Devices \ {d} : admitted'[x] = admitted[x]
  BY <1>1, <1>2 DEF Wire
<1>5. Held' /\ Grows /\ Books' /\ Lasting /\ Booking
  <2>1. \A x \in Devices : admitted'[x] \cap removed[x] \subseteq admitted[x]
    BY <1>1, <1>4
  <2> QED
    BY <1>1, <2>1, Undisturbed DEF Safe
<1>6. \A x, y \in Devices : x # d \/ y # p => Waits(x, y)
  BY <1>1, <1>3, <1>4 DEF Waits, Talks
<1>7. sync[d][p] = FreshSync
  BY <1>1, <1>2 DEF Wire
<1>8. \A x, y \in Devices : y \in admitted'[x] => {x, y} \in Links
  BY <1>1, <1>2, <1>4 DEF Wire
<1>9. ASSUME MaySync(d, p)
      PROVE  Exchange
  <2>1. /\ sync' = Entered(sync, d, p, Advanced(Doc(d), sync[d][p])) /\ Table(sync)
        /\ chan' = Entered(chan, d, p, Told(Doc(d), sync[d][p], chan[d][p])) /\ Table(chan)
    BY <1>2, <1>9 DEF Admit, Entered, Wire
  <2>2. /\ Table(sync') /\ sync'[d][p] = Advanced(Doc(d), sync[d][p])
        /\ \A x, y \in Devices : x # d \/ y # p => sync'[x][y] = sync[x][y]
    BY <2>1, TableEntry
  <2>3. /\ Table(chan') /\ chan'[d][p] = Told(Doc(d), sync[d][p], chan[d][p])
        /\ \A x, y \in Devices : x # d \/ y # p => chan'[x][y] = chan[x][y]
    BY <2>1, TableEntry
  <2>4. Talks(d, p)'
    BY <1>1, <1>4, <1>9 DEF Talks, MaySync
  <2>5. Say(d, p, sync[d][p])
    BY <1>3, <1>7, <2>2, <2>3, <2>4 DEF Say
  <2>6. \A x, y \in Devices : x # d \/ y # p => Hold(x, y)
    BY <1>6, <2>2, <2>3 DEF Hold
  <2>7. ASSUME NEW x \in Devices, NEW y \in Devices
        PROVE  Meet(x, y)
    <3>1. CASE x = d /\ y = p
      BY <1>2, <2>5, <2>6, <3>1 DEF Meet
    <3>2. CASE x = p /\ y = d
      BY <1>2, <2>5, <2>6, <3>2 DEF Meet
    <3>3. CASE ~(x = d /\ y = p) /\ ~(x = p /\ y = d)
      BY <2>6, <3>3 DEF Meet
    <3> QED
      BY <3>1, <3>2, <3>3
  <2> QED
    <3>1. \A x, y \in Devices : (y \in admitted'[x] => {x, y} \in Links) /\ Meet(x, y)
      BY <1>8, <2>7, Zenon
    <3> QED
      BY <1>4, <2>2, <2>3, <3>1, Zenon DEF Exchange
<1>10. ASSUME ~MaySync(d, p)
       PROVE  Exchange
  <2>1. UNCHANGED <<sync, chan>>
    BY <1>10 DEF Admit
  <2>2. ~Talks(d, p)'
    BY <1>1, <1>10 DEF Talks, MaySync
  <2>3. Waits(d, p)
    BY <1>4, <2>2 DEF Waits
  <2>4. \A x, y \in Devices : Hold(x, y)
    BY <1>6, <2>1, <2>3 DEF Hold
  <2>5. Table(sync') /\ Table(chan')
    BY <1>2, <2>1 DEF Wire
  <2>6. \A x, y \in Devices : (y \in admitted'[x] => {x, y} \in Links) /\ Meet(x, y)
    BY <1>8, <2>4, Zenon DEF Meet
  <2>7. admitted' \in [Devices -> SUBSET Devices]
    BY <1>4
  <2> QED
    BY <2>5, <2>6, <2>7 DEF Exchange
<1>11. Flags'
  BY <1>1 DEF Safe, Flags
<1> QED
  BY <1>5, <1>9, <1>10, <1>11 DEF Effect

-----------------------------------------------------------------------------
(* The steps in which a device speaks.                                     *)

\* d speaks after its document grew or not: it tells every peer it has news
\* for, or will when the save window closes.
Speaks(d, held, states, peers, gone, inbox) ==
    /\ Speak(d, held, states, peers, gone, inbox)
    /\ DocOf(log', held) = Doc(d)'
    /\ peers \subseteq admitted[d] /\ gone \subseteq admitted[d]
    /\ version' = version
    /\ \A x \in Devices : removed[x] \subseteq removed'[x]
    /\ \A x \in Devices \ {d} : Doc(x)' = Doc(x) /\ unsent'[x] = unsent[x]
    /\ \/ peers = admitted[d] \/ unsent'[d]
       \/ Doc(d)' = Doc(d) /\ unsent'[d] = unsent[d]

LEMMA Distinct ==
    ASSUME Wire, NEW x \in Devices
    PROVE  x \notin admitted[x]
  BY LinkedApart DEF Wire

LEMMA SpeaksTables ==
    ASSUME Wire, NEW d \in Devices, NEW held, NEW states, NEW peers, NEW gone, NEW inbox,
           Speaks(d, held, states, peers, gone, inbox)
    PROVE  /\ Table(sync') /\ Table(chan') /\ admitted' \in [Devices -> SUBSET Devices]
           /\ \A x, y \in Devices : y \in admitted'[x] => y \in admitted[x] /\ {x, y} \in Links
           /\ gone \in SUBSET (Devices \ {d})
           /\ \A y \in gone : y \notin admitted'[d]
<1>1. gone \in SUBSET (Devices \ {d}) /\ admitted \in [Devices -> SUBSET Devices]
  BY Distinct DEF Speaks, Wire
<1>2. Speak(d, held, states, peers, gone, inbox)
  BY DEF Speaks
<1>3. /\ Table(sync') /\ Table(chan') /\ admitted' \in [Devices -> SUBSET Devices]
      /\ \A x, y \in Devices : y \in admitted'[x] <=> y \in admitted[x] /\ ~HungUp(d, gone, x, y)
  BY <1>1, <1>2, Spoken
<1>4. \A x, y \in Devices : y \in admitted'[x] => y \in admitted[x] /\ {x, y} \in Links
  BY <1>3 DEF Wire
<1>5. \A y \in gone : y \notin admitted'[d]
  BY <1>1, <1>3 DEF HungUp
<1> QED
  BY <1>1, <1>3, <1>4, <1>5

\* A connection d has no part in.
LEMMA SpeaksAside ==
    ASSUME Wire, NEW d \in Devices, NEW held, NEW states, NEW peers, NEW gone, NEW inbox,
           Speaks(d, held, states, peers, gone, inbox),
           NEW x \in Devices \ {d}, NEW y \in Devices \ {d}
    PROVE  sync'[x][y] = sync[x][y] /\ chan'[x][y] = inbox[x][y] /\ Waits(x, y)
<1>1. gone \in SUBSET (Devices \ {d}) /\ admitted \in [Devices -> SUBSET Devices]
  BY SpeaksTables DEF Wire
<1>2. Speak(d, held, states, peers, gone, inbox)
  BY DEF Speaks
<1>3. ~HungUp(d, gone, x, y)
  BY DEF HungUp
<1>4. /\ y \in admitted'[x] <=> y \in admitted[x]
      /\ sync'[x][y] = sync[x][y] /\ chan'[x][y] = inbox[x][y]
  BY <1>1, <1>2, <1>3, Spoken
<1> QED
  BY <1>4 DEF Waits, Talks, Speaks

\* The other end of a connection of d.
LEMMA SpeaksAcross ==
    ASSUME Wire, NEW d \in Devices, NEW held, NEW states, NEW peers, NEW gone, NEW inbox,
           Speaks(d, held, states, peers, gone, inbox), NEW y \in Devices \ {d}
    PROVE  IF y \in gone THEN Cut(d, y)
           ELSE sync'[y][d] = sync[y][d] /\ chan'[y][d] = inbox[y][d] /\ Waits(y, d)
<1>1. gone \in SUBSET (Devices \ {d}) /\ admitted \in [Devices -> SUBSET Devices]
  BY SpeaksTables DEF Wire
<1>2. Speak(d, held, states, peers, gone, inbox)
  BY DEF Speaks
<1>3. (HungUp(d, gone, y, d) <=> y \in gone) /\ (HungUp(d, gone, d, y) <=> y \in gone)
  BY <1>1 DEF HungUp
<1>4. CASE y \in gone
  <2>1. /\ d \notin admitted'[y] /\ y \notin admitted'[d]
        /\ sync'[y][d] = FreshSync /\ chan'[y][d] = <<>>
        /\ sync'[d][y] = FreshSync /\ chan'[d][y] = <<>>
    BY <1>1, <1>2, <1>3, <1>4, Spoken
  <2> QED
    BY <1>4, <2>1 DEF Cut
<1>5. CASE y \notin gone
  <2>1. /\ d \in admitted'[y] <=> d \in admitted[y]
        /\ sync'[y][d] = sync[y][d] /\ chan'[y][d] = inbox[y][d]
    BY <1>1, <1>2, <1>3, <1>5, Spoken
  <2>2. Waits(y, d)
    BY <2>1 DEF Waits, Talks, Speaks
  <2> QED
    BY <1>5, <2>1, <2>2
<1> QED
  BY <1>4, <1>5

\* The end of d itself: it speaks, or it has nothing to say.
LEMMA SpeaksHere ==
    ASSUME Wire, NEW d \in Devices, NEW held, NEW states, NEW peers, NEW gone, NEW inbox,
           Speaks(d, held, states, peers, gone, inbox), NEW y \in Devices \ gone
    PROVE  \/ /\ Talks(d, y)' /\ Talks(d, y)
              /\ sync'[d][y] = Advanced(Doc(d)', states[y])
              /\ chan'[d][y] = Told(Doc(d)', states[y], inbox[d][y])
           \/ /\ sync'[d][y] = states[y] /\ chan'[d][y] = inbox[d][y]
              /\ Waits(d, y) /\ ~(y \in peers /\ Talks(d, y)')
<1>1. gone \in SUBSET (Devices \ {d}) /\ admitted \in [Devices -> SUBSET Devices]
  BY SpeaksTables DEF Wire
<1>2. Speak(d, held, states, peers, gone, inbox)
  BY DEF Speaks
<1>3. ~HungUp(d, gone, d, y)
  BY <1>1 DEF HungUp
<1>4. y \in admitted'[d] <=> y \in admitted[d]
  BY <1>1, <1>2, <1>3, Spoken
<1>5. Talks(d, y)' => Talks(d, y) /\ MaySync(d, y)
  BY <1>4 DEF Talks, MaySync, Speaks
<1>8. \A z \in Devices \ gone :
         /\ z \in peers /\ MaySync(d, z) =>
               /\ sync'[d][z] = Advanced(DocOf(log', held), states[z])
               /\ chan'[d][z] = Told(DocOf(log', held), states[z], inbox[d][z])
         /\ ~(z \in peers /\ MaySync(d, z)) =>
               sync'[d][z] = states[z] /\ chan'[d][z] = inbox[d][z]
  <2>1. SaysTo(d, held, states, peers, gone, inbox)
    BY <1>1, <1>2, Spoken
  <2> QED
    BY <2>1, Zenon DEF SaysTo
<1>6. CASE y \in peers /\ MaySync(d, y)
  <2>1. /\ sync'[d][y] = Advanced(DocOf(log', held), states[y])
        /\ chan'[d][y] = Told(DocOf(log', held), states[y], inbox[d][y])
    BY <1>6, <1>8, Zenon
  <2>2. Talks(d, y)'
    BY <1>4, <1>6 DEF Talks, MaySync, Speaks
  <2> QED
    BY <1>5, <2>1, <2>2 DEF Speaks
<1>7. CASE ~(y \in peers /\ MaySync(d, y))
  <2>1. sync'[d][y] = states[y] /\ chan'[d][y] = inbox[d][y]
    BY <1>7, <1>8, Zenon
  <2>2. ~(y \in peers /\ Talks(d, y)')
    BY <1>5, <1>7
  <2>3. Waits(d, y)
    BY <1>4, <1>5, <2>2 DEF Waits, Speaks, Talks
  <2> QED
    BY <2>1, <2>2, <2>3
<1> QED
  BY <1>6, <1>7

LEMMA SpeaksExchange ==
    ASSUME Wire, NEW d \in Devices, NEW held, NEW peers, NEW gone,
           Speaks(d, held, sync[d], peers, gone, chan)
    PROVE  Exchange
<1>1. /\ Table(sync') /\ Table(chan') /\ admitted' \in [Devices -> SUBSET Devices]
      /\ \A x, y \in Devices : y \in admitted'[x] => y \in admitted[x] /\ {x, y} \in Links
      /\ gone \in SUBSET (Devices \ {d})
  BY SpeaksTables
<1>2. \A x, y \in Devices \ {d} : Hold(x, y)
  BY SpeaksAside DEF Hold
<1>3. ASSUME NEW y \in Devices \ {d}
      PROVE  Meet(d, y)
  <2>1. CASE y \in gone
    BY <2>1, SpeaksAcross DEF Meet
  <2>2. CASE y \notin gone
    <3>1. Hold(y, d)
      BY <2>2, SpeaksAcross DEF Hold
    <3>2. Say(d, y, sync[d][y]) \/ Hold(d, y)
      BY <2>2, SpeaksHere DEF Say, Hold
    <3> QED
      BY <3>1, <3>2 DEF Meet
  <2> QED
    BY <2>1, <2>2
<1>4. Hold(d, d)
  <2>1. d \notin gone /\ ~Talks(d, d)'
    BY <1>1, Distinct DEF Talks
  <2> QED
    BY <2>1, SpeaksHere DEF Hold
<1>5. ASSUME NEW x \in Devices, NEW y \in Devices
      PROVE  (y \in admitted'[x] => {x, y} \in Links) /\ Meet(x, y)
  <2>1. Meet(x, y)
    <3>1. CASE x # d /\ y # d
      BY <1>2, <3>1 DEF Meet
    <3>2. CASE x = d /\ y # d
      BY <1>3, <3>2
    <3>3. CASE x # d /\ y = d
      BY <1>3, <3>3, MeetIsMutual
    <3>4. CASE x = d /\ y = d
      BY <1>4, <3>4 DEF Meet
    <3> QED
      BY <3>1, <3>2, <3>3, <3>4
  <2> QED
    BY <1>1, <2>1
<1> QED
  BY <1>1, <1>5 DEF Exchange

LEMMA HearsExchange ==
    ASSUME Wire, NEW d \in Devices, NEW p \in Devices, NEW held, NEW states, NEW peers,
           NEW gone, NEW inbox, Speaks(d, held, states, peers, gone, inbox),
           chan[p][d] # <<>>, Talks(d, p), p \in peers, p \notin gone => Talks(d, p)',
           states[p] = Heard(Doc(d), sync[d][p], Head(chan[p][d])),
           \A y \in Devices \ {p} : states[y] = sync[d][y],
           inbox = Entered(chan, p, d, Tail(chan[p][d]))
    PROVE  Exchange
<1>1. /\ Table(sync') /\ Table(chan') /\ admitted' \in [Devices -> SUBSET Devices]
      /\ \A x, y \in Devices : y \in admitted'[x] => y \in admitted[x] /\ {x, y} \in Links
      /\ gone \in SUBSET (Devices \ {d})
  BY SpeaksTables
<1>2. p # d
  BY Distinct DEF Talks
<1>3. /\ inbox[p][d] = Tail(chan[p][d])
      /\ \A x, y \in Devices : x # p \/ y # d => inbox[x][y] = chan[x][y]
  <2> DEFINE rest == Tail(chan[p][d])
  <2>1. inbox = Entered(chan, p, d, rest) /\ Table(chan)
    BY DEF Wire
  <2> HIDE DEF rest
  <2>2. /\ inbox[p][d] = rest
        /\ \A x, y \in Devices : x # p \/ y # d => inbox[x][y] = chan[x][y]
    BY <2>1, TableEntry
  <2> QED
    BY <2>2 DEF rest
<1>4. \A x, y \in Devices \ {d} : Hold(x, y)
  BY <1>3, SpeaksAside DEF Hold
<1>5. ASSUME NEW y \in Devices \ {d}
      PROVE  Meet(d, y)
  <2>1. CASE y \in gone
    BY <2>1, SpeaksAcross DEF Meet
  <2>2. CASE y \notin gone /\ y # p
    <3>1. Hold(y, d)
      BY <1>3, <2>2, SpeaksAcross DEF Hold
    <3>2. states[y] = sync[d][y] /\ inbox[d][y] = chan[d][y]
      BY <1>2, <1>3, <2>2
    <3>3. Say(d, y, sync[d][y]) \/ Hold(d, y)
      BY <2>2, <3>2, SpeaksHere DEF Say, Hold
    <3> QED
      BY <3>1, <3>3 DEF Meet
  <2>3. CASE y \notin gone /\ y = p
    <3>1. sync'[p][d] = sync[p][d] /\ chan'[p][d] = Tail(chan[p][d]) /\ Waits(p, d)
      BY <1>3, <2>3, SpeaksAcross
    <3>2. inbox[d][p] = chan[d][p]
      BY <1>2, <1>3
    <3>3. /\ Talks(d, p)' /\ sync'[d][p] = Advanced(Doc(d)', states[p])
          /\ chan'[d][p] = Told(Doc(d)', states[p], chan[d][p])
      BY <2>3, <3>2, SpeaksHere
    <3>4. Hear(d, p)
      BY <3>1, <3>3 DEF Hear, Taken, Say
    <3> QED
      BY <2>3, <3>4 DEF Meet
  <2> QED
    BY <2>1, <2>2, <2>3
<1>6. Hold(d, d)
  <2>1. d \notin gone /\ ~Talks(d, d)' /\ states[d] = sync[d][d] /\ inbox[d][d] = chan[d][d]
    BY <1>1, <1>2, <1>3, Distinct DEF Talks
  <2> QED
    BY <2>1, SpeaksHere DEF Hold
<1>7. ASSUME NEW x \in Devices, NEW y \in Devices
      PROVE  (y \in admitted'[x] => {x, y} \in Links) /\ Meet(x, y)
  <2>1. Meet(x, y)
    <3>1. CASE x # d /\ y # d
      BY <1>4, <3>1 DEF Meet
    <3>2. CASE x = d /\ y # d
      BY <1>5, <3>2
    <3>3. CASE x # d /\ y = d
      BY <1>5, <3>3, MeetIsMutual
    <3>4. CASE x = d /\ y = d
      BY <1>6, <3>4 DEF Meet
    <3> QED
      BY <3>1, <3>2, <3>3, <3>4
  <2> QED
    BY <1>1, <2>1
<1> QED
  BY <1>1, <1>7 DEF Exchange

LEMMA BroadcastEffect ==
    ASSUME Safe, NEW d \in Devices, Broadcast(d)
    PROVE  Effect
<1>1. /\ unsent' = [unsent EXCEPT ![d] = FALSE]
      /\ UNCHANGED <<log, got, rows, cards, removed, behind, version, cuts, drops, failures>>
      /\ Speak(d, got[d], sync[d], admitted[d], {}, chan)
  BY DEF Broadcast, faults
<1>2. Wire /\ Flags'
  BY <1>1 DEF Safe, Flags
<1>3. \A x \in Devices : Doc(x)' = Doc(x)
  BY <1>1 DEF Doc
<1>4. \A x \in Devices \ {d} : unsent'[x] = unsent[x]
  BY <1>1 DEF Safe, Flags
<1>5. DocOf(log', got[d]) = Doc(d)'
  BY <1>1 DEF Doc
<1>6. Speaks(d, got[d], sync[d], admitted[d], {}, chan)
  BY <1>1, <1>3, <1>4, <1>5 DEF Speaks
<1>7. Exchange
  BY <1>2, <1>6, SpeaksExchange
<1>8. \A x \in Devices : admitted'[x] \subseteq admitted[x]
  <2>1. admitted' \in [Devices -> SUBSET Devices]
        /\ \A x, y \in Devices : y \in admitted'[x] => y \in admitted[x]
    BY <1>2, <1>6, SpeaksTables
  <2> QED
    BY <2>1
<1>9. Held' /\ Grows /\ Books' /\ Lasting /\ Booking
  BY <1>1, <1>8, Undisturbed DEF Safe
<1> QED
  BY <1>2, <1>7, <1>9 DEF Effect

\* What is minted is not said at once: the window holds it.
LEMMA WindowExchange ==
    ASSUME Wire, NEW d \in Devices, UNCHANGED <<admitted, sync, chan, removed, version>>,
           unsent'[d], \A x \in Devices \ {d} : Doc(x)' = Doc(x) /\ unsent'[x] = unsent[x]
    PROVE  Exchange
<1>1. \A x, y \in Devices : Hold(x, y)
  BY DEF Hold, Waits, Talks
<1>2. \A x, y \in Devices : (y \in admitted'[x] => {x, y} \in Links) /\ Meet(x, y)
  BY <1>1 DEF Meet, Wire
<1>3. Table(sync') /\ Table(chan') /\ admitted' \in [Devices -> SUBSET Devices]
  BY DEF Wire
<1> QED
  BY <1>2, <1>3 DEF Exchange

LEMMA UnsentFlag ==
    ASSUME Flags, NEW d \in Devices, unsent' = [unsent EXCEPT ![d] = TRUE],
           UNCHANGED <<version, cuts, drops>>
    PROVE  /\ Flags' /\ unsent'[d]
           /\ \A x \in Devices \ {d} : unsent'[x] = unsent[x]
  BY DEF Flags

LEMMA WriteEffect ==
    ASSUME Safe, NEW d \in Devices, NEW f \in Fields, NEW v \in Values, Write(d, f, v)
    PROVE  Effect
<1>1. /\ Minted(d, f, v) /\ rows' = [rows EXCEPT ![d][f] = v]
      /\ unsent' = [unsent EXCEPT ![d] = TRUE]
      /\ UNCHANGED <<cards, removed, behind, version, admitted, sync, chan, cuts, drops, failures>>
  BY DEF Write, faults
<1>2. Held' /\ Grows /\ MintedOn(d, f, v)
  BY <1>1, MintingGrows DEF Safe
<1>3. /\ Flags' /\ unsent'[d] /\ \A x \in Devices \ {d} : unsent'[x] = unsent[x]
  BY <1>1, UnsentFlag DEF Safe
<1>4. \A x \in Devices \ {d} : Doc(x)' = Doc(x)
  BY <1>2 DEF MintedOn
<1>5. Exchange
  BY <1>1, <1>3, <1>4, WindowExchange DEF Safe
<1>6. rows' \in [Devices -> Rows] /\ \A e \in Devices \ {d} : rows'[e] = rows[e]
  <2>1. rows \in [Devices -> [Fields -> Values \cup {Blank}]]
    BY DEF Safe, Books, Rows
  <2> QED
    BY <1>1, <2>1 DEF Rows
<1>7. Books' /\ Lasting
  <2>1. \A e \in Devices : removed'[e] \subseteq RemovedBy(log', Doc(e)')
    BY <1>1, <1>2, RemovalsGrow DEF Safe, Books
  <2> QED
    BY <1>1, <1>6, <2>1 DEF Safe, Books, Lasting
<1>8. \A e \in Devices \ {d} : SameBooks(e)
  BY <1>1, <1>4, <1>6 DEF SameBooks, Untouched
<1>9. Minting(d)
  BY <1>1, <1>2 DEF Minting, WrittenBooks
<1> QED
  BY <1>2, <1>3, <1>5, <1>7, <1>8, <1>9 DEF Effect, Booking

\* The step of a device that projects and hangs up on the removed.
LEMMA HangsUp ==
    ASSUME Wire, NEW d \in Devices, NEW held, NEW states, NEW peers, NEW inbox,
           Speaks(d, held, states, peers, TornDown(d), inbox)
    PROVE  /\ ~behind'[d] => admitted'[d] \cap removed'[d] = {}
           /\ \A x \in Devices : admitted'[x] \subseteq admitted[x]
<1>1. /\ admitted' \in [Devices -> SUBSET Devices]
      /\ \A x, y \in Devices : y \in admitted'[x] => y \in admitted[x] /\ {x, y} \in Links
      /\ \A y \in TornDown(d) : y \notin admitted'[d]
  BY SpeaksTables
<1>2. \A x \in Devices : admitted'[x] \subseteq admitted[x]
  BY <1>1
<1> QED
  BY <1>1, <1>2 DEF TornDown

LEMMA ResolveEffect ==
    ASSUME Safe, NEW d \in Devices, NEW f \in Fields, NEW v \in Values, Resolve(d, f, v)
    PROVE  Effect
<1> DEFINE base == [rows[d] EXCEPT ![f] = v]
<1>1. /\ Minted(d, f, v) /\ Project(d, DocOf(log', got'[d]), base)
      /\ unsent' = [unsent EXCEPT ![d] = TRUE]
      /\ UNCHANGED <<version, cuts, drops>>
      /\ Speak(d, got'[d], sync[d], admitted[d], TornDown(d), chan)
  BY DEF Resolve
<1>2. Held' /\ Grows /\ MintedOn(d, f, v) /\ Wire
  BY <1>1, MintingGrows DEF Safe
<1>3. /\ Flags' /\ unsent'[d] /\ \A x \in Devices \ {d} : unsent'[x] = unsent[x]
  BY <1>1, UnsentFlag DEF Safe
<1>4. \A x \in Devices \ {d} : Doc(x)' = Doc(x)
  BY <1>2 DEF MintedOn
<1>5. DocOf(log', got'[d]) = Doc(d)'
  BY DEF Doc
<1>6. base \in Rows /\ base[f] = v /\ \A g \in Fields : g # f => base[g] = rows[d][g]
  <2>1. rows[d] \in [Fields -> Values \cup {Blank}]
    BY DEF Safe, Books, Rows
  <2> QED
    BY <2>1 DEF Rows
<1> HIDE DEF base
<1>7. Books' /\ Lasting /\ Projected(d, base)
  BY <1>1, <1>2, <1>5, <1>6, ProjectionBooks DEF Safe
<1>8. TornDown(d) \subseteq admitted[d]
  BY DEF TornDown
<1>9. Speaks(d, got'[d], sync[d], admitted[d], TornDown(d), chan)
  BY <1>1, <1>3, <1>4, <1>5, <1>7, <1>8 DEF Speaks, Lasting
<1>10. Exchange
  BY <1>2, <1>9, SpeaksExchange
<1>11. /\ ~behind'[d] => admitted'[d] \cap removed'[d] = {}
       /\ \A x \in Devices : admitted'[x] \subseteq admitted[x]
  BY <1>2, <1>9, HangsUp
<1>12. Shows(log', Doc(d)', f) = v
  <2>1. /\ Mints(log, log', Doc(d), Len(log) + 1) /\ log'[Len(log) + 1].field = f
        /\ log'[Len(log) + 1].val = v /\ Doc(d)' = With(Doc(d), Len(log) + 1)
    BY <1>2 DEF MintedOn
  <2> QED
    BY <2>1, MintedField
<1>13. ProjectedBooks(d)
  BY <1>6, <1>7, <1>11, <1>12 DEF ProjectedBooks
<1>14. \A e \in Devices \ {d} : SameBooks(e)
  BY <1>4, <1>7, <1>11 DEF SameBooks, Projected
<1>15. Minting(d)
  BY <1>2, <1>13 DEF Minting
<1> QED
  BY <1>2, <1>3, <1>7, <1>10, <1>14, <1>15 DEF Effect, Booking

LEMMA RevokeDeviceEffect ==
    ASSUME Safe, NEW t \in Removable, RevokeDevice(t)
    PROVE  Effect
<1> DEFINE gone == admitted[Host] \cap {t}
<1>1. /\ Minted(Host, t, "removed") /\ Host \in Devices
      /\ removed' = [removed EXCEPT ![Host] = removed[Host] \cup {t}]
      /\ unsent' = [unsent EXCEPT ![Host] = TRUE]
      /\ UNCHANGED <<rows, cards, behind, version, cuts, drops, failures>>
      /\ Speak(Host, got'[Host], sync[Host], {}, gone, chan)
  BY DeviceAssumption DEF RevokeDevice, faults
<1>2. t \in Fields \cup Removable /\ "removed" \in Values \cup {"removed"} /\ t \notin Fields
  BY DeviceAssumption
<1>3. Held' /\ Grows /\ MintedOn(Host, t, "removed") /\ Wire
  BY <1>1, <1>2, MintingGrows DEF Safe
<1>4. /\ Flags' /\ unsent'[Host] /\ \A x \in Devices \ {Host} : unsent'[x] = unsent[x]
  BY <1>1, UnsentFlag DEF Safe
<1>5. \A x \in Devices \ {Host} : Doc(x)' = Doc(x)
  BY <1>3 DEF MintedOn
<1>6. /\ removed' \in [Devices -> SUBSET Removable]
      /\ removed'[Host] = removed[Host] \cup {t}
      /\ \A e \in Devices \ {Host} : removed'[e] = removed[e]
  BY <1>1 DEF Safe, Books
<1>7. Books' /\ Lasting
  <2>1. /\ Mints(log, log', Doc(Host), Len(log) + 1)
        /\ log'[Len(log) + 1].field = t /\ Doc(Host)' = With(Doc(Host), Len(log) + 1)
    BY <1>3 DEF MintedOn
  <2>2. RemovedBy(log', Doc(Host)') = RemovedBy(log, Doc(Host)) \cup ({t} \cap Removable)
    BY <2>1, MintedRemovals
  <2>3. ASSUME NEW e \in Devices
        PROVE  removed'[e] \subseteq RemovedBy(log', Doc(e)') /\ removed[e] \subseteq removed'[e]
    <3>1. removed[e] \subseteq RemovedBy(log, Doc(e))
      BY DEF Safe, Books
    <3>2. RemovedBy(log, Doc(e)) \subseteq RemovedBy(log', Doc(e)')
      BY <1>3, RemovalsGrow DEF Safe
    <3> QED
      BY <1>6, <2>2, <3>1, <3>2
  <2> QED
    BY <1>1, <1>6, <2>3 DEF Safe, Books, Lasting
<1>8. DocOf(log', got'[Host]) = Doc(Host)'
  BY DEF Doc
<1>9. gone \subseteq admitted[Host]
  OBVIOUS
<1> HIDE DEF gone
<1>10. Speaks(Host, got'[Host], sync[Host], {}, gone, chan)
  BY <1>1, <1>4, <1>5, <1>7, <1>8, <1>9 DEF Speaks, Lasting
<1>11. Exchange
  BY <1>1, <1>3, <1>10, SpeaksExchange
<1>12. /\ \A x \in Devices : admitted'[x] \subseteq admitted[x]
       /\ \A y \in gone : y \notin admitted'[Host]
  <2>1. /\ admitted' \in [Devices -> SUBSET Devices]
        /\ \A x, y \in Devices : y \in admitted'[x] => y \in admitted[x]
        /\ \A y \in gone : y \notin admitted'[Host]
    BY <1>1, <1>3, <1>10, SpeaksTables
  <2> QED
    BY <2>1
<1>13. RevokedBooks(t)
  BY <1>1, <1>12 DEF RevokedBooks, gone
<1>14. Minting(Host)
  BY <1>3, <1>13 DEF Minting
<1>15. \A e \in Devices \ {Host} : SameBooks(e)
  BY <1>1, <1>5, <1>6, <1>12 DEF SameBooks, Untouched
<1> QED
  BY <1>1, <1>3, <1>4, <1>7, <1>11, <1>14, <1>15 DEF Effect, Booking

LEMMA FirstLetter ==
    ASSUME NEW q, NEW doc, Carries(q, doc), q # <<>>
    PROVE  /\ Head(q) \in Letter /\ Head(q).heads \subseteq doc /\ Head(q).changes \subseteq doc
           /\ Carries(Tail(q), doc)
<1>1. q \in Seq(Letter) /\ Len(q) \in Nat /\ Len(q) > 0
  BY DEF Carries
<1>2. Head(q) = q[1] /\ 1 \in 1..Len(q) /\ q[1] \in Letter
  BY <1>1
<1>3. Tail(q) \in Seq(Letter) /\ \A i \in 1..Len(Tail(q)) : i + 1 \in 1..Len(q) /\ Tail(q)[i] = q[i + 1]
  BY <1>1
<1> QED
  BY <1>2, <1>3 DEF Carries

LEMMA ReceiveEffect ==
    ASSUME Safe, NEW d \in Devices, NEW p \in Devices, Receive(d, p)
    PROVE  Effect
<1> DEFINE m == Head(chan[p][d])
           held == got[d] \cup m.changes
           states == [sync[d] EXCEPT ![p] = Heard(Doc(d), sync[d][p], m)]
           inbox == [chan EXCEPT ![p][d] = Tail(chan[p][d])]
<1>1. /\ chan[p][d] # <<>> /\ Talks(d, p)
      /\ got' = [got EXCEPT ![d] = held]
      /\ UNCHANGED <<log, unsent, version, cuts, drops>>
      /\ \/ /\ Project(d, DocOf(log, held), rows[d])
            /\ Speak(d, held, states, admitted[d], TornDown(d), inbox)
         \/ /\ DocOf(log, held) = Doc(d)
            /\ UNCHANGED <<rows, cards, removed, behind, failures>>
            /\ Speak(d, held, states, {p}, {}, inbox)
  BY DEF Receive, Talks
<1>2. Held /\ Wire /\ Books /\ p # d
  BY <1>1, Distinct DEF Safe, Talks
<1>3. m.changes \in SUBSET (1..Len(log))
  <2>1. Carries(chan[p][d], Doc(p)) /\ Doc(p) \subseteq 1..Len(log)
    BY <1>2, DocWithin DEF Wire
  <2> QED
    BY <1>1, <2>1, FirstLetter
<1>4. Held' /\ Grows
  BY <1>1, <1>2, <1>3, Merged
<1>5. /\ got'[d] = held /\ \A e \in Devices \ {d} : got'[e] = got[e]
  BY <1>1, <1>2 DEF Held
<1>6. DocOf(log, held) = Doc(d)' /\ \A e \in Devices \ {d} : Doc(e)' = Doc(e)
  BY <1>1, <1>5 DEF Doc
<1>7. /\ states[p] = Heard(Doc(d), sync[d][p], Head(chan[p][d]))
      /\ \A y \in Devices \ {p} : states[y] = sync[d][y]
  <2>1. sync[d] = [y \in Devices |-> sync[d][y]]
    BY <1>2 DEF Wire, Table
  <2> QED
    BY <2>1
<1>8. inbox = Entered(chan, p, d, Tail(chan[p][d]))
  BY DEF Entered
<1>9. Flags'
  BY <1>1 DEF Safe, Flags
<1>10. chan[p][d] # <<>> /\ got'[d] = got[d] \cup Head(chan[p][d]).changes
  BY <1>1, <1>5
<1> HIDE DEF m, held, states, inbox
<1>11. ASSUME Project(d, DocOf(log, held), rows[d]),
              Speak(d, held, states, admitted[d], TornDown(d), inbox)
       PROVE  Effect
  <2>1. rows[d] \in Rows /\ log' = log
    BY <1>1, <1>2 DEF Books
  <2>2. Books' /\ Lasting /\ Projected(d, rows[d])
    BY <1>2, <1>4, <1>6, <1>11, <2>1, ProjectionBooks
  <2>3. Speaks(d, held, states, admitted[d], TornDown(d), inbox)
    BY <1>1, <1>6, <1>11, <2>1, <2>2 DEF Speaks, TornDown, Lasting
  <2>4. p \in admitted[d] /\ (p \notin TornDown(d) => Talks(d, p)')
    <3>1. p \in admitted[d]
      BY <1>1 DEF Talks
    <3>2. ASSUME p \notin TornDown(d)
          PROVE  p \in admitted'[d] /\ p \notin removed'[d]
      <4>1. TornDown(d) \in SUBSET (Devices \ {d}) /\ admitted \in [Devices -> SUBSET Devices]
        BY <1>2, <2>3, SpeaksTables DEF Wire
      <4>2. ~HungUp(d, TornDown(d), d, p)
        BY <1>2, <3>2 DEF HungUp
      <4>3. p \in admitted'[d]
        BY <1>11, <3>1, <4>1, <4>2, Spoken
      <4>4. CASE behind'[d]
        BY <1>1, <2>2, <4>3, <4>4 DEF Projected, Talks
      <4>5. CASE ~behind'[d]
        BY <3>1, <3>2, <4>3, <4>5 DEF TornDown
      <4> QED
        BY <4>4, <4>5
    <3> QED
      BY <1>1, <3>1, <3>2 DEF Talks
  <2>5. Exchange
    BY <1>1, <1>2, <1>7, <1>8, <2>3, <2>4, HearsExchange
  <2>6. /\ ~behind'[d] => admitted'[d] \cap removed'[d] = {}
        /\ \A x \in Devices : admitted'[x] \subseteq admitted[x]
    BY <1>2, <2>3, HangsUp
  <2>7. ProjectedBooks(d)
    BY <2>1, <2>2, <2>6 DEF ProjectedBooks
  <2>8. Learning(d)
    BY <1>5, <1>10, <2>1, <2>7 DEF Learning
  <2>9. \A e \in Devices \ {d} : SameBooks(e)
    BY <1>6, <2>2, <2>6 DEF SameBooks, Projected
  <2> QED
    BY <1>4, <1>9, <2>2, <2>5, <2>8, <2>9 DEF Effect, Booking
<1>12. ASSUME DocOf(log, held) = Doc(d),
              UNCHANGED <<rows, cards, removed, behind, failures>>,
              Speak(d, held, states, {p}, {}, inbox)
       PROVE  Effect
  <2>1. Books' /\ Lasting /\ \A e \in Devices : Untouched(e)
    BY <1>2, <1>4, <1>12, BooksKept
  <2>2. Doc(d)' = Doc(d) /\ p \in admitted[d]
    BY <1>1, <1>6, <1>12 DEF Talks
  <2>3. Speaks(d, held, states, {p}, {}, inbox)
    BY <1>1, <1>6, <1>12, <2>2 DEF Speaks
  <2>4. Talks(d, p)'
    <3>1. {} \in SUBSET (Devices \ {d}) /\ admitted \in [Devices -> SUBSET Devices]
      BY <1>2 DEF Wire
    <3>2. ~HungUp(d, {}, d, p)
      BY DEF HungUp
    <3>3. p \in admitted'[d]
      BY <1>12, <2>2, <3>1, <3>2, Spoken
    <3> QED
      BY <1>1, <1>12, <3>3 DEF Talks
  <2>5. Exchange
    BY <1>1, <1>2, <1>7, <1>8, <2>3, <2>4, HearsExchange
  <2>6. \A x \in Devices : admitted'[x] \subseteq admitted[x]
    <3>1. /\ admitted' \in [Devices -> SUBSET Devices]
          /\ \A x, y \in Devices : y \in admitted'[x] => y \in admitted[x]
      BY <1>2, <2>3, SpeaksTables
    <3> QED
      BY <3>1
  <2>7. \A e \in Devices : SameBooks(e)
    BY <1>6, <2>1, <2>2, <2>6 DEF SameBooks
  <2>8. Learning(d)
    BY <1>1, <1>5, <1>10, <1>12, <2>7 DEF Learning
  <2> QED
    BY <1>4, <1>9, <2>1, <2>5, <2>7, <2>8 DEF Effect, Booking
<1> QED
  BY <1>1, <1>11, <1>12

LEMMA StutterEffect ==
    ASSUME Safe, UNCHANGED vars
    PROVE  Effect
<1>1. UNCHANGED <<log, got, rows, cards, removed, behind, unsent, version,
                  admitted, sync, chan, cuts, failures, drops>>
  BY DEF vars
<1>2. Held' /\ Grows /\ Books' /\ Lasting /\ Booking
  BY <1>1, Undisturbed DEF Safe
<1>3. \A x, y \in Devices : Hold(x, y)
  BY <1>1 DEF Hold, Waits, Talks, Doc
<1>4. Table(sync) /\ Table(chan) /\ admitted \in [Devices -> SUBSET Devices]
      /\ \A x, y \in Devices : y \in admitted'[x] => {x, y} \in Links
  BY <1>1 DEF Safe, Wire
<1>5. \A x, y \in Devices : (y \in admitted'[x] => {x, y} \in Links) /\ Meet(x, y)
  BY <1>3, <1>4 DEF Meet
<1>6. Exchange
  BY <1>1, <1>4, <1>5 DEF Exchange
<1> QED
  BY <1>1, <1>2, <1>6 DEF Effect, Flags, Safe

\* Every step is one of these.
LEMMA StepEffect ==
    ASSUME Safe, [Next]_vars
    PROVE  Effect
<1>1. ASSUME NEW d \in Devices, NEW p \in Devices,
             \/ Admit(d, p) \/ Disconnect(d, p) \/ Drop(d, p)
             \/ Refuse(d, p) \/ Receive(d, p)
      PROVE  Effect
  BY <1>1, AdmitEffect, DisconnectEffect, DropEffect, RefuseEffect, ReceiveEffect
<1>2. ASSUME NEW d \in Devices, Upgrade(d) \/ Broadcast(d)
      PROVE  Effect
  BY <1>2, UpgradeEffect, BroadcastEffect
<1>3. ASSUME NEW t \in Removable, RevokeDevice(t)
      PROVE  Effect
  BY <1>3, RevokeDeviceEffect
<1>4. ASSUME NEW d \in Editors, NEW f \in Fields, NEW v \in Values, Write(d, f, v) \/ Resolve(d, f, v)
      PROVE  Effect
  <2>1. d \in Devices
    BY DeviceAssumption
  <2> QED
    BY <1>4, <2>1, WriteEffect, ResolveEffect
<1>5. CASE UNCHANGED vars
  BY <1>5, StutterEffect
<1> QED
  BY <1>1, <1>2, <1>3, <1>4, <1>5 DEF Next, Edit

-----------------------------------------------------------------------------
(* The connections after a step.                                           *)

LEMMA CarriesMore ==
    ASSUME NEW q, NEW doc, Carries(q, doc), NEW more, doc \subseteq more
    PROVE  Carries(q, more)
  BY DEF Carries

LEMMA RemembersMore ==
    ASSUME NEW s, NEW mine, NEW other, Remembers(s, mine, other),
           NEW more, mine \subseteq more, NEW longer, other \subseteq longer
    PROVE  Remembers(s, more, longer)
  BY DEF Remembers

LEMMA ToldCarries ==
    ASSUME NEW doc \in SUBSET Nat, NEW s, NEW q, Carries(q, doc)
    PROVE  Carries(Told(doc, s, q), doc)
<1>1. Lacking(doc, s) \subseteq doc
  BY DEF Lacking
<1>2. Message(doc, s) \in Letter /\ Message(doc, s).heads = doc
      /\ Message(doc, s).changes = Lacking(doc, s)
  BY <1>1 DEF Message, Letter
<1> DEFINE m == Message(doc, s)
<1> HIDE DEF m
<1>3. m \in Letter /\ m.heads \subseteq doc /\ m.changes \subseteq doc
  BY <1>1, <1>2 DEF m
<1>4. q \in Seq(Letter) /\ Len(q) \in Nat
  BY DEF Carries
<1>5. /\ Append(q, m) \in Seq(Letter) /\ Len(Append(q, m)) = Len(q) + 1
      /\ Append(q, m)[Len(q) + 1] = m
      /\ \A i \in 1..Len(q) : Append(q, m)[i] = q[i]
  BY <1>3, <1>4
<1>6. \A i \in 1..(Len(q) + 1) : i \in 1..Len(q) \/ i = Len(q) + 1
  BY <1>4
<1>7. Carries(Append(q, m), doc)
  BY <1>3, <1>5, <1>6 DEF Carries
<1> QED
  BY <1>7 DEF Told, m

LEMMA AdvancedRemembers ==
    ASSUME NEW mine \in SUBSET Nat, NEW other, NEW s, Remembers(s, mine, other)
    PROVE  Remembers(Advanced(mine, s), mine, other)
<1>1. Lacking(mine, s) \subseteq mine
  BY DEF Lacking
<1> DEFINE t == [s EXCEPT !.sent = s.sent \cup Lacking(mine, s), !.spoken = mine, !.inFlight = TRUE]
<1>2. /\ t \in State /\ t.theirs = s.theirs /\ t.sent = s.sent \cup Lacking(mine, s)
      /\ t.spoken = mine
  BY <1>1 DEF Remembers, State
<1>3. Remembers(t, mine, other)
  BY <1>1, <1>2 DEF Remembers
<1>4. Advanced(mine, s) \in {s, t}
  BY DEF Advanced
<1> QED
  BY <1>3, <1>4

LEMMA HeardRemembers ==
    ASSUME NEW mine \in SUBSET Nat, NEW other \in SUBSET Nat, NEW s, Remembers(s, mine, other),
           NEW m \in Letter, m.heads \subseteq other
    PROVE  Remembers(Heard(mine, s, m), mine, other)
<1> DEFINE t == Heard(mine, s, m)
<1>1. /\ t.theirs = m.heads /\ t.inFlight = FALSE /\ t.sent \subseteq s.sent
      /\ t.spoken \in {{}, mine, s.spoken}
      /\ t = [theirs |-> t.theirs, sent |-> t.sent, inFlight |-> t.inFlight, spoken |-> t.spoken]
  BY DEF Heard
<1> HIDE DEF t
<1>2. s.sent \subseteq mine /\ (s.spoken = Nothing \/ s.spoken \subseteq mine)
  BY DEF Remembers
<1>3. t \in State
  BY <1>1, <1>2 DEF State
<1> QED
  BY <1>1, <1>2, <1>3 DEF Remembers, t

LEMMA FreshRemembers ==
    ASSUME NEW mine, NEW other
    PROVE  Remembers(FreshSync, mine, other) /\ Carries(<<>>, mine)
  BY DEF Remembers, FreshSync, State, Carries

\* How x's end of a connection goes on: from nothing, as it was but for a
\* message that was taken, or having spoken.
Goes(x, y) ==
    \/ sync'[x][y] = FreshSync /\ chan'[x][y] = <<>>
    \/ /\ sync'[x][y] = sync[x][y] /\ (y \in admitted[x] => y \in admitted'[x])
       /\ \/ chan'[x][y] = chan[x][y]
          \/ chan[x][y] # <<>> /\ chan'[x][y] = Tail(chan[x][y])
    \/ \E s \in {sync[x][y], Heard(Doc(x), sync[x][y], Head(chan[y][x]))} :
          /\ s # sync[x][y] => chan[y][x] # <<>>
          /\ sync'[x][y] = Advanced(Doc(x)', s) /\ chan'[x][y] = Told(Doc(x)', s, chan[x][y])
          /\ y \in admitted'[x]

LEMMA MeetGoes ==
    ASSUME NEW x \in Devices, NEW y \in Devices, Meet(x, y)
    PROVE  Goes(x, y)
  BY DEF Meet, Goes, Cut, Hold, Waits, Say, Hear, Lose, Taken, Talks

LEMMA WirePreserved ==
    ASSUME Safe, Effect
    PROVE  Wire'
<1>1. /\ Table(sync') /\ Table(chan') /\ admitted' \in [Devices -> SUBSET Devices]
      /\ \A x, y \in Devices : y \in admitted'[x] => {x, y} \in Links
  BY DEF Effect, Exchange
<1>2. ASSUME NEW x \in Devices
      PROVE  /\ Doc(x) \subseteq Doc(x)' /\ Doc(x) \in SUBSET Nat /\ Doc(x)' \in SUBSET Nat
  <2>1. Doc(x)' \subseteq 1..Len(log')
    BY DEF Effect, Held, Doc, DocOf
  <2>2. Doc(x) \subseteq 1..Len(log) /\ Len(log) \in Nat
    BY DocWithin DEF Safe
  <2>3. IsLog(log')
    BY DEF Effect, Held
  <2> QED
    BY <2>1, <2>2, <2>3 DEF Effect, Grows, IsLog
<1>3. ASSUME NEW x \in Devices, NEW y \in Devices
      PROVE  /\ y \notin admitted'[x] => sync'[x][y] = FreshSync /\ chan'[x][y] = <<>>
             /\ Carries(chan'[x][y], Doc(x)')
             /\ Remembers(sync'[x][y], Doc(x)', Doc(y)')
  <2>1. /\ y \notin admitted[x] => sync[x][y] = FreshSync /\ chan[x][y] = <<>>
        /\ Carries(chan[x][y], Doc(x)) /\ Carries(chan[y][x], Doc(y))
        /\ Remembers(sync[x][y], Doc(x), Doc(y))
    BY DEF Safe, Wire
  <2>2. Carries(chan[x][y], Doc(x)') /\ Remembers(sync[x][y], Doc(x)', Doc(y)')
    BY <1>2, <2>1, CarriesMore, RemembersMore
  <2>3. Goes(x, y)
    BY MeetGoes DEF Effect, Exchange
  <2>4. CASE sync'[x][y] = FreshSync /\ chan'[x][y] = <<>>
    BY <2>4, FreshRemembers
  <2>5. CASE /\ sync'[x][y] = sync[x][y] /\ (y \in admitted[x] => y \in admitted'[x])
             /\ \/ chan'[x][y] = chan[x][y]
                \/ chan[x][y] # <<>> /\ chan'[x][y] = Tail(chan[x][y])
    <3>1. Carries(chan'[x][y], Doc(x)')
      BY <2>2, <2>5, FirstLetter
    <3> QED
      BY <2>1, <2>2, <2>5, <3>1
  <2>6. ASSUME NEW s \in {sync[x][y], Heard(Doc(x), sync[x][y], Head(chan[y][x]))},
               s # sync[x][y] => chan[y][x] # <<>>,
               sync'[x][y] = Advanced(Doc(x)', s), chan'[x][y] = Told(Doc(x)', s, chan[x][y]),
               y \in admitted'[x]
        PROVE  Carries(chan'[x][y], Doc(x)') /\ Remembers(sync'[x][y], Doc(x)', Doc(y)')
    <3>1. Remembers(s, Doc(x), Doc(y))
      <4>1. CASE s = sync[x][y]
        BY <2>1, <4>1
      <4>2. CASE s # sync[x][y]
        <5>1. Head(chan[y][x]) \in Letter /\ Head(chan[y][x]).heads \subseteq Doc(y)
          BY <2>1, <2>6, <4>2, FirstLetter
        <5> QED
          BY <1>2, <2>1, <2>6, <4>2, <5>1, HeardRemembers
      <4> QED
        BY <4>1, <4>2
    <3>2. Remembers(s, Doc(x)', Doc(y)')
      BY <1>2, <3>1, RemembersMore
    <3> QED
      BY <1>2, <2>2, <2>6, <3>2, ToldCarries, AdvancedRemembers
  <2> QED
    BY <2>3, <2>4, <2>5, <2>6 DEF Goes
<1> QED
  BY <1>1, <1>3 DEF Wire

LEMMA SafeStep ==
    ASSUME Safe, [Next]_vars
    PROVE  Safe' /\ Effect
<1>1. Effect
  BY StepEffect
<1>2. Wire'
  BY <1>1, WirePreserved
<1> QED
  BY <1>1, <1>2 DEF Safe, Effect

-----------------------------------------------------------------------------
(* Safe is an invariant.                                                   *)

LEMMA EntryOf ==
    ASSUME NEW S, NEW q \in Seq(S), NEW i \in 1..Len(q)
    PROVE  q[i] \in S
  OBVIOUS

LEMMA FirstLog ==
    ASSUME Init
    PROVE  /\ Held
           /\ \A d \in Devices : Doc(d) = got[d]
<1> DEFINE n == Len(Offline)
           first(i) == [field |-> Offline[i].field, val |-> Offline[i].val, past |-> {}]
<1>1. n \in Nat /\ DOMAIN Offline = 1..n /\ n =< MaxChanges
  BY OfflineAssumption, BoundAssumption
<1>2. \A i \in 1..n : /\ Offline[i].field \in Fields /\ Offline[i].val \in Values
                      /\ Offline[i].by \in Devices
  <2>1. \A i \in 1..n : Offline[i] \in [by : Devices, field : Fields, val : Values]
    BY OfflineAssumption, EntryOf
  <2> QED
    BY <2>1
<1>3. log = [i \in 1..n |-> first(i)]
  BY <1>1 DEF Init
<1>4. \A i \in 1..n : first(i) \in Change /\ first(i).past = {} /\ first(i).val \in Values
  BY <1>2 DEF Change
<1> HIDE DEF first
<1>5. log \in Seq(Change) /\ Len(log) = n /\ \A i \in 1..n : log[i] = first(i)
  BY <1>1, <1>3, <1>4
<1>6. IsLog(log)
  BY <1>4, <1>5 DEF IsLog
<1>7. got \in [Devices -> SUBSET (1..Len(log))]
  BY <1>1, <1>5 DEF Init
<1>8. \A d \in Devices : Doc(d) = got[d]
  BY <1>4, <1>5, <1>7 DEF Doc, DocOf
<1> HIDE DEF n
<1> QED
  BY <1>1, <1>5, <1>6, <1>7, <1>8 DEF Held

LEMMA InitSafe ==
    ASSUME Init
    PROVE  Safe
<1>1. Held /\ \A d \in Devices : Doc(d) = got[d] /\ got[d] \in SUBSET (1..Len(log))
  BY FirstLog DEF Held
<1>2. \A x, y \in Devices : sync[x][y] = FreshSync /\ chan[x][y] = <<>> /\ admitted[x] = {}
  BY DEF Init
<1>3. Table(sync) /\ Table(chan) /\ admitted \in [Devices -> SUBSET Devices]
  BY DEF Init, Table
<1>4. Wire
  BY <1>2, <1>3, FreshRemembers DEF Wire
<1>5. \A d \in Devices, f \in Fields : Shows(log, got[d], f) \in Values \cup {Blank}
  BY <1>1, FieldTypes DEF Held
<1>6. rows \in [Devices -> Rows]
  BY <1>5 DEF Init, Rows
<1>7. NoCard \in Card
  BY DEF NoCard, Card
<1>8. cards \in [Devices -> [Fields -> Card]]
  BY <1>7 DEF Init
<1>9. Books
  BY <1>6, <1>8 DEF Init, Books
<1>10. Flags
  BY DEF Init, Flags
<1> QED
  BY <1>1, <1>4, <1>9, <1>10 DEF Safe

\* The log only grows by changes built on what their device held, messages
\* and sync states tell of documents that exist, nobody is down as removed
\* whose removal the document does not name.
THEOREM SafeHolds == Spec => []Safe
<1>1. Init => Safe
  BY InitSafe
<1>2. Safe /\ [Next]_vars => Safe'
  BY SafeStep
<1> QED
  BY <1>1, <1>2, PTL DEF Spec

LEMMA SafeTypes ==
    ASSUME Safe
    PROVE  TypeOK
<1>1. \A c \in Changes : log[c].field \in Fields \cup Removable /\ log[c].past \subseteq 1..(c - 1)
  BY LogLookup, ChangeFields DEF Safe, Held, Changes
<1>2. got \in [Devices -> SUBSET Changes]
  BY DEF Safe, Held, Changes
<1>3. \A d \in Devices : admitted[d] \subseteq {p \in Devices : {d, p} \in Links}
  BY DEF Safe, Wire
<1>4. ASSUME NEW d \in Devices, NEW p \in Devices
      PROVE  /\ sync[d][p] \in SyncState
             /\ sync[d][p] # FreshSync => p \in admitted[d]
             /\ \A i \in DOMAIN chan[d][p] :
                   chan[d][p][i].changes \subseteq Changes /\ chan[d][p][i].heads \subseteq Changes
  <2>1. Doc(d) \subseteq Changes /\ Doc(p) \subseteq Changes
    BY DocWithin DEF Safe, Changes
  <2>2. /\ Carries(chan[d][p], Doc(d)) /\ Remembers(sync[d][p], Doc(d), Doc(p))
        /\ p \notin admitted[d] => sync[d][p] = FreshSync
    BY DEF Safe, Wire
  <2>3. sync[d][p] \in SyncState
    BY <2>1, <2>2 DEF Remembers, State, SyncState
  <2>4. DOMAIN chan[d][p] = 1..Len(chan[d][p])
    BY <2>2 DEF Carries
  <2> QED
    BY <2>1, <2>2, <2>3, <2>4 DEF Carries
<1>5. /\ rows \in [Devices -> [Fields -> Values \cup {Blank}]]
      /\ cards \in [Devices -> [Fields -> Card]]
      /\ removed \in [Devices -> SUBSET Removable]
      /\ behind \in [Devices -> BOOLEAN] /\ unsent \in [Devices -> BOOLEAN]
      /\ version \in [Devices -> {0, 1}]
  BY DEF Safe, Books, Rows, Flags
<1> QED
  BY <1>1, <1>2, <1>3, <1>4, <1>5 DEF TypeOK

\* Type correctness of the devices, their documents and what is on its way.
THEOREM TypeCorrect == Spec => []TypeOK
  BY SafeHolds, SafeTypes, PTL

-----------------------------------------------------------------------------
(* SQLite follows the document, unless the last projection threw: the rows, *)
(* the cards, the authority cache and whom the device is connected to.      *)

Follows(d) ==
    ~behind[d] =>
        /\ \A f \in Fields : rows[d][f] = Shows(log, Doc(d), f)
        /\ \A f \in Fields : Contested(log, Doc(d), f) => cards[d][f].state = "pending"
        /\ RemovedBy(log, Doc(d)) \subseteq removed[d]
        /\ removed[d] \cap admitted[d] = {}

AllFollow == \A d \in Devices : Follows(d)

LEMMA FieldsApart ==
    /\ Fields \cap Removable = {}
    /\ Host \in Devices /\ Host \notin Removable /\ Removable \subseteq Devices
  BY DeviceAssumption

LEMMA SameBooksFollow ==
    ASSUME Safe, Effect, NEW d \in Devices, SameBooks(d), Follows(d)
    PROVE  Follows(d)'
<1>1. Doc(d) \in SUBSET (1..Len(log)) /\ Extends(log, log')
  BY DocWithin DEF Safe, Effect, Grows
<1>2. /\ Doc(d)' = Doc(d) /\ rows'[d] = rows[d] /\ cards'[d] = cards[d]
      /\ removed'[d] = removed[d] /\ behind'[d] = behind[d]
      /\ admitted'[d] \cap removed[d] \subseteq admitted[d]
  BY DEF SameBooks, Untouched
<1>3. /\ \A f : Shows(log', Doc(d), f) = Shows(log, Doc(d), f)
      /\ \A f : Contested(log', Doc(d), f) <=> Contested(log, Doc(d), f)
      /\ RemovedBy(log', Doc(d)) = RemovedBy(log, Doc(d))
  BY <1>1, ShowsExtends, ContestedExtends, RemovedByExtends
<1> QED
  BY <1>2, <1>3 DEF Follows

LEMMA ProjectedBooksFollow ==
    ASSUME NEW d \in Devices, ProjectedBooks(d)
    PROVE  Follows(d)'
<1>1. PICK base \in Rows : Projected(d, base)
  BY DEF ProjectedBooks
<1>2. ~behind'[d] => admitted'[d] \cap removed'[d] = {}
  BY DEF ProjectedBooks
<1>3. ~behind'[d] => /\ rows'[d] = [f \in Fields |-> Shows(log', Doc(d)', f)]
                     /\ removed'[d] = RemovedBy(log', Doc(d)')
                     /\ Projectable(log', Doc(d)', cards'[d])
  BY <1>1 DEF Projected
<1> QED
  BY <1>2, <1>3 DEF Follows, Projectable

LEMMA WrittenBooksFollow ==
    ASSUME Safe, NEW d \in Devices, Follows(d), NEW f \in Fields, NEW v \in Values,
           MintedOn(d, f, v), WrittenBooks(d, f, v)
    PROVE  Follows(d)'
<1> DEFINE n == Len(log) + 1
<1>1. /\ Mints(log, log', Doc(d), n) /\ log'[n].field = f /\ log'[n].val = v
      /\ Doc(d)' = With(Doc(d), n)
  BY DEF MintedOn
<1> HIDE DEF n
<1>2. /\ rows' = [rows EXCEPT ![d][f] = v] /\ rows \in [Devices -> Rows]
      /\ cards' = cards /\ removed' = removed /\ behind' = behind /\ admitted'[d] = admitted[d]
  BY DEF WrittenBooks, Safe, Books
<1>3. rows'[d][f] = v /\ \A g \in Fields : g # f => rows'[d][g] = rows[d][g]
  BY <1>2 DEF Rows
<1>4. ASSUME NEW g \in Fields
      PROVE  /\ g = f => Shows(log', With(Doc(d), n), g) = v /\ ~Contested(log', With(Doc(d), n), g)
             /\ g # f => /\ Shows(log', With(Doc(d), n), g) = Shows(log, Doc(d), g)
                         /\ Contested(log', With(Doc(d), n), g) <=> Contested(log, Doc(d), g)
  <2>1. CASE g = f
    BY <1>1, <2>1, MintedField
  <2>2. CASE g # f
    BY <1>1, <2>2, OtherFields
  <2> QED
    BY <2>1, <2>2
<1>5. RemovedBy(log', With(Doc(d), n)) = RemovedBy(log, Doc(d))
  <2>1. {f} \cap Removable = {}
    BY FieldsApart
  <2> QED
    BY <1>1, <2>1, MintedRemovals
<1> QED
  BY <1>1, <1>2, <1>3, <1>4, <1>5 DEF Follows

LEMMA RevokedBooksFollow ==
    ASSUME Safe, Follows(Host), NEW t \in Removable,
           MintedOn(Host, t, "removed"), RevokedBooks(t)
    PROVE  Follows(Host)'
<1> DEFINE n == Len(log) + 1
<1>1. /\ Mints(log, log', Doc(Host), n) /\ log'[n].field = t
      /\ Doc(Host)' = With(Doc(Host), n)
  BY DEF MintedOn
<1> HIDE DEF n
<1>2. /\ removed'[Host] = removed[Host] \cup {t}
      /\ rows' = rows /\ cards' = cards /\ behind' = behind
      /\ admitted'[Host] \subseteq admitted[Host] \ {t}
  BY FieldsApart DEF RevokedBooks, Safe, Books
<1>3. ASSUME NEW g \in Fields
      PROVE  /\ Shows(log', With(Doc(Host), n), g) = Shows(log, Doc(Host), g)
             /\ Contested(log', With(Doc(Host), n), g) <=> Contested(log, Doc(Host), g)
  <2>1. log'[n].field # g
    BY <1>1, FieldsApart
  <2> QED
    BY <1>1, <2>1, OtherFields
<1>4. RemovedBy(log', With(Doc(Host), n)) \subseteq RemovedBy(log, Doc(Host)) \cup {t}
  BY <1>1, MintedRemovals
<1> QED
  BY <1>1, <1>2, <1>3, <1>4 DEF Follows

LEMMA FollowsStep ==
    ASSUME Safe, Effect, AllFollow
    PROVE  AllFollow'
<1>1. PICK d \in Devices : (Minting(d) \/ Learning(d)) /\ \A e \in Devices \ {d} : SameBooks(e)
  BY DEF Effect, Booking
<1>2. \A e \in Devices \ {d} : Follows(e)'
  BY <1>1, SameBooksFollow DEF AllFollow
<1>3. CASE Minting(d)
  <2>1. CASE \E f \in Fields, v \in Values :
                MintedOn(d, f, v) /\ (WrittenBooks(d, f, v) \/ ProjectedBooks(d))
    <3>1. Follows(d)'
      BY <2>1, WrittenBooksFollow, ProjectedBooksFollow DEF AllFollow
    <3> QED
      BY <1>2, <3>1 DEF AllFollow
  <2>2. CASE \E t \in Removable : d = Host /\ MintedOn(d, t, "removed") /\ RevokedBooks(t)
    <3>1. Follows(Host)' /\ d = Host
      BY <2>2, RevokedBooksFollow DEF AllFollow
    <3> QED
      BY <1>2, <3>1 DEF AllFollow
  <2> QED
    BY <1>3, <2>1, <2>2 DEF Minting
<1>4. CASE Learning(d)
  <2>1. Follows(d)'
    BY <1>4, SameBooksFollow, ProjectedBooksFollow DEF Learning, AllFollow
  <2> QED
    BY <1>2, <2>1 DEF AllFollow
<1> QED
  BY <1>1, <1>3, <1>4

LEMMA FirstFollow ==
    ASSUME Init
    PROVE  AllFollow
<1>1. \A d \in Devices : Doc(d) = got[d] /\ got[d] \in SUBSET (1..Len(log))
  BY FirstLog DEF Held
<1>2. \A d \in Devices, f \in Fields : rows[d][f] = Shows(log, got[d], f)
  BY DEF Init
<1>3. \A d \in Devices : removed[d] = {}
  BY DEF Init
<1>4. \A i \in 1..Len(log) : log[i].field \in Fields
  <2>1. \A i \in 1..Len(Offline) : Offline[i] \in [by : Devices, field : Fields, val : Values]
    BY OfflineAssumption, EntryOf
  <2>2. DOMAIN Offline = 1..Len(Offline) /\ Len(Offline) \in Nat
    BY OfflineAssumption
  <2>3. Len(log) \in Nat /\ DOMAIN log = 1..Len(log)
    BY FirstLog DEF Held, IsLog
  <2>4. DOMAIN log = DOMAIN Offline /\ \A i \in DOMAIN Offline : log[i].field = Offline[i].field
    BY DEF Init
  <2> QED
    BY <2>1, <2>2, <2>3, <2>4
<1>5. \A d \in Devices : RemovedBy(log, got[d]) = {}
  BY <1>1, <1>4, FieldsApart DEF RemovedBy
<1>6. ASSUME NEW d \in Devices, NEW f \in Fields
      PROVE  ~Contested(log, got[d], f)
  <2>1. \A i, j \in got[d] : i = j
    BY OfflineAssumption DEF Init
  <2>2. \A i, j \in Live(log, got[d], f) : i = j
    BY <2>1, LiveWithin
  <2>3. LiveValues(log, got[d], f) = {} \/ \E c \in Live(log, got[d], f) :
            LiveValues(log, got[d], f) = {log[c].val}
    BY <2>2 DEF LiveValues
  <2>4. Cardinality(LiveValues(log, got[d], f)) \in {0, 1}
    BY <2>3, FS_Singleton, FS_EmptySet
  <2> QED
    BY <2>4 DEF Contested
<1> QED
  BY <1>1, <1>2, <1>3, <1>5, <1>6 DEF AllFollow, Follows

LEMMA SafeFollows == Spec => [](Safe /\ AllFollow)
<1>1. Init => Safe /\ AllFollow
  BY InitSafe, FirstFollow
<1>2. Safe /\ AllFollow /\ [Next]_vars => (Safe /\ AllFollow)'
  <2>1. ASSUME Safe, AllFollow, [Next]_vars
        PROVE  Safe' /\ AllFollow'
    BY <2>1, SafeStep, FollowsStep
  <2> QED
    BY <2>1
<1> QED
  BY <1>1, <1>2, PTL DEF Spec

\* SQLite shows what the document says, on every device and in every field,
\* unless the last projection there threw.
THEOREM RowsFollow == Spec => []RowsFollowDocument
<1>1. AllFollow => RowsFollowDocument
  BY DEF AllFollow, Follows, RowsFollowDocument
<1> QED
  BY <1>1, SafeFollows, PTL

\* A contested field has a pending card, or the device knows that its rows
\* are behind (assertConflictsRecorded).
THEOREM NoSilentChoice == Spec => []NoSideChosenSilently
<1>1. AllFollow => NoSideChosenSilently
  <2>1. ASSUME AllFollow, NEW d \in Devices, NEW f \in Fields, Contested(log, Doc(d), f), ~behind[d]
        PROVE  cards[d][f].state = "pending"
    BY <2>1 DEF AllFollow, Follows
  <2> QED
    BY <2>1 DEF NoSideChosenSilently
<1> QED
  BY <1>1, SafeFollows, PTL

\* A device whose document names a removal, and whose last projection
\* succeeded, has the removed device down as revoked and is not connected to it.
THEOREM RemovalsEnforced == Spec => []HeldRemovalIsEnforced
<1>1. AllFollow => HeldRemovalIsEnforced
  BY DEF AllFollow, Follows, HeldRemovalIsEnforced
<1> QED
  BY <1>1, SafeFollows, PTL

-----------------------------------------------------------------------------
(* While no projection has thrown, a removed device is told nothing that   *)
(* was written by someone who knew of its removal.                         *)

\* The change c is the removal of t, or was built on it.
Knows(l, c, t) == \E r \in l[c].past \cup {c} : l[r].field = t

Unaware(l, S, t) == \A c \in S : ~Knows(l, c, t)

\* No device is behind, and neither what a device holds nor what is on its
\* way to it knows of its removal.
Discreet ==
    failures = 0 =>
        /\ \A d \in Devices : ~behind[d]
        /\ \A t \in Removable :
              /\ Unaware(log, got[t], t)
              /\ \A d \in Devices : \A i \in 1..Len(chan[d][t]) :
                    Unaware(log, chan[d][t][i].changes, t)

LEMMA UnawareExtends ==
    ASSUME NEW l, IsLog(l), NEW m, Extends(l, m), NEW S \in SUBSET (1..Len(l)), NEW t,
           Unaware(l, S, t)
    PROVE  Unaware(m, S, t)
<1>1. ASSUME NEW c \in S, Knows(m, c, t)
      PROVE  FALSE
  <2>1. c \in 1..Len(l) /\ l[c].past \subseteq 1..Len(l)
    BY LogLookup
  <2>2. m[c] = l[c] /\ \A r \in l[c].past \cup {c} : m[r] = l[r]
    BY <2>1 DEF Extends
  <2>3. Knows(l, c, t)
    BY <1>1, <2>2 DEF Knows
  <2> QED
    BY <2>3 DEF Unaware
<1> QED
  BY <1>1 DEF Unaware

\* A document that does not name a removal holds nothing that knows of it.
LEMMA UnnamedUnaware ==
    ASSUME NEW l, IsLog(l), NEW held \in SUBSET (1..Len(l)), NEW t \in Removable,
           t \notin RemovedBy(l, DocOf(l, held))
    PROVE  Unaware(l, DocOf(l, held), t)
<1>1. \A c \in DocOf(l, held) : l[c].field # t
  BY DEF RemovedBy
<1>2. \A c \in DocOf(l, held) : l[c].past \subseteq DocOf(l, held)
  BY DocClosed
<1> QED
  BY <1>1, <1>2 DEF Unaware, Knows

LEMMA StillCurrent ==
    ASSUME Safe, Effect, Discreet, failures' = 0
    PROVE  failures = 0 /\ \A d \in Devices : ~behind'[d]
<1>1. failures = 0
  BY DEF Effect, Lasting, Safe, Books
<1>2. PICK d \in Devices : (Minting(d) \/ Learning(d)) /\ \A e \in Devices \ {d} : SameBooks(e)
  BY DEF Effect, Booking
<1>3. \A e \in Devices : ~behind[e]
  BY <1>1 DEF Discreet
<1>4. \A e \in Devices \ {d} : ~behind'[e]
  BY <1>2, <1>3 DEF SameBooks, Untouched
<1>5. ProjectedBooks(d) => ~behind'[d]
  BY <1>1 DEF ProjectedBooks, Projected
<1>6. SameBooks(d) => ~behind'[d]
  BY <1>3 DEF SameBooks, Untouched
<1>7. behind' = behind => ~behind'[d]
  BY <1>3
<1>8. ~behind'[d]
  BY <1>2, <1>5, <1>6, <1>7 DEF Minting, Learning, WrittenBooks, RevokedBooks
<1> QED
  BY <1>1, <1>4, <1>8

LEMMA HeldUnaware ==
    ASSUME Safe, Effect, Discreet, failures = 0, NEW t \in Removable
    PROVE  Unaware(log', got'[t], t)
<1>1. t \in Devices /\ t # Host /\ Removable \subseteq Devices
  BY FieldsApart
<1>2. /\ IsLog(log) /\ IsLog(log') /\ Extends(log, log')
      /\ got \in [Devices -> SUBSET (1..Len(log))]
  BY DEF Safe, Effect, Held, Grows
<1>3. Unaware(log, got[t], t) /\ got[t] \in SUBSET (1..Len(log))
  BY <1>1, <1>2 DEF Discreet
<1>4. Unaware(log', got[t], t)
  BY <1>2, <1>3, UnawareExtends
<1>5. PICK d \in Devices : Minting(d) \/ Learning(d)
  BY DEF Effect, Booking
<1>6. CASE got'[t] = got[t]
  BY <1>4, <1>6
<1>7. ASSUME NEW f \in Fields, NEW v \in Values, MintedOn(t, f, v)
      PROVE  Unaware(log', got'[t], t)
  <2> DEFINE n == Len(log) + 1
  <2>1. /\ Mints(log, log', Doc(t), n) /\ log'[n].field = f
        /\ got' = [got EXCEPT ![t] = With(got[t], n)]
    BY <1>7 DEF MintedOn
  <2> HIDE DEF n
  <2>2. got'[t] = With(got[t], n) /\ log'[n].past = Doc(t) /\ f # t
    BY <1>1, <1>2, <2>1, FieldsApart DEF Mints
  <2>3. \A r \in Doc(t) : r \in got[t] /\ log'[r].field # t
    BY <1>4 DEF Unaware, Knows, Doc, DocOf
  <2>4. ~Knows(log', n, t)
    BY <2>1, <2>2, <2>3 DEF Knows
  <2> QED
    BY <1>4, <2>2, <2>4 DEF Unaware, With
<1>8. ASSUME NEW p \in Devices, chan[p][t] # <<>>, got'[t] = got[t] \cup Head(chan[p][t]).changes,
             log' = log
      PROVE  Unaware(log', got'[t], t)
  <2>1. Carries(chan[p][t], Doc(p))
    BY <1>1 DEF Safe, Wire
  <2>2. 1 \in 1..Len(chan[p][t]) /\ Head(chan[p][t]) = chan[p][t][1]
    BY <1>8, <2>1 DEF Carries
  <2>3. Unaware(log, Head(chan[p][t]).changes, t)
    BY <2>2 DEF Discreet
  <2> QED
    BY <1>3, <1>8, <2>3 DEF Unaware
<1>9. CASE d = t
  <2>1. CASE Minting(t)
    BY <1>1, <1>7, <2>1 DEF Minting
  <2>2. CASE Learning(t)
    BY <1>6, <1>8, <2>2 DEF Learning
  <2> QED
    BY <1>5, <1>9, <2>1, <2>2
<1>10. CASE d # t
  <2>1. got'[t] = got[t]
    BY <1>1, <1>2, <1>5, <1>10 DEF Minting, Learning, MintedOn
  <2> QED
    BY <1>6, <2>1
<1> QED
  BY <1>9, <1>10

LEMMA LettersUnaware ==
    ASSUME Safe, Safe', Effect, AllFollow', Discreet, failures = 0, NEW t \in Removable,
           NEW d \in Devices, ~behind'[d]
    PROVE  \A i \in 1..Len(chan'[d][t]) : Unaware(log', chan'[d][t][i].changes, t)
<1> DEFINE q == chan[d][t]
           r == chan'[d][t]
<1>1. t \in Devices /\ t # Host
  BY FieldsApart
<1>2. IsLog(log) /\ IsLog(log') /\ Extends(log, log')
  BY DEF Safe, Effect, Held, Grows
<1>3. Carries(q, Doc(d)) /\ Doc(d) \in SUBSET (1..Len(log))
  BY <1>1, DocWithin DEF Safe, Wire
<1>4. \A i \in 1..Len(q) : Unaware(log', q[i].changes, t)
  <2>1. \A i \in 1..Len(q) : Unaware(log, q[i].changes, t) /\ q[i].changes \in SUBSET (1..Len(log))
    BY <1>3 DEF Discreet, Carries
  <2> QED
    BY <1>2, <2>1, UnawareExtends
<1>5. Goes(d, t)
  BY <1>1, MeetGoes DEF Effect, Exchange
<1>6. q \in Seq(Letter)
  BY <1>3 DEF Carries
<1> HIDE DEF q
<1>7. CASE r = <<>> \/ r = q \/ (q # <<>> /\ r = Tail(q))
  <2>1. CASE r = <<>>
    BY <2>1
  <2>2. CASE r = q
    BY <1>4, <2>2
  <2>3. CASE q # <<>> /\ r = Tail(q)
    <3>1. Len(r) = Len(q) - 1 /\ \A i \in 1..Len(r) : r[i] = q[i + 1] /\ i + 1 \in 1..Len(q)
      BY <1>6, <2>3
    <3> QED
      BY <1>4, <3>1
  <2> QED
    BY <1>7, <2>1, <2>2, <2>3
<1>8. ASSUME NEW s, r = Told(Doc(d)', s, q), t \in admitted'[d]
      PROVE  \A i \in 1..Len(r) : Unaware(log', r[i].changes, t)
  <2> DEFINE doc == DocOf(log', got'[d])
             m == Message(doc, s)
  <2>1. t \notin RemovedBy(log', doc)
    BY <1>8 DEF AllFollow, Follows, Doc
  <2>2. got'[d] \in SUBSET (1..Len(log'))
    BY DEF Safe, Held
  <2>3. Unaware(log', doc, t)
    BY <1>2, <2>1, <2>2, UnnamedUnaware
  <2>4. m.changes \subseteq doc
    BY DEF Message, Lacking
  <2>5. Unaware(log', m.changes, t)
    BY <2>3, <2>4 DEF Unaware
  <2>6. r = q \/ r = Append(q, m)
    BY <1>8 DEF Told, Doc
  <2> HIDE DEF m, r
  <2>7. CASE r = q
    BY <1>4, <2>7
  <2>8. CASE r = Append(q, m)
    <3>1. /\ Len(r) = Len(q) + 1 /\ r[Len(q) + 1] = m /\ Len(q) \in Nat
          /\ \A i \in 1..Len(q) : r[i] = q[i]
      BY <1>6, <2>8
    <3>2. \A i \in 1..Len(r) : i \in 1..Len(q) \/ i = Len(q) + 1
      BY <3>1
    <3> QED
      BY <1>4, <2>5, <3>1, <3>2
  <2> QED
    BY <2>6, <2>7, <2>8 DEF r
<1> QED
  BY <1>5, <1>7, <1>8 DEF Goes, q

LEMMA DiscreetStep ==
    ASSUME Safe, Safe', Effect, AllFollow', Discreet
    PROVE  Discreet'
<1> SUFFICES ASSUME failures' = 0
             PROVE  /\ \A d \in Devices : ~behind'[d]
                    /\ \A t \in Removable :
                          /\ Unaware(log', got'[t], t)
                          /\ \A d \in Devices : \A i \in 1..Len(chan'[d][t]) :
                                Unaware(log', chan'[d][t][i].changes, t)
  BY DEF Discreet
<1>1. failures = 0 /\ \A d \in Devices : ~behind'[d]
  BY StillCurrent
<1>2. \A t \in Removable : Unaware(log', got'[t], t)
  BY <1>1, HeldUnaware
<1>3. \A t \in Removable, d \in Devices : \A i \in 1..Len(chan'[d][t]) :
          Unaware(log', chan'[d][t][i].changes, t)
  BY <1>1, LettersUnaware
<1> QED
  BY <1>1, <1>2, <1>3

LEMMA FirstDiscreet ==
    ASSUME Init
    PROVE  Discreet
<1>1. \A d \in Devices : ~behind[d]
  BY DEF Init
<1>2. \A d, p \in Devices : chan[d][p] = <<>>
  BY DEF Init
<1>3. \A d \in Devices : RemovedBy(log, Doc(d)) = {}
  BY FirstFollow, <1>1 DEF AllFollow, Follows, Init
<1>4. IsLog(log) /\ \A d \in Devices : Doc(d) = got[d] /\ got[d] \in SUBSET (1..Len(log))
  BY FirstLog DEF Held
<1>5. \A t \in Removable : Unaware(log, got[t], t)
  BY <1>3, <1>4, FieldsApart, UnnamedUnaware DEF Doc
<1>6. \A t \in Removable, d \in Devices : \A i \in 1..Len(chan[d][t]) :
          Unaware(log, chan[d][t][i].changes, t)
  BY <1>2, FieldsApart
<1> QED
  BY <1>1, <1>5, <1>6 DEF Discreet

\* While no projection has thrown, no removed device receives, directly or
\* through a third device, a change whose writer knew of the removal.
THEOREM RemovedToldNothing == Spec => []RemovedLearnsNothingNew
<1>1. Init => Safe /\ AllFollow /\ Discreet
  BY InitSafe, FirstFollow, FirstDiscreet
<1>2. Safe /\ AllFollow /\ Discreet /\ [Next]_vars => (Safe /\ AllFollow /\ Discreet)'
  <2>1. ASSUME Safe, AllFollow, Discreet, [Next]_vars
        PROVE  Safe' /\ AllFollow' /\ Discreet'
    BY <2>1, SafeStep, FollowsStep, DiscreetStep
  <2> QED
    BY <2>1
<1>3. Discreet => RemovedLearnsNothingNew
  BY DEF Discreet, Unaware, Knows, RemovedLearnsNothingNew
<1> QED
  BY <1>1, <1>2, <1>3, PTL DEF Spec

-----------------------------------------------------------------------------
(* The devices are replicas (ReplicatedCamp): every step mints one change  *)
(* on one device or lets one device learn, and its rows follow or wait.    *)

DocsOf == [d \in Devices |-> Doc(d)]

LEMMA ShowsTheSame ==
    ASSUME NEW l, NEW doc, NEW f
    PROVE  Replicas!Shows(l, doc, f) = Shows(l, doc, f)
<1>1. Replicas!Live(l, doc, f) = Live(l, doc, f)
  BY DEF Replicas!Live, Live
<1> QED
  BY <1>1 DEF Replicas!Shows, Shows, Replicas!Max, Max

LEMMA RowsFollowOrWait ==
    ASSUME NEW d \in Devices,
           \A e \in Devices \ {d} : SameBooks(e),
           \A f \in Fields : rows'[d][f] \in {rows[d][f], Shows(log', Doc(d)', f)}
    PROVE  Replicas!RowsFollow(d)
<1>1. DocsOf'[d] = Doc(d)'
  BY DEF DocsOf
<1>2. \A e \in Devices \ {d} : rows'[e] = rows[e]
  BY DEF SameBooks, Untouched
<1> QED
  BY <1>1, <1>2, ShowsTheSame DEF Replicas!RowsFollow, DocsOf

LEMMA ProjectedRows ==
    ASSUME NEW d \in Devices, ProjectedBooks(d), Books'
    PROVE  \A f \in Fields : rows'[d][f] \in {rows[d][f], Shows(log', Doc(d)', f)}
<1>1. PICK base \in Rows :
         /\ Projected(d, base)
         /\ \A f \in Fields : base[f] \in {rows[d][f], Shows(log', Doc(d)', f)}
  BY DEF ProjectedBooks
<1>2. CASE behind'[d]
  BY <1>1, <1>2 DEF Projected
<1>3. CASE ~behind'[d]
  BY <1>1, <1>3 DEF Projected
<1> QED
  BY <1>2, <1>3

LEMMA WrittenRows ==
    ASSUME Safe, NEW d \in Devices, NEW f \in Fields, NEW v \in Values,
           MintedOn(d, f, v), WrittenBooks(d, f, v)
    PROVE  \A g \in Fields : rows'[d][g] \in {rows[d][g], Shows(log', Doc(d)', g)}
<1> DEFINE n == Len(log) + 1
<1>1. /\ Mints(log, log', Doc(d), n) /\ log'[n].field = f /\ log'[n].val = v
      /\ Doc(d)' = With(Doc(d), n)
  BY DEF MintedOn
<1> HIDE DEF n
<1>2. rows' = [rows EXCEPT ![d][f] = v] /\ rows \in [Devices -> Rows]
  BY DEF WrittenBooks, Safe, Books
<1>3. rows'[d][f] = v /\ \A g \in Fields : g # f => rows'[d][g] = rows[d][g]
  BY <1>2 DEF Rows
<1>4. Shows(log', With(Doc(d), n), f) = v
  BY <1>1, MintedField
<1> QED
  BY <1>1, <1>3, <1>4

\* A log that was extended begins with the old one.
LEMMA Prefix ==
    ASSUME NEW l, IsLog(l), NEW m, IsLog(m), Extends(l, m)
    PROVE  SubSeq(m, 1, Len(l)) = l
<1>1. l \in Seq(Change) /\ m \in Seq(Change) /\ Len(l) =< Len(m)
      /\ \A c \in 1..Len(l) : m[c] = l[c]
  BY DEF IsLog, Extends
<1>2. l = [i \in 1..Len(l) |-> l[i]] /\ Len(l) \in Nat
  BY <1>1
<1>3. /\ SubSeq(m, 1, Len(l)) \in Seq(Change) /\ Len(SubSeq(m, 1, Len(l))) = Len(l)
      /\ \A i \in 1..Len(l) : SubSeq(m, 1, Len(l))[i] = m[i]
  BY <1>1
<1> QED
  BY <1>1, <1>2, <1>3

LEMMA MintingImplements ==
    ASSUME Safe, Effect, NEW d \in Devices, Minting(d), \A e \in Devices \ {d} : SameBooks(e)
    PROVE  Replicas!Mint(d)
<1> DEFINE n == Len(log) + 1
<1>0. n = Len(log) + 1
  OBVIOUS
<1> HIDE DEF n
<1>1. /\ Mints(log, log', Doc(d), n) /\ Doc(d)' = With(Doc(d), n)
      /\ \A e \in Devices \ {d} : Doc(e)' = Doc(e)
  BY <1>0 DEF Minting, MintedOn
<1>2. Len(log') = Len(log) + 1 /\ log'[Len(log')].past = Doc(d) /\ Len(log') = n
  BY <1>0, <1>1 DEF Mints
<1>3. SubSeq(log', 1, Len(log)) = log
  BY Prefix DEF Safe, Effect, Held, Grows
<1>4. \A f \in Fields : rows'[d][f] \in {rows[d][f], Shows(log', Doc(d)', f)}
  <2>1. CASE \E f \in Fields, v \in Values :
                MintedOn(d, f, v) /\ (WrittenBooks(d, f, v) \/ ProjectedBooks(d))
    BY <2>1, WrittenRows, ProjectedRows DEF Effect
  <2>2. CASE \E t \in Removable : d = Host /\ MintedOn(d, t, "removed") /\ RevokedBooks(t)
    BY <2>2 DEF RevokedBooks
  <2> QED
    BY <2>1, <2>2 DEF Minting
<1>5. Replicas!RowsFollow(d)
  BY <1>4, RowsFollowOrWait
<1>6. DocsOf' = [DocsOf EXCEPT ![d] = @ \cup {Len(log')}]
  <2>1. Doc(d)' = Doc(d) \cup {Len(log')}
    BY <1>1, <1>2 DEF With
  <2> QED
    BY <1>1, <2>1 DEF DocsOf
<1>7. DocsOf[d] = Doc(d)
  BY DEF DocsOf
<1> QED
  BY <1>2, <1>3, <1>5, <1>6, <1>7 DEF Replicas!Mint, DocsOf

LEMMA LearningImplements ==
    ASSUME Safe, Effect, NEW d \in Devices, Learning(d), \A e \in Devices \ {d} : SameBooks(e)
    PROVE  Replicas!Learn(d)
<1>1. log' = log /\ IsLog(log) /\ got' \in [Devices -> SUBSET (1..Len(log))]
  BY DEF Learning, Safe, Effect, Held
<1>2. /\ Doc(d) \subseteq Doc(d)' /\ Doc(d)' \subseteq 1..Len(log)
      /\ \A e \in Devices \ {d} : Doc(e)' = Doc(e)
  <2>1. Doc(d)' = DocOf(log, got'[d]) /\ got'[d] \subseteq 1..Len(log)
    BY <1>1 DEF Doc
  <2>2. Doc(d)' \subseteq 1..Len(log)
    BY <2>1, DocGrows
  <2> QED
    BY <2>2 DEF Effect, Grows, SameBooks
<1>3. \A c \in Doc(d)' : log[c].past \subseteq Doc(d)'
  BY <1>1, DocClosed DEF Doc
<1>4. \A f \in Fields : rows'[d][f] \in {rows[d][f], Shows(log', Doc(d)', f)}
  BY ProjectedRows DEF Learning, SameBooks, Untouched, Effect
<1>5. Replicas!RowsFollow(d)
  BY <1>4, RowsFollowOrWait
<1>6. /\ DocsOf[d] = Doc(d) /\ DocsOf'[d] = Doc(d)'
      /\ \A e \in Devices \ {d} : DocsOf'[e] = DocsOf[e]
  BY <1>2 DEF DocsOf
<1> QED
  BY <1>1, <1>2, <1>3, <1>5, <1>6 DEF Replicas!Learn, DocsOf

\* Whatever is lost, refused, merged out of order or cut off, documents only
\* grow, by changes minted on top of their causes, and the rows follow.
THEOREM DevicesAreReplicas == Spec => ImplementsReplicated
<1>1. Init => Replicas!Init
  <2>1. ASSUME Init
        PROVE  Replicas!Init
    <3>1. \A d \in Devices : Doc(d) = got[d]
      BY <2>1, FirstLog
    <3>2. \A d \in Devices : got[d] = {i \in DOMAIN Offline : Offline[i].by = d}
      BY <2>1 DEF Init
    <3>3. DocsOf = [d \in Devices |-> {i \in DOMAIN Offline : Offline[i].by = d}]
      BY <3>1, <3>2 DEF DocsOf
    <3>4. \A d \in Devices : DocsOf[d] = got[d]
      BY <3>1 DEF DocsOf
    <3>5. rows = [d \in Devices |-> [f \in Fields |-> Replicas!Shows(log, DocsOf[d], f)]]
      BY <2>1, <3>4, ShowsTheSame DEF Init
    <3> QED
      BY <2>1, <3>3, <3>5 DEF Init, Replicas!Init, DocsOf
  <2> QED
    BY <2>1
<1>2. Safe /\ [Next]_vars => [Replicas!Next]_Replicas!vars
  <2>1. ASSUME Safe, [Next]_vars
        PROVE  Replicas!Next
    <3>1. Effect
      BY <2>1, SafeStep
    <3>2. PICK d \in Devices : (Minting(d) \/ Learning(d)) /\ \A e \in Devices \ {d} : SameBooks(e)
      BY <3>1 DEF Effect, Booking
    <3>3. Replicas!Mint(d) \/ Replicas!Learn(d)
      BY <2>1, <3>1, <3>2, MintingImplements, LearningImplements
    <3> QED
      BY <3>3 DEF Replicas!Next
  <2> QED
    BY <2>1
<1> QED
  BY <1>1, <1>2, SafeHolds, PTL DEF Spec, ImplementsReplicated, Replicas!Spec

-----------------------------------------------------------------------------
(* Two devices that are done talking hold the same document, as long as no *)
(* send has failed on a connection that stayed.                            *)

LastHeads(q) == q[Len(q)].heads

\* Without a write waiting for its save window, x has told y all it holds.
Briefed(x, y) == Talks(x, y) /\ ~unsent[x] => sync[x][y].spoken = Doc(x)

\* With nothing on the way, both have spoken of the same document.
Settled(x, y) ==
    Talks(x, y) /\ Talks(y, x) /\ chan[x][y] = <<>> /\ chan[y][x] = <<>> =>
        sync[x][y].spoken = sync[y][x].spoken

\* The last letter on its way tells what its writer last spoke of, unless
\* the writer has since heard that the reader holds all of it.
Current(x, y) ==
    chan[x][y] # <<>> =>
        \/ LastHeads(chan[x][y]) = sync[x][y].spoken
        \/ /\ sync[x][y].theirs = sync[x][y].spoken
           /\ sync[x][y].theirs \subseteq Doc(y)
           /\ LastHeads(chan[x][y]) \subseteq sync[x][y].spoken

Understood ==
    drops = 0 =>
        \A x, y \in Devices : Briefed(x, y) /\ Settled(x, y) /\ Current(x, y)

\* A sync state that is fresh has something to say: no document is Nothing.
LEMMA FreshSpeaks ==
    ASSUME Held, NEW d \in Devices
    PROVE  ~Silent(Doc(d), FreshSync)
<1>1. Doc(d) \in SUBSET (1..MaxChanges)
  <2>1. Doc(d) \subseteq 1..Len(log) /\ Len(log) \in Nat /\ Len(log) =< MaxChanges /\ MaxChanges \in Nat
    BY DocWithin, BoundAssumption DEF Held
  <2>2. 1..Len(log) \subseteq 1..MaxChanges
    BY <2>1
  <2> QED
    BY <2>1, <2>2
<1>2. Doc(d) # Nothing
  BY <1>1, NothingAssumption
<1> QED
  BY <1>2 DEF Silent, FreshSync

\* Having spoken: what was spoken of is the document, and either a letter
\* about it is the last one, or there was nothing to say.
LEMMA Speaking ==
    ASSUME NEW doc \in SUBSET Nat, NEW s, NEW q, Carries(q, doc), NEW other, Remembers(s, doc, other)
    PROVE  /\ Advanced(doc, s).spoken = doc
           /\ \/ /\ Told(doc, s, q) # <<>> /\ LastHeads(Told(doc, s, q)) = doc
                 /\ ~Silent(doc, s)
              \/ Silent(doc, s) /\ Advanced(doc, s) = s /\ Told(doc, s, q) = q
<1>1. CASE Silent(doc, s)
  BY <1>1 DEF Silent, Advanced, Told
<1>2. CASE ~Silent(doc, s)
  <2> DEFINE m == Message(doc, s)
  <2>1. m \in Letter /\ m.heads = doc
    BY DEF Message, Letter, Lacking
  <2> HIDE DEF m
  <2>2. q \in Seq(Letter) /\ Len(q) \in Nat
    BY DEF Carries
  <2>3. Append(q, m) # <<>> /\ Len(Append(q, m)) = Len(q) + 1 /\ Append(q, m)[Len(q) + 1] = m
    BY <2>1, <2>2
  <2>4. Told(doc, s, q) = Append(q, m)
    BY <1>2 DEF Told, m
  <2>5. Advanced(doc, s).spoken = doc
    BY <1>2 DEF Advanced, Remembers, State
  <2> QED
    BY <1>2, <2>1, <2>3, <2>4, <2>5 DEF LastHeads
<1> QED
  BY <1>1, <1>2

LEMMA EmptyQueue ==
    ASSUME NEW S, NEW q \in Seq(S)
    PROVE  q = <<>> <=> Len(q) = 0
  OBVIOUS

LEMMA LastOfTail ==
    ASSUME NEW q, NEW doc, Carries(q, doc), q # <<>>
    PROVE  /\ Tail(q) # <<>> => LastHeads(Tail(q)) = LastHeads(q)
           /\ Tail(q) = <<>> => Head(q).heads = LastHeads(q)
           /\ LastHeads(q) \subseteq doc
<1> DEFINE rest == Tail(q)
<1>1. q \in Seq(Letter) /\ Len(q) \in Nat /\ Len(q) > 0 /\ Head(q) = q[1]
  BY DEF Carries
<1>2. /\ Len(rest) = Len(q) - 1 /\ rest \in Seq(Letter)
      /\ \A i \in 1..Len(rest) : rest[i] = q[i + 1]
  BY <1>1
<1> HIDE DEF rest
<1>3. rest = <<>> <=> Len(q) = 1
  BY <1>1, <1>2, EmptyQueue
<1>4. Len(q) \in 1..Len(q) /\ q[Len(q)].heads \subseteq doc
  BY <1>1 DEF Carries
<1>5. Len(q) # 1 => rest[Len(rest)] = q[Len(q)]
  <2>1. Len(q) # 1 => Len(rest) \in 1..Len(rest) /\ Len(rest) + 1 = Len(q)
    BY <1>1, <1>2
  <2> QED
    BY <1>2, <2>1
<1>6. LastHeads(q) = q[Len(q)].heads /\ LastHeads(rest) = rest[Len(rest)].heads
  BY DEF LastHeads
<1> QED
  BY <1>1, <1>3, <1>4, <1>5, <1>6 DEF rest

\* What is known of the two ends before a step.
Ends(x, y) ==
    /\ Carries(chan[x][y], Doc(x)) /\ Remembers(sync[x][y], Doc(x), Doc(y))
    /\ Carries(chan[y][x], Doc(y)) /\ Remembers(sync[y][x], Doc(y), Doc(x))
    /\ Carries(chan[x][y], Doc(x)') /\ Remembers(sync[x][y], Doc(x)', Doc(y)')
    /\ Doc(x) \subseteq Doc(x)' /\ Doc(y) \subseteq Doc(y)'
    /\ Doc(x)' \in SUBSET Nat /\ Doc(y) \in SUBSET Nat /\ Doc(x) \in SUBSET Nat
    /\ ~Silent(Doc(x)', FreshSync)

LEMMA DocSpeaks ==
    Held => \A d \in Devices : Doc(d) \in SUBSET Nat /\ ~Silent(Doc(d), FreshSync)
  BY DocWithin, FreshSpeaks

LEMMA EndsKnown ==
    ASSUME Safe, Safe', Effect, NEW x \in Devices, NEW y \in Devices
    PROVE  Ends(x, y)
<1>1. /\ Doc(x) \subseteq Doc(x)' /\ Doc(y) \subseteq Doc(y)'
  BY DEF Effect, Grows
<1>2. /\ Carries(chan[x][y], Doc(x)) /\ Remembers(sync[x][y], Doc(x), Doc(y))
      /\ Carries(chan[y][x], Doc(y)) /\ Remembers(sync[y][x], Doc(y), Doc(x))
  BY DEF Safe, Wire
<1>3. Carries(chan[x][y], Doc(x)') /\ Remembers(sync[x][y], Doc(x)', Doc(y)')
  BY <1>1, <1>2, CarriesMore, RemembersMore
<1>4. Held /\ Held'
  BY DEF Safe
<1>5. (Held => \A d \in Devices : Doc(d) \in SUBSET Nat /\ ~Silent(Doc(d), FreshSync))'
  BY DocSpeaks, PTL
<1>6. \A d \in Devices : Doc(d)' \in SUBSET Nat /\ ~Silent(Doc(d)', FreshSync)
  BY <1>4, <1>5 DEF FreshSync
<1> QED
  BY <1>1, <1>2, <1>3, <1>4, <1>6, DocSpeaks DEF Ends

LEMMA HeardKnown ==
    ASSUME NEW x, NEW y, Ends(x, y), chan[y][x] # <<>>
    PROVE  Remembers(Heard(Doc(x), sync[x][y], Head(chan[y][x])), Doc(x)', Doc(y)')
<1> DEFINE m == Head(chan[y][x])
<1>1. m \in Letter /\ m.heads \subseteq Doc(y)
  BY FirstLetter DEF Ends
<1> HIDE DEF m
<1>2. Remembers(Heard(Doc(x), sync[x][y], m), Doc(x), Doc(y))
  BY <1>1, HeardRemembers DEF Ends
<1>3. Remembers(Heard(Doc(x), sync[x][y], m), Doc(x)', Doc(y)')
  BY <1>2, RemembersMore DEF Ends
<1> QED
  BY <1>3 DEF m

LEMMA Said ==
    ASSUME NEW x, NEW y, Ends(x, y), NEW s, Say(x, y, s), Remembers(s, Doc(x)', Doc(y)')
    PROVE  /\ sync'[x][y].spoken = Doc(x)'
           /\ \/ chan'[x][y] # <<>> /\ LastHeads(chan'[x][y]) = Doc(x)' /\ ~Silent(Doc(x)', s)
              \/ Silent(Doc(x)', s) /\ sync'[x][y] = s /\ chan'[x][y] = chan[x][y]
<1>1. /\ Advanced(Doc(x)', s).spoken = Doc(x)'
      /\ \/ /\ Told(Doc(x)', s, chan[x][y]) # <<>> /\ LastHeads(Told(Doc(x)', s, chan[x][y])) = Doc(x)'
            /\ ~Silent(Doc(x)', s)
         \/ /\ Silent(Doc(x)', s) /\ Advanced(Doc(x)', s) = s
            /\ Told(Doc(x)', s, chan[x][y]) = chan[x][y]
  BY Speaking DEF Ends
<1>2. sync'[x][y] = Advanced(Doc(x)', s) /\ chan'[x][y] = Told(Doc(x)', s, chan[x][y])
  BY DEF Say
<1> HIDE DEF Advanced, Told, Silent
<1> QED
  BY <1>1, <1>2

\* x spoke from what it remembered, or from what it had just heard.
LEMMA SaysOrHears ==
    ASSUME NEW x, NEW y, Ends(x, y), Say(x, y, sync[x][y]) \/ Hear(x, y)
    PROVE  sync'[x][y].spoken = Doc(x)'
<1>1. CASE Say(x, y, sync[x][y])
  BY <1>1, Said DEF Ends
<1>2. CASE Hear(x, y)
  <2> DEFINE s == Heard(Doc(x), sync[x][y], Head(chan[y][x]))
  <2>1. Say(x, y, s) /\ Remembers(s, Doc(x)', Doc(y)')
    BY <1>2, HeardKnown DEF Hear, Taken
  <2> HIDE DEF s
  <2> QED
    BY <2>1, Said
<1> QED
  BY <1>1, <1>2

LEMMA BriefedStep ==
    ASSUME NEW x, NEW y, Ends(x, y), Meet(x, y), Briefed(x, y)
    PROVE  Briefed(x, y)'
<1>1. CASE Cut(x, y)
  BY <1>1 DEF Cut, Briefed, Talks
<1>2. CASE Waits(x, y) /\ sync'[x][y] = sync[x][y]
  BY <1>2 DEF Waits, Briefed
<1>3. CASE Say(x, y, sync[x][y]) \/ Hear(x, y)
  BY <1>3, SaysOrHears DEF Briefed
<1> QED
  BY <1>1, <1>2, <1>3 DEF Meet, Hold, Hear, Lose, Taken

LEMMA CurrentStep ==
    ASSUME NEW x, NEW y, Ends(x, y), Meet(x, y), Current(x, y)
    PROVE  Current(x, y)'
<1>1. CASE Cut(x, y)
  BY <1>1 DEF Cut, Current
<1>2. CASE sync'[x][y] = sync[x][y] /\ chan'[x][y] = chan[x][y]
  BY <1>2 DEF Current, Ends
<1>3. CASE chan[x][y] # <<>> /\ chan'[x][y] = Tail(chan[x][y]) /\ sync'[x][y] = sync[x][y]
  <2>1. chan'[x][y] # <<>> => LastHeads(chan'[x][y]) = LastHeads(chan[x][y])
    BY <1>3, LastOfTail DEF Ends
  <2> QED
    BY <1>3, <2>1 DEF Current, Ends
<1>4. CASE Say(x, y, sync[x][y])
  <2>1. CASE chan'[x][y] # <<>> /\ LastHeads(chan'[x][y]) = Doc(x)'
    BY <1>4, <2>1, SaysOrHears DEF Current
  <2> QED
    BY <1>2, <1>4, <2>1, Said DEF Ends
<1>5. CASE Hear(x, y)
  <2> DEFINE m == Head(chan[y][x])
             s == Heard(Doc(x), sync[x][y], m)
  <2>1. Say(x, y, s) /\ Remembers(s, Doc(x)', Doc(y)') /\ chan[y][x] # <<>>
    BY <1>5, HeardKnown DEF Hear, Taken
  <2>2. s.theirs = m.heads /\ s.inFlight = FALSE
    BY DEF Heard
  <2>3. m.heads \subseteq Doc(y) /\ Doc(y) \subseteq Doc(y)'
    BY <2>1, FirstLetter DEF Ends
  <2> HIDE DEF s, m
  <2>4. CASE chan'[x][y] # <<>> /\ LastHeads(chan'[x][y]) = Doc(x)'
    BY <2>1, <2>4, Said DEF Current
  <2>5. CASE Silent(Doc(x)', s) /\ sync'[x][y] = s /\ chan'[x][y] = chan[x][y]
    <3>1. s.spoken = Doc(x)' /\ s.theirs = Doc(x)' /\ s.theirs \subseteq Doc(y)'
      BY <2>2, <2>3, <2>5 DEF Silent
    <3>2. chan[x][y] # <<>> => LastHeads(chan[x][y]) \subseteq Doc(x)'
      BY LastOfTail DEF Ends
    <3> QED
      BY <2>5, <3>1, <3>2 DEF Current
  <2> QED
    BY <2>1, <2>4, <2>5, Said
<1> QED
  BY <1>1, <1>2, <1>3, <1>4, <1>5 DEF Meet, Hold, Hear, Lose, Taken

LEMMA SettledBothWays ==
    ASSUME NEW x, NEW y
    PROVE  Settled(x, y) <=> Settled(y, x)
  BY DEF Settled

\* x says something on its own, and nothing is on the way after it: it had
\* nothing to say.
LEMMA SettledSay ==
    ASSUME NEW x, NEW y, Ends(x, y), Say(x, y, sync[x][y]), Hold(y, x), Settled(x, y)
    PROVE  Settled(x, y)'
<1>1. CASE chan'[x][y] # <<>>
  BY <1>1 DEF Settled
<1>2. CASE chan'[x][y] = <<>>
  <2>1. /\ Silent(Doc(x)', sync[x][y]) /\ sync'[x][y] = sync[x][y]
        /\ chan'[x][y] = chan[x][y]
    BY <1>2, Said DEF Ends
  <2>2. Talks(x, y)
    BY <2>1 DEF Say, Ends
  <2>3. sync'[y][x] = sync[y][x] /\ chan'[y][x] = chan[y][x] /\ (Talks(y, x)' => Talks(y, x))
    BY DEF Hold, Waits
  <2> QED
    BY <2>1, <2>2, <2>3 DEF Settled
<1> QED
  BY <1>1, <1>2

\* x hears the last letter on its way and has nothing to answer: both hold
\* what the letter told of.
LEMMA SettledHear ==
    ASSUME NEW x, NEW y, Ends(x, y), Hear(x, y), Current(y, x)
    PROVE  Settled(x, y)'
<1> DEFINE m == Head(chan[y][x])
           s == Heard(Doc(x), sync[x][y], m)
<1>1. /\ Say(x, y, s) /\ Remembers(s, Doc(x)', Doc(y)')
      /\ chan[y][x] # <<>> /\ chan'[y][x] = Tail(chan[y][x]) /\ sync'[y][x] = sync[y][x]
  BY HeardKnown DEF Hear, Taken
<1>2. s.theirs = m.heads /\ s.inFlight = FALSE
  BY DEF Heard
<1>3. Tail(chan[y][x]) = <<>> => m.heads = LastHeads(chan[y][x])
  BY <1>1, LastOfTail DEF Ends
<1> HIDE DEF m, s
<1>4. CASE chan'[x][y] # <<>> \/ chan'[y][x] # <<>>
  BY <1>4 DEF Settled
<1>5. CASE chan'[x][y] = <<>> /\ chan'[y][x] = <<>>
  <2>1. Silent(Doc(x)', s) /\ sync'[x][y] = s
    BY <1>1, <1>5, Said
  <2>2. s.spoken = Doc(x)' /\ m.heads = Doc(x)' /\ LastHeads(chan[y][x]) = Doc(x)'
    BY <1>1, <1>2, <1>3, <1>5, <2>1 DEF Silent
  <2>3. \/ Doc(x)' = sync[y][x].spoken
        \/ /\ sync[y][x].theirs = sync[y][x].spoken /\ sync[y][x].theirs \subseteq Doc(x)
           /\ Doc(x)' \subseteq sync[y][x].spoken
    BY <1>1, <2>2 DEF Current
  <2>4. sync[y][x].spoken = Doc(x)'
    BY <2>3 DEF Ends
  <2> QED
    BY <1>1, <2>1, <2>2, <2>4 DEF Settled
<1> QED
  BY <1>4, <1>5

LEMMA SettledStep ==
    ASSUME NEW x, NEW y, Ends(x, y), Ends(y, x), Meet(x, y), drops' = drops,
           Settled(x, y), Current(x, y), Current(y, x)
    PROVE  Settled(x, y)'
<1>1. CASE Cut(x, y)
  BY <1>1 DEF Cut, Settled, Talks
<1>2. CASE Hold(x, y) /\ Hold(y, x)
  BY <1>2 DEF Hold, Waits, Settled
<1>3. CASE Say(x, y, sync[x][y]) /\ Hold(y, x)
  BY <1>3, SettledSay
<1>4. CASE Hold(x, y) /\ Say(y, x, sync[y][x])
  <2>1. Settled(y, x)'
    BY <1>4, SettledSay, SettledBothWays
  <2> QED
    BY <2>1 DEF Settled
<1>5. CASE Hear(x, y)
  BY <1>5, SettledHear
<1>6. CASE Hear(y, x)
  <2>1. Settled(y, x)'
    BY <1>6, SettledHear
  <2> QED
    BY <2>1 DEF Settled
<1>7. CASE Lose(x, y) \/ Lose(y, x)
  BY <1>7 DEF Lose, Settled
<1> QED
  BY <1>1, <1>2, <1>3, <1>4, <1>5, <1>6, <1>7 DEF Meet

\* Only a send that fails counts as one, and only while one may.
LEMMA OnlyDropDrops ==
    ASSUME Flags, [Next]_vars
    PROVE  drops' = drops \/ (drops < MaxDrops /\ drops' = drops + 1)
<1>1. ASSUME NEW d \in Devices, NEW p \in Devices,
             \/ Admit(d, p) \/ Disconnect(d, p) \/ Refuse(d, p) \/ Receive(d, p)
      PROVE  drops' = drops
  BY <1>1 DEF Admit, Disconnect, Refuse, Receive, faults
<1>2. ASSUME NEW d \in Devices, NEW p \in Devices, Drop(d, p)
      PROVE  drops < MaxDrops /\ drops' = drops + 1
  BY <1>2 DEF Drop
<1>3. ASSUME NEW d \in Devices, Upgrade(d) \/ Broadcast(d)
      PROVE  drops' = drops
  BY <1>3 DEF Upgrade, Broadcast, faults
<1>4. ASSUME NEW t \in Removable, RevokeDevice(t)
      PROVE  drops' = drops
  BY <1>4 DEF RevokeDevice, faults
<1>5. ASSUME NEW d, NEW f, NEW v, Write(d, f, v) \/ Resolve(d, f, v)
      PROVE  drops' = drops
  BY <1>5 DEF Write, Resolve, faults
<1>6. CASE UNCHANGED vars
  BY <1>6 DEF vars
<1> QED
  BY <1>1, <1>2, <1>3, <1>4, <1>5, <1>6 DEF Next, Edit

LEMMA UnderstoodStep ==
    ASSUME Safe, Safe', Effect, Understood, [Next]_vars
    PROVE  Understood'
<1> SUFFICES ASSUME drops' = 0, NEW x \in Devices, NEW y \in Devices
             PROVE  Briefed(x, y)' /\ Settled(x, y)' /\ Current(x, y)'
  BY DEF Understood
<1>1. drops = 0 /\ drops' = drops
  BY OnlyDropDrops DEF Safe, Flags
<1>2. /\ Briefed(x, y) /\ Settled(x, y) /\ Current(x, y) /\ Current(y, x)
  BY <1>1 DEF Understood
<1>3. Ends(x, y) /\ Ends(y, x)
  BY EndsKnown
<1>4. Meet(x, y)
  BY DEF Effect, Exchange
<1> QED
  BY <1>1, <1>2, <1>3, <1>4, BriefedStep, SettledStep, CurrentStep

LEMMA FirstUnderstood ==
    ASSUME Init
    PROVE  Understood
<1>1. \A x, y \in Devices : chan[x][y] = <<>> /\ y \notin admitted[x]
  BY DEF Init
<1> QED
  BY <1>1 DEF Understood, Briefed, Settled, Current, Talks

LEMMA SafeUnderstood == Spec => [](Safe /\ Understood)
<1>1. Init => Safe /\ Understood
  BY InitSafe, FirstUnderstood
<1>2. Safe /\ Understood /\ [Next]_vars => (Safe /\ Understood)'
  <2>1. ASSUME Safe, Understood, [Next]_vars
        PROVE  Safe' /\ Understood'
    BY <2>1, SafeStep, UnderstoodStep
  <2> QED
    BY <2>1
<1> QED
  BY <1>1, <1>2, PTL DEF Spec

LEMMA UnderstoodEqual ==
    ASSUME Understood, drops = 0
    PROVE  QuietMeansEqual
<1> SUFFICES ASSUME NEW d \in Devices, NEW p \in Devices,
                    p \in admitted[d], d \in admitted[p], version[d] = version[p],
                    p \notin removed[d], d \notin removed[p],
                    chan[d][p] = <<>>, chan[p][d] = <<>>, ~unsent[d], ~unsent[p]
             PROVE  Doc(d) = Doc(p)
  BY DEF QuietMeansEqual
<1>1. Talks(d, p) /\ Talks(p, d)
  BY DEF Talks
<1>2. Briefed(d, p) /\ Briefed(p, d) /\ Settled(d, p)
  BY DEF Understood
<1> QED
  BY <1>1, <1>2 DEF Briefed, Settled

\* As long as no send has failed on a connection that stayed, two devices
\* that have nothing more to say to each other hold the same document.
THEOREM QuietUntilDropped == Spec => [](drops = 0 => QuietMeansEqual)
<1>1. Safe /\ Understood => (drops = 0 => QuietMeansEqual)
  BY UnderstoodEqual
<1> QED
  BY <1>1, SafeUnderstood, PTL

\* Where sends do not fail on a connection that stays: always.
THEOREM QuietIsEqual ==
    ASSUME MaxDrops = 0
    PROVE  Spec => []QuietMeansEqual
<1>1. Init => Safe /\ Understood /\ drops = 0
  BY InitSafe, FirstUnderstood DEF Init
<1>2. Safe /\ Understood /\ drops = 0 /\ [Next]_vars => (Safe /\ Understood /\ drops = 0)'
  <2>1. ASSUME Safe, Understood, drops = 0, [Next]_vars
        PROVE  Safe' /\ Understood' /\ drops' = 0
    <3>1. drops' = drops
      BY <2>1, OnlyDropDrops DEF Safe
    <3> QED
      BY <2>1, <3>1, SafeStep, UnderstoodStep
  <2> QED
    BY <2>1
<1>3. Safe /\ Understood /\ drops = 0 => QuietMeansEqual
  BY UnderstoodEqual
<1> QED
  BY <1>1, <1>2, <1>3, PTL DEF Spec
=============================================================================
