------------------------------ MODULE SyncNode ------------------------------
(***************************************************************************)
(* The sync nodes of the devices of one camp                               *)
(* (electron/sync/automerge/syncNode.js, the sending and admission half of *)
(* transport.js, electron/automerge/conflictStore.js and the guards of     *)
(* projector.js).                                                          *)
(*                                                                         *)
(* Devices connect, each admits the other in its own time, and from then   *)
(* on they exchange Automerge sync messages until neither has anything to  *)
(* say.  What a message brings is merged, the conflicts it shows are       *)
(* recorded, SQLite is projected, and every other admitted peer is told.   *)
(*                                                                         *)
(* Covered: connections lost at any moment, messages to a device that has  *)
(* not admitted the sender yet, messages that fail on a connection that    *)
(* stays, projections that throw, devices on another schema version,       *)
(* removals taking effect in the middle of an exchange, writes and         *)
(* resolutions at any time.                                                *)
(* Not covered: saving (DualWrite), the minting and replay of the          *)
(* authority log (AuthorityLog; here a removal is one change), a           *)
(* connection that only one end has noticed to be gone, and false          *)
(* positives of Automerge's Bloom filters.                                 *)
(***************************************************************************)
EXTENDS CampRegisters

CONSTANTS
    Devices, Fields, Values,
    Editors,       \* the devices on which somebody may write
    Host,          \* the device that removes others
    Removable,     \* the devices it may remove
    Links,         \* the pairs of devices that can reach each other
    Nothing,       \* a document or a card that is not there
    Outdated,      \* the devices that start on an older schema version
    Offline,       \* what some devices wrote before they met: [by, field, val]
    MaxChanges,    \* bound: changes minted
    MaxCuts,       \* bound: connections lost
    Flaky,         \* the devices on which SQLite may refuse a projection
    MaxFailures,   \* bound: projections that have thrown when it no longer may
    MaxDrops       \* bound: sends that fail on a connection that stays

ASSUME DeviceAssumption ==
    /\ Host \in Devices /\ Editors \subseteq Devices
    /\ Removable \subseteq Devices \ {Host} /\ Outdated \cup Flaky \subseteq Devices
    /\ Links \subseteq {pair \in SUBSET Devices : Cardinality(pair) = 2}
    /\ Fields \cap Devices = {}

ASSUME OfflineAssumption ==
    /\ Offline \in Seq([by : Devices, field : Fields, val : Values])
    /\ \A i, j \in DOMAIN Offline : Offline[i].by = Offline[j].by => i = j

ASSUME BoundAssumption == MaxChanges \in Nat /\ Len(Offline) =< MaxChanges

ASSUME NothingAssumption == \A held \in SUBSET (1..MaxChanges) : held # Nothing

VARIABLES
    log,       \* every change minted anywhere
    got,       \* the changes a device has received, those waiting for a cause included
    rows,      \* what its SQLite shows
    cards,     \* its rows of the conflicts table, per field
    removed,   \* the devices its authority_cache has down as revoked
    behind,    \* its last projection threw
    unsent,    \* a write waits in the save window to be broadcast
    version,   \* the schema version it runs
    admitted,  \* the peers each device has admitted
    sync,      \* the Automerge sync state each device holds for each peer
    chan,      \* the messages on their way from one device to another
    cuts, drops,   \* the connections and the messages lost so far
    failures   \* the projections that have thrown, for whatever reason

vars == <<log, got, rows, cards, removed, behind, unsent, version,
          admitted, sync, chan, cuts, failures, drops>>
faults == <<cuts, failures, drops>>

Changes == 1..Len(log)

\* Mutant of DocOf: a change applies although what it was built on is missing.
DocOfUnordered(l, held) == held

\* The document: what was received, less what waits for something it was built on.
DocOf(l, held) == {c \in held : l[c].past \subseteq held}
Doc(d) == DocOf(log, got[d])

FreshSync == [theirs |-> Nothing, sent |-> {}, spoken |-> Nothing, inFlight |-> FALSE]
NoCard == [state |-> "none", sides |-> {}]

Init ==
    /\ log = [i \in DOMAIN Offline |->
                [field |-> Offline[i].field, val |-> Offline[i].val, past |-> {}]]
    /\ got = [d \in Devices |-> {i \in DOMAIN Offline : Offline[i].by = d}]
    /\ rows = [d \in Devices |-> [f \in Fields |-> Shows(log, got[d], f)]]
    /\ cards = [d \in Devices |-> [f \in Fields |-> NoCard]]
    /\ removed = [d \in Devices |-> {}]
    /\ behind = [d \in Devices |-> FALSE]
    /\ unsent = [d \in Devices |-> FALSE]
    /\ version = [d \in Devices |-> IF d \in Outdated THEN 0 ELSE 1]
    /\ admitted = [d \in Devices |-> {}]
    /\ sync = [d \in Devices |-> [p \in Devices |-> FreshSync]]
    /\ chan = [d \in Devices |-> [p \in Devices |-> <<>>]]
    /\ cuts = 0 /\ failures = 0 /\ drops = 0

-----------------------------------------------------------------------------
(* Automerge's sync protocol (external): a state per peer, advanced when a *)
(* message is generated, whether or not it arrives.                        *)

\* What the peer lacks as far as its last message told, less what was sent.
Lacking(doc, s) == IF s.theirs = Nothing THEN {} ELSE (doc \ s.theirs) \ s.sent

\* generateSyncMessage has nothing to say: the peer has it all, or is about
\* to answer.
Silent(doc, s) ==
    /\ s.spoken = doc
    /\ s.inFlight \/ s.theirs = doc

Advanced(doc, s) ==
    IF Silent(doc, s) THEN s
    ELSE [s EXCEPT !.sent = @ \cup Lacking(doc, s), !.spoken = doc, !.inFlight = TRUE]

Message(doc, s) == [heads |-> doc, changes |-> Lacking(doc, s)]

Told(doc, s, queue) == IF Silent(doc, s) THEN queue ELSE Append(queue, Message(doc, s))

\* Mutant of Heard: an answer does not end the wait for it.
HeardWaits(doc, s, m) ==
    [theirs |-> m.heads, sent |-> s.sent \ m.heads, inFlight |-> s.inFlight, spoken |-> s.spoken]

\* receiveSyncMessage; doc is the document before the message.
Heard(doc, s, m) ==
    [theirs |-> m.heads,
     sent |-> IF m.heads = {} THEN {} ELSE s.sent \ m.heads,
     inFlight |-> FALSE,
     spoken |-> IF m.heads = {} THEN {}
                ELSE IF m.changes = {} /\ m.heads = doc THEN doc ELSE s.spoken]

-----------------------------------------------------------------------------
(* Recording conflicts and projecting                                      *)

\* recordConflicts: a card per contested field, unless one is pending.  The
\* key of a card names only the field, so the row of a settled card is in
\* the way of the next one (INSERT OR IGNORE).  clearResolvedConflicts: a
\* pending card whose field is no longer contested is settled.
Recorded(l, doc, card) ==
    [f \in Fields |->
        IF Contested(l, doc, f)
        THEN IF card[f].state = "none"
             THEN [state |-> "pending", sides |-> LiveValues(l, doc, f)] ELSE card[f]
        ELSE IF card[f].state = "pending" THEN [state |-> "settled", sides |-> {}] ELSE card[f]]

\* Mutant of Projectable: the guard is gone.
ProjectableAlways(l, doc, card) == TRUE

\* assertConflictsRecorded: projecting refuses a document with a conflict
\* that nobody is shown.
Projectable(l, doc, card) ==
    \A f \in Fields : Contested(l, doc, f) => card[f].state = "pending"

RemovedBy(l, doc) == {t \in Removable : \E c \in doc : l[c].field = t}

\* Mutant of Project: a projection that throws is not noticed.
ProjectUnnoticed(d, doc, base) ==
    /\ cards' = [cards EXCEPT ![d] = Recorded(log', doc, @)]
    /\ \E fails \in BOOLEAN :
          /\ fails => d \in Flaky /\ failures < MaxFailures
          /\ failures' = failures + (IF fails THEN 1 ELSE 0)
          /\ rows' = [rows EXCEPT ![d] =
                IF fails THEN base ELSE [f \in Fields |-> Shows(log', doc, f)]]
          /\ removed' = [removed EXCEPT ![d] = IF fails THEN @ ELSE RemovedBy(log', doc)]
          /\ behind' = [behind EXCEPT ![d] = FALSE]

\* Mutant of Project: the rows are projected, the authority cache is not.
ProjectRowsOnly(d, doc, base) ==
    /\ cards' = [cards EXCEPT ![d] = Recorded(log', doc, @)]
    /\ rows' = [rows EXCEPT ![d] = [f \in Fields |-> Shows(log', doc, f)]]
    /\ behind' = [behind EXCEPT ![d] = FALSE]
    /\ UNCHANGED <<removed, failures>>

\* The projection on d of the document `doc`: all of it, or nothing when it
\* throws.  `base` is what SQLite shows before it.
Project(d, doc, base) ==
    /\ cards' = [cards EXCEPT ![d] = Recorded(log', doc, @)]
    /\ \E fails \in BOOLEAN :
          /\ fails => d \in Flaky /\ failures < MaxFailures
          /\ LET lands == ~fails /\ Projectable(log', doc, cards'[d])
             IN  /\ failures' = failures + (IF lands THEN 0 ELSE 1)
                 /\ rows' = [rows EXCEPT ![d] =
                                IF lands THEN [f \in Fields |-> Shows(log', doc, f)] ELSE base]
                 /\ removed' = [removed EXCEPT ![d] = IF lands THEN RemovedBy(log', doc) ELSE @]
                 /\ behind' = [behind EXCEPT ![d] = ~lands]

-----------------------------------------------------------------------------
(* Speaking to peers                                                       *)

\* stepSync's gates for d and p: the schema versions agree, and d does not
\* have p down as removed.
MaySync(d, p) == version[d] = version[p] /\ p \notin removed'[d]

\* The rest of every handler of d: hang up on the connected peers in `gone`,
\* then generate a message for each peer in `peers`.  `held` is what d has
\* received, `states` its sync states so far, `inbox` what is still on its way.
Speak(d, held, states, peers, gone, inbox) ==
    LET doc == DocOf(log', held)
        told == {p \in peers \ gone : MaySync(d, p)}
        cut(x, y) == (x = d /\ y \in gone) \/ (y = d /\ x \in gone)
    IN  /\ admitted' = [x \in Devices |-> {y \in admitted[x] : ~cut(x, y)}]
        /\ sync' = [x \in Devices |-> [y \in Devices |->
                        IF cut(x, y) THEN FreshSync
                        ELSE IF x # d THEN sync[x][y]
                        ELSE IF y \in told THEN Advanced(doc, states[y]) ELSE states[y]]]
        /\ chan' = [x \in Devices |-> [y \in Devices |->
                        IF cut(x, y) THEN <<>>
                        ELSE IF x = d /\ y \in told THEN Told(doc, states[y], inbox[x][y])
                        ELSE inbox[x][y]]]

\* Mutant of TornDown: a removal that arrives leaves the connection up.
TornDownNever(d) == {}

\* tearDownRevokedConnectedPeers, after a projection that did not throw.
TornDown(d) == IF behind'[d] THEN {} ELSE admitted[d] \cap removed'[d]

-----------------------------------------------------------------------------
(* Connections                                                             *)

\* onAuthenticate answered p, then onPeerAdmitted: d admits p, and speaks first.
Admit(d, p) ==
    /\ {d, p} \in Links /\ p \notin admitted[d]
    /\ p \notin removed[d] /\ d \notin removed[p]
    /\ admitted' = [admitted EXCEPT ![d] = @ \cup {p}]
    /\ UNCHANGED <<log, got, rows, cards, removed, behind, unsent, version, faults>>
    /\ IF MaySync(d, p)
       THEN /\ sync' = [sync EXCEPT ![d][p] = Advanced(Doc(d), @)]
            /\ chan' = [chan EXCEPT ![d][p] = Told(Doc(d), sync[d][p], @)]
       ELSE UNCHANGED <<sync, chan>>

\* Both ends forget the connections of `pairs`: onPeerDisconnected.
Forget(pairs) ==
    LET lost(x, y) == {x, y} \in pairs
    IN  /\ admitted' = [x \in Devices |-> {y \in admitted[x] : ~lost(x, y)}]
        /\ sync' = [x \in Devices |-> [y \in Devices |->
                        IF lost(x, y) THEN FreshSync ELSE sync[x][y]]]
        /\ chan' = [x \in Devices |-> [y \in Devices |->
                        IF lost(x, y) THEN <<>> ELSE chan[x][y]]]

Disconnect(d, p) ==
    /\ p \in admitted[d] \/ d \in admitted[p]
    /\ cuts < MaxCuts
    /\ cuts' = cuts + 1
    /\ Forget({{d, p}})
    /\ UNCHANGED <<log, got, rows, cards, removed, behind, unsent, version, failures, drops>>

\* A device is restarted on the current schema version.
Upgrade(d) ==
    /\ version[d] = 0
    /\ version' = [version EXCEPT ![d] = 1]
    /\ Forget({pair \in Links : d \in pair})
    /\ UNCHANGED <<log, got, rows, cards, removed, behind, unsent, faults>>

\* sendSyncMessage failed: the sync state has already moved on.
Drop(d, p) ==
    /\ chan[d][p] # <<>> /\ drops < MaxDrops
    /\ drops' = drops + 1
    /\ chan' = [chan EXCEPT ![d][p] = Tail(@)]
    /\ UNCHANGED <<log, got, rows, cards, removed, behind, unsent, version,
                   admitted, sync, cuts, failures>>

-----------------------------------------------------------------------------
(* Receiving                                                               *)

\* The message is thrown away: by the transport when d has not admitted p,
\* by handleSyncMessage when p is removed or on another schema version.
Refuse(d, p) ==
    /\ chan[p][d] # <<>>
    /\ p \notin admitted[d] \/ p \in removed[d] \/ version[d] # version[p]
    /\ chan' = [chan EXCEPT ![p][d] = Tail(@)]
    /\ UNCHANGED <<log, got, rows, cards, removed, behind, unsent, version,
                   admitted, sync, faults>>

\* Mutant of Receive: nobody but the sender is answered.
ReceiveNoRelay(d, p) ==
    /\ chan[p][d] # <<>>
    /\ p \in admitted[d] /\ p \notin removed[d] /\ version[d] = version[p]
    /\ LET m == Head(chan[p][d])
           held == got[d] \cup m.changes
           states == [sync[d] EXCEPT ![p] = Heard(Doc(d), @, m)]
       IN  /\ got' = [got EXCEPT ![d] = held]
           /\ UNCHANGED <<log, unsent, version, cuts, drops>>
           /\ Project(d, DocOf(log, held), rows[d])
           /\ Speak(d, held, states, {p}, TornDown(d), [chan EXCEPT ![p][d] = Tail(@)])

\* handleSyncMessage: merge, and if that brought something new, record the
\* conflicts, project, and tell every other admitted peer; answer in any case.
Receive(d, p) ==
    /\ chan[p][d] # <<>>
    /\ p \in admitted[d] /\ p \notin removed[d] /\ version[d] = version[p]
    /\ LET m == Head(chan[p][d])
           held == got[d] \cup m.changes
           news == DocOf(log, held) # Doc(d)
           states == [sync[d] EXCEPT ![p] = Heard(Doc(d), @, m)]
           inbox == [chan EXCEPT ![p][d] = Tail(@)]
       IN  /\ got' = [got EXCEPT ![d] = held]
           /\ UNCHANGED <<log, unsent, version, cuts, drops>>
           /\ IF news
              THEN /\ Project(d, DocOf(log, held), rows[d])
                   /\ Speak(d, held, states, admitted[d], TornDown(d), inbox)
              ELSE /\ UNCHANGED <<rows, cards, removed, behind, failures>>
                   /\ Speak(d, held, states, {p}, {}, inbox)

-----------------------------------------------------------------------------
(* Local changes                                                           *)

Minted(d, field, val) ==
    /\ Len(log) < MaxChanges
    /\ log' = Append(log, [field |-> field, val |-> val, past |-> Doc(d)])
    /\ got' = [got EXCEPT ![d] = @ \cup {Len(log) + 1}]

\* A write of the screens: SQLite and the document at once (DualWrite), the
\* peers when the save window closes.  Nothing reconciles or projects.
Write(d, f, v) ==
    /\ v # Shows(log, Doc(d), f)
    /\ Minted(d, f, v)
    /\ rows' = [rows EXCEPT ![d][f] = v]
    /\ unsent' = [unsent EXCEPT ![d] = TRUE]
    /\ UNCHANGED <<cards, removed, behind, version, admitted, sync, chan, faults>>

\* The save window closes: broadcastLocalDoc.
Broadcast(d) ==
    /\ unsent[d]
    /\ unsent' = [unsent EXCEPT ![d] = FALSE]
    /\ UNCHANGED <<log, got, rows, cards, removed, behind, version, faults>>
    /\ Speak(d, got[d], sync[d], admitted[d], {}, chan)

\* resolveConflict: a side of a pending card is written, in SQLite and in the
\* document, where it supersedes every competing value; then applyLocalDoc.
Resolve(d, f, v) ==
    /\ cards[d][f].state = "pending" /\ v \in cards[d][f].sides
    /\ Minted(d, f, v)
    /\ Project(d, DocOf(log', got'[d]), [rows[d] EXCEPT ![f] = v])
    /\ unsent' = [unsent EXCEPT ![d] = TRUE]
    /\ UNCHANGED <<version, cuts, drops>>
    /\ Speak(d, got'[d], sync[d], admitted[d], TornDown(d), chan)

\* revokeDevice on the host: the entry, its projection, and the target is
\* hung up on.
RevokeDevice(t) ==
    /\ t \in Removable \ removed[Host]
    /\ Minted(Host, t, "removed")
    /\ removed' = [removed EXCEPT ![Host] = @ \cup {t}]
    /\ unsent' = [unsent EXCEPT ![Host] = TRUE]
    /\ UNCHANGED <<rows, cards, behind, version, faults>>
    /\ Speak(Host, got'[Host], sync[Host], {}, admitted[Host] \cap {t}, chan)

Edit == \E d \in Editors, f \in Fields, v \in Values : Write(d, f, v) \/ Resolve(d, f, v)

Next ==
    \/ \E d, p \in Devices :
          \/ Admit(d, p) \/ Disconnect(d, p) \/ Drop(d, p)
          \/ Refuse(d, p) \/ Receive(d, p)
    \/ \E d \in Devices : Upgrade(d) \/ Broadcast(d)
    \/ \E t \in Removable : RevokeDevice(t)
    \/ Edit

Spec == Init /\ [][Next]_vars

-----------------------------------------------------------------------------
(* Fairness: as long as some device has something to do, something of it   *)
(* is done: a reachable peer admitted (discovery finds it again and        *)
(* again), a message handled, a save window closed, an outdated device     *)
(* upgraded.  No device is promised its turn, and no message either.       *)

Works ==
    \/ \E d \in Devices : Broadcast(d) \/ Upgrade(d)
    \/ \E d, p \in Devices : Admit(d, p) \/ Refuse(d, p) \/ Receive(d, p)

Fairness == WF_vars(Works)

FairSpec == Spec /\ Fairness

-----------------------------------------------------------------------------
(* Properties                                                              *)

SyncState == [theirs : (SUBSET Changes) \cup {Nothing}, sent : SUBSET Changes,
              spoken : (SUBSET Changes) \cup {Nothing}, inFlight : BOOLEAN]
Card == [state : {"none", "pending", "settled"}, sides : SUBSET Values]

\* The variables hold what their comments say; messages carry changes that
\* were minted, and only admitted peers have a sync state that has moved.
TypeOK ==
    /\ \A c \in Changes : /\ log[c].field \in Fields \cup Removable
                          /\ log[c].past \subseteq 1..(c - 1)
    /\ got \in [Devices -> SUBSET Changes]
    /\ rows \in [Devices -> [Fields -> Values \cup {Blank}]]
    /\ cards \in [Devices -> [Fields -> Card]]
    /\ removed \in [Devices -> SUBSET Removable]
    /\ behind \in [Devices -> BOOLEAN] /\ unsent \in [Devices -> BOOLEAN]
    /\ version \in [Devices -> {0, 1}]
    /\ \A d \in Devices : admitted[d] \subseteq {p \in Devices : {d, p} \in Links}
    /\ \A d, p \in Devices :
          /\ sync[d][p] \in SyncState
          /\ sync[d][p] # FreshSync => p \in admitted[d]
          /\ \A i \in DOMAIN chan[d][p] :
                chan[d][p][i].changes \subseteq Changes /\ chan[d][p][i].heads \subseteq Changes

\* The devices of one camp are replicas: whatever is lost, refused, merged
\* out of order or cut off, a document only grows by changes minted on top of
\* their causes, and SQLite shows what the document says or said.
Replicas == INSTANCE ReplicatedCamp WITH docs <- [d \in Devices |-> Doc(d)]
ImplementsReplicated == Replicas!Spec

\* Two devices that have admitted each other, with no message between them
\* and no write waiting for its save window, hold the same document: no
\* exchange ends early and nothing waits for a trigger that is not coming, in
\* whatever order the two admitted each other and other peers spoke.
QuietMeansEqual ==
    \A d, p \in Devices :
        /\ p \in admitted[d] /\ d \in admitted[p]
        /\ version[d] = version[p] /\ p \notin removed[d] /\ d \notin removed[p]
        /\ chan[d][p] = <<>> /\ chan[p][d] = <<>>
        /\ ~unsent[d] /\ ~unsent[p]
        => Doc(d) = Doc(p)

\* SQLite shows what the document says, unless the last projection threw.
RowsFollowDocument ==
    \A d \in Devices, f \in Fields : ~behind[d] => rows[d][f] = Shows(log, Doc(d), f)

\* A side of a disagreement is never shown as the answer while nobody is
\* asked: a contested field has a pending card, or the rows are held back
\* (assertConflictsRecorded).
NoSideChosenSilently ==
    \A d \in Devices, f \in Fields :
        Contested(log, Doc(d), f) => cards[d][f].state = "pending" \/ behind[d]

\* A device whose document names a removal, and could project it, has hung
\* up on the removed one (tearDownRevokedConnectedPeers).
HeldRemovalIsEnforced ==
    \A d \in Devices : ~behind[d] =>
        RemovedBy(log, Doc(d)) \subseteq removed[d] /\ removed[d] \cap admitted[d] = {}

\* While no projection has thrown, a removed device is told nothing that was
\* written by someone who knew: neither directly nor through a third device,
\* which enforces the removal before it passes anything on.
RemovedLearnsNothingNew ==
    failures = 0 =>
        \A t \in Removable : \A c \in got[t] :
            ~\E r \in log[c].past \cup {c} : log[r].field = t

\* What reconcile.js says of itself: no conflict goes unhandled.  A card is
\* pending for every contested field.
NoConflictUnhandled ==
    \A d \in Devices, f \in Fields :
        Contested(log, Doc(d), f) => cards[d][f].state = "pending"

\* Devices that can reach each other, at one version and not removed, end up
\* with one document, over as many relays as it takes, whatever was cut off
\* and whichever projections threw on the way.
Converges ==
    <>[](\A pair \in Links : \A d, p \in pair :
            d \in removed[p] \/ p \in removed[d] \/ Doc(d) = Doc(p))
=============================================================================
