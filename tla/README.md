# Shoresh Scheduling: verification project

TLA+ modules, TLC runs and TLAPS proofs for the parts of Shoresh whose
correctness depends on what happens *between* steps: one device's write path
into two stores, the handoff of a camp's signing key, turning at-rest encryption
off, the distributed log that says who is an admin, the exchange of documents
between devices, joining a camp, and finding a lost peer again.

Contents: [the system](#the-system) · [modules](#modules) ·
[runs](#runs-and-what-they-show) · [fairness](#fairness) ·
[proofs](#proofs) · [findings](#where-code-and-documents-disagree) ·
[not modelled](#what-is-not-modelled) · [plan](#plan)

## The system

Shoresh is an Electron application for summer camps. Every device holds the
whole camp in SQLite and in an Automerge document. Devices exchange documents
peer to peer over libp2p; one device, the *host*, holds the camp's signing key;
*admins*, recorded in a signed log inside the document, let devices in and remove
them.

| Component | State | Operations | Talks to | What is hard |
|---|---|---|---|---|
| Write path (`electron/ops/operations.js`, `electron/sync/automerge/liveDoc.js`) | op-log and projection in SQLite, the document in memory, its file, the deferred queue, the save window | `runAtomic`, `appendOp`, `appendBulkReplaceOp`, flush, save, seed | every screen's writes; the sync node's merges | SQLite rolls back, the document cannot; nesting; batches that fail half way; saves that fail; crashes in the debounce window |
| Host handoff (`electron/auth/hostHandoff.js`, `hostHandoffWire.js`) | `host_handoff` row, live and pending key, ephemeral keys | OFFER, ACCEPT, KEY, STORED, COMMIT, DONE, STATUS | transport, authority cache, the host-only tables | never two live keys, never none for good; lost and late messages; awaits; restarts |
| At-rest encryption off (`electron/db/disableAtRestEncryption.js`, `disableRecovery.js`) | journal, staged copies, backups, key file, marker | stage, swap, check, finish, roll back, recover at boot | the disable runner, `main.js` startup | a kill between any two file operations, and during the recovery from one |
| At-rest encryption on (`sqliteCipher.js`, `dbEncryptionKey.js`, `docCipher.js`) | key file, encrypted files, migration marker | mint or read the key, rekey a plaintext database | `main.js` startup | a kill in an in-place rekey |
| Authority log (`electron/automerge/authorityReplay.js`, `authorityLog.js`, `projector.js`) | the signed entries in the document, `authority_cache`, `devices.revoked_at` | replay to a fixed point; approve, revoke | sync, admission, handoff | the same answer on every device whatever the order of arrival; concurrent votes; thresholds that move |
| Sync node (`electron/sync/automerge/syncNode.js`) | sync states, admitted peers, schema versions | authenticate, receive, merge, reconcile, project, relay | transport, projector, liveDoc | gates before merge, consumed document handles, a projection that throws |
| Projector and conflicts (`projector.js`, `reconcile.js`, `conflictStore.js`, `tombstoneApply.js`) | rows derived from the document, pending conflicts | `projectAll`, record conflicts, apply tombstones | sync node, write path | one transaction; conflicts recorded before they are resolved |
| Join and pairing (`authGate.js`, `mutualAuth.js`, `joinSession.js`, `connectionAuth.js`) | pending devices, join window, nonces | join-code proof, pair, log in, authenticate | transport | the two ends admit at different moments; approvals overlap |
| Removal (`selfRemoval.js`, `removalEvidence.js`, `localReset.js`) | removed flag, reset marker | derive removal, reset | authority log | a removed device must learn it, and only from real evidence |
| Backup and restore (`backupRestore.js`) | staged restore | back up, restore, swap | liveDoc, `localDb.js` | a crash in the swap |
| Reconnection (`reconnectCoordinator.js`, `punch*.js`, `portMapping*.js`) | backoff, demands, timers | sweep, dial, punch, wait | transport, rendezvous | timers racing late answers |
| Rendezvous worker (`workers/rendezvous/worker.js`) | records with expiry, write budgets | register, list | devices | caps that count expired rows |
| Electives (`commitElectiveRun.js`, `finalizeElectiveRun.js`, ...) | runs, assignments | commit, finalize, delete | write path | a run finalized against a stale generation |
| Import (`electron/ops/ingest.js`, `src/ingest/*`) | plan, decisions, evidence | plan, commit, undo | write path | all or nothing over thousands of writes |
| Schedule engine (`src/engine/*`) | none | generate a schedule | screens | a pure heuristic |
| Renderer state (`dragFSM.js`, `useGraceWindowUndo.js`, `useUndoRedo.js`) | drag, undo stacks | drag, drop, undo | IPC | timers racing navigation |

How they meet: screens call operations through IPC in the main process, where
everything of one call up to an `await` runs alone. A write goes to SQLite and is
mirrored into the document; the sync node exchanges the document with admitted
peers; the projector derives SQLite from a merged document, `authority_cache`
included; admission, the handoff and the disable read that state.

What makes each of them correct:

- **Write path.** Nothing rolled back replicates; SQLite and the document agree
  or the difference is on record; nothing in memory is forgotten before it is saved.
- **Handoff.** At most one live key at every instant; the key is never nowhere;
  the window with no host closes; what only the host knows travels with the key.
- **Encryption off.** At every instant the newest version of every file can be
  opened; the key goes last; a device ends encrypted or plain, and starts again.
- **Authority.** Equal documents give equal admins; the order of removals never
  matters; nobody removed has a say in what follows; no local stamp outlives the log.
- **Sync.** Devices that could meet end with equal documents; SQLite follows the
  document or is known to wait; a removed device learns nothing newer than the news
  of its removal; no side of a conflict is taken silently.
- **Join.** One libp2p node lives at a time and sync comes back; the director's row
  holds only a secret that was delivered, and nobody loses their place by asking.
- **Reconnection.** Whoever backs off is tried again; the rendezvous is asked only
  while a ladder waits for the answer; what was forgotten of a removed peer stays so.

## Modules

| Module | Models | Role |
|---|---|---|
| `DocumentBoundary` | what `runAtomic` and `liveDoc` promise together | abstract specification |
| `DualWrite` | `operations.js`, `liveDoc.js`, the flush and suspension of the disable runner | implements `DocumentBoundary` |
| `DualWrite_proofs` | | every safety property of the write path, and that it implements `DocumentBoundary` |
| `KeyCustody` | what the handoff promises | abstract specification |
| `HostHandoff` | `hostHandoff.js`, `hostHandoffWire.js`, the request path of `transport.js` | implements `KeyCustody` |
| `HostHandoff_proofs` | | never two live keys; implements `KeyCustody`; remembered answers survive |
| `AtRest` | what turning encryption off promises | abstract specification |
| `DisableEncryption` | `disableAtRestEncryption.js`, `disableRecovery.js`, the boot steps of `main.js` | implements `AtRest` |
| `DisableEncryption_proofs` | | the key goes last, nothing is lost, sessions open the latest, implements `AtRest` |
| `RemovalQuorum` | the threshold and the removals that follow from a set of votes | operators |
| `QuorumSweep` | the fixed-point loop of `stateAt`, in any order of iteration | ends at `RemovalQuorum!Survivors` |
| `QuorumSweep_proofs` | | confluence for every finite set of devices |
| `AuthorityReplay` | `authorityReplay.js`: standing, votes, peer-id binding | operators |
| `AuthorityLog` | `approveDevice`, `revokeDevice`, admission, sync, projection | composes the replay with several devices |
| `AuthorityLog_proofs` | | every property of the log, for every finite set of devices |
| `CampRegisters` | Automerge registers as `reconcile.js` and `docToRows.js` read them | operators |
| `ReplicatedCamp` | what the sync node promises | abstract specification |
| `SyncNode` | `syncNode.js`, the sending and admission half of `transport.js`, `conflictStore.js`, the guards of `projector.js` | implements `ReplicatedCamp` |
| `MCSyncNode` | | instances of `SyncNode` |
| `SyncNode_proofs` | | every safety property of the exchange; implements `ReplicatedCamp` |
| `Approval` | the approving computer: `approveDevice`, `denyDevice`, `revokeDevice`, `connectionAuth.js`, `authGate.js` | a component of `Join`, with a specification of its own |
| `NodeLifecycle` | the joining device's nodes: `syncStarter.js`, `syncStarterHolder.js`, `joinStart`, `joinCancel`, `joinAwaitData` | a component of `Join`, with a specification of its own |
| `Join` | `joinSession.js` | composes the two |
| `Join_proofs` | | the invariants of both components, that `Join` keeps to both, and that sync comes back |
| `Reconnect` | `reconnectCoordinator.js`, `punchReconnectWiring.js` | the ladder, the sweeps and the timer |
| `MCReconnect` | | the instance of `Reconnect`, with its symmetry |
| `Reconnect_proofs` | | demands are waited for, backoffs armed, removed peers forgotten |

### DualWrite

One device, a few fields. A value is the identity of the write that made it, so
a document with a rolled-back value shows. `frames` holds what SQLite would roll
back to, `queue` and `marks` are liveDoc's deferred writes and the queue's length
at each open frame. `CommitOutermost` is SQLite's COMMIT; the flush that follows
in the same call is a step of its own (`FlushQueue`, for a top-level write
`MirrorDirect`), because a crash can fall between them. `TimerFires` and
`FlushAndSuspend` save the file; `RemoteMerge` is a merge of the sync node with
its projection. `Restart` is a crash or a relaunch.

### HostHandoff

A variable per table (`row`, `live`, `pending`, `rows`) and for what a restart
forgets (`eph`, `accepting`, `exchanges`). An exchange is one request and its
reply: it may be handled after the caller gave up, and the reply may be lost
after the handler committed. The two `await`s between reading a row and writing
it (in `accept`, in `onAccept`) are two actions each. `Authority` is a change of
what a device knows of who is an admin. `Overlap` says whether two `accept()` calls
may run on one device at the same time: the renderer disables its button while one
runs, the main process would not object.

### DisableEncryption

A step per durable file operation, for one database and one document. `disk` is
exactly what a kill leaves; `pc`, `left` and `mem` are the running process. A
half-written file is a form of its own (`tornEnc`, `tornPlain`, `empty`), and
`LooksEncrypted` and `LooksPlain` see only the head of a file, as the code does.
`OpenCamp` is the part of a boot that decides how to open the camp.

### RemovalQuorum, QuorumSweep, AuthorityReplay, AuthorityLog

`log` is every entry minted anywhere and `past` its causal ancestors; a document
is a set of entries closed under `past`. `StatesAt` is the state before every entry, a
recursive function over the entries' pasts as the memoized `stateAt` is; `StateOver` is
`stateAt` itself: which entries count (`Counted`), whom they grant (`Grants`), who has
voted against whom (`Votes`), and a final loop that is `Survivors`: the largest set of granted
devices in which nobody is outvoted. That the loop does end there, in whatever
order a JavaScript `Map` is gone through, is what `QuorumSweep` checks and
`QuorumSweep_proofs` proves; `AuthorityLog` then uses the result as an operator.

`Verifiable` is `resolveAuthorityPeerIds`: whose signature can be verified, a
bounded iteration (`Repeated`) because admin standing and bindings depend on each other.
`AuthorityLog` has a document, an `authority_cache`, the stamps of `revoked_at` and
the known peer ids per device. `Connected` says whether devices that admit each
other hear of an entry at once (a camp in one room) or only when `Sync` happens;
the run takes both. `PeerIdsKnown` says whether every device had connected before
it was made an admin.

### CampRegisters, ReplicatedCamp, SyncNode

`log` is every change minted anywhere, with what it was built on; a document is a
set of changes, and a field shows the last of the assignments no other supersedes.
Which of two concurrent assignments is last is the order of minting in `log`, which
stands for Automerge's order of operation ids. `got` is what a device received;
its document leaves out what waits for a cause.

Automerge's sync protocol is external: per device and peer a state of what the peer
is known to have, what was sent, what was last said and whether an answer is due.
`Heard` and `Advanced` are `receiveSyncMessage` and `generateSyncMessage`, the latter
advancing whether or not the send succeeds. `Receive` is `handleSyncMessage` to its
end: gates, merge, and when that brought news the conflict cards, the projection,
the connections torn down, the relay to every admitted peer, the answer. `Project`
lands whole or not at all; it throws when SQLite refuses or when
`assertConflictsRecorded` meets a conflict without a pending card. `Admit` is each
end's admission of the other, in its own time. `Write`, `Resolve` and `RevokeDevice`
are the local changes; the broadcast of a write waits for the save window.

### Approval, NodeLifecycle, Join

`Approval` is one row of the `devices` table of the approving computer and what its
calls keep about it: the remembered connection (`waiting`), the approvals whose
answer is being sent (`sending`), the baseline that overlapping approvals share
(`base`). `approveDevice` is two steps, split at its one `await`. A secret is the
number of the approval that drew it.

`NodeLifecycle` is everything on the joining device that can start or stop a libp2p
node. Starters are numbered because the holder replaces its starter on every stop;
`latch` are those with a start in flight, `awaited` what `syncStarterHolder` waits
for. `stopping` and `call` are the calls of the join screen between two awaits.
`Overlaps` and `StopFails` say which of the overlaps and failures of `main.js` an
instance takes; the run and the proofs say for which of them the properties hold.

`Join` adds the sessions: it takes each step of the device and of the approving
computer, alone or together where a message is delivered. `Join_proofs` proves that
each of its steps is a step of `Approval!SpecHost` and of `NodeLifecycle!SpecDevice`
or leaves them alone, so what is proved of the components holds of the composition.

### Reconnect

One ladder per peer (`ladder`, `erred`, `waiter`), the memory of the coordinator
(`errors`, `backoff`, `due`, `seen`, `demanded`), the one `timer` and the sweeps under
way. A promise that settles is continued before any timer or message is looked at
(`Settled`): that is JavaScript's order of microtasks. There are no clocks: a wait may
time out, a backoff may run out (`due`) at any time, and a timer set for a peer's
backoff fires only once it has.

## Runs and what they show

Passing runs:

| Run | Instance | Shows |
|---|---|---|
| `write_path` | 2 fields, one of them in the document; 3 writes, 2 nested frames, 1 crash, 1 remote value | types; nothing rolled back replicates; the stores agree or the loss is on record; the save window is armed and names what the file lacks; outcomes are settled when a call returns; the file never forgets; refines `DocumentBoundary` |
| `write_path_live` | 2 writes, and a failure ledger that may itself fail | an open window closes and every committed write is settled |
| `handoff` | 3 devices, 2 handoffs, 2 accepts that may overlap, 2 exchanges in flight, 1 restart, 1 change of authority, failing disk | at most one live key |
| `handoff_custody` | 2 devices, the same with accepts one at a time, 2 remembered answers sent 1 row per frame | refines `KeyCustody`, so that the key is never nowhere; no step takes an answer away from the host |
| `handoff_live` | 2 devices, a restart, no disk failure | the window with no host closes; the giver's row too |
| `disable_encryption` | 2 kills, 2 I/O errors, 1 save per file, 2 attempts; a journal that can be read, restores that are not torn | nothing lost; the last version opens; the key goes last; refines `AtRest`; the device comes back |
| `quorum_sweep` | 4 devices: every set granted, every set of votes, every order | wherever the loop ends, it ends at the same admins |
| `authority_log` | 3 devices that meet now and then, or hear of everything at once; 4 entries | equal documents, equal caches; no stamp on an admin; only a grant can readmit; a vote needs its majority; what a removed device mints changes nothing |
| `sync` | 3 devices in a row, the outer two having written one field while apart; 3 changes, the removal of one of them, one projection that throws in the middle | when nothing is under way the documents are equal; a removal that is held is enforced; the removed device learns nothing newer; converges |
| `sync_faults` | 2 devices, one on an older schema; 4 changes, one connection lost, one send and one projection failed, conflicts resolved on either side, a removal | SQLite shows what the document says or is known to be behind; no side of a conflict is shown without a card; refines `ReplicatedCamp` |
| `join` | 2 attempts to join or pair again, 2 approvals, one start that fails, a cancel whose stop fails, a quit at any moment | one node at a time; sync comes back; nothing runs behind a closed database; the row's secret was delivered; nobody loses their place |
| `reconnect` | 2 peers, 2 sweeps that may overlap, errors of the first rung with a limit of 2, removals, a stop | a demand is waited for; a stopped coordinator is silent; a backoff is armed; a removed peer stays forgotten |

The bounds and why they are enough. A defect of the write path needs a write in an
inner frame, one in the outer and one waiting outside, hence 3 writes and depth 2;
a second crash only repeats the first, for a restart clears everything but the
file. A second handoff is needed for rows and keys of an earlier one to be in the
way, a second exchange for a late request or reply to overlap the current one; a
third device is a successor that is offered the key while another still holds a
row for it. Two kills put the second one inside the recovery from the first; two attempts
leave backups and staged copies of an earlier one about. Four devices are the
first camp where a majority of the others is neither one nor all of them; four
entries are two grants and two votes, and concurrent ones. In `sync` the device in
the middle is the one whose relay matters and whose projection decides whom it
still tells; two offline writes are a conflict and the third change is either a
removal, a resolution or a write over it. `sync_faults` has one fault of each kind and
one change more, so that a settled conflict can come up again. In `join` the second attempt
meets what the first left behind, and the second approval is the one that overlaps.
In `reconnect` two sweeps are one that waits and one that began later, two peers are
one that fails while the other is up, and two errors are one below the limit and the
one that lifts it. Symmetry is used for the devices other than the founder in
`authority_log` and for the peers in `reconnect`: runs without liveness.

Deadlock checking is off where the system may stop: a device with nothing to do,
suspended until relaunch (`DualWrite`, `HostHandoff`); a database too damaged to
open (`DisableEncryption`); the loop at its end (`QuorumSweep`); every entry
minted and every document equal (`AuthorityLog`); nothing to say (`SyncNode`); every
attempt used (`Join`); stopped and quiet (`Reconnect`).

Every property of a passing run has a mutant in `PROJECT.json`: an operator in the
module, commented "Mutant of" or "Faulty", that changes one mapped definition the
way a plausible bug would, and breaks the property. Type invariants (`TypeOK`) are
proved where a module has theorems; of the rest only that of `DualWrite` is part of
a run, the others hold when they are added to the module's configuration.

## Fairness

- `DualWrite!FairSpec`: the flush after a COMMIT is part of the same synchronous
  call (weak fairness of `FlushQueue`, `MirrorDirect`); an inner frame that can
  commit or throw does one of them; an outermost body is not re-entered for ever
  without one ending (strong); the event loop gets to a due timer although calls
  keep coming (strong, `TimerFires`).
- `HostHandoff!FairSpec`: the retry timer and every admission make the two devices
  contact each other again and again (strong, `Contact`), and a request or reply
  of the last leg gets through if it is sent again and again (strong). A waiting
  request ends: the transport aborts it after 30 seconds (weak, `GiveUp`, `Lose`).
- `DisableEncryption!FairSpec`: the program takes its next step (weak, `Proceed`);
  kills and errors are bounded and not fair.
- `SyncNode!FairSpec`: as long as some device has something to do, something of it is
  done (weak, the one disjunction `Works`: a broadcast, an upgrade, an admission, a
  message refused or handled). No device and no message is promised its turn: an
  event loop that stays alive and a discovery that goes on are all that is assumed.
- The other modules state safety only and need none.

## Proofs

Every safety property that a run checks (invariant, action property or refinement of
an abstract specification) is stated by a theorem that `tlapm` proves for every value
of the constants under the modules' assumptions. Where a theorem needs more it says so
as a hypothesis, in the table below; what happens without it is in the next section. The
rest of this section is the argument of each.

| Module | Theorems, with the property each states | Hypotheses |
|---|---|---|
| `DualWrite_proofs` | `TypeCorrect`, `OnlyCommitted` (`OnlyCommittedReplicates`), `SavesAreDue` (`SaveIsDue`), `OutcomesGiven` (`NoneReadsDeferred`), `StoresDivergeOnRecord` (`StoresAgree`), `FileKeeps` (`FileKeepsCommitted`), `SharesOneBoundary` (`ImplementsBoundary`) | none |
| `HostHandoff_proofs` | `TypeCorrect`, `OneLiveKey` (`AtMostOneLiveKey`) | none |
| | `CustodyKept` (`KeepsCustody`) | `~Overlap` |
| | `AnswersKept` (`AnswersSurvive`) | `~Overlap`, `~LateAnswers` |
| `DisableEncryption_proofs` | `TypeCorrect`, `KeyLast` (`KeyGoesLast`) | `JournalUnread = FALSE` |
| | `NeverLost` (`NothingLost`), `SessionsOpenLatest` (`OpensLatest`), `TurnsOffSafely` (`ImplementsAtRest`) | and `RestoreTears = FALSE` |
| `QuorumSweep_proofs` | `TypeCorrect`, `Spared` (`SurvivorsStay`), `Confluent` (`EndsAtSurvivors`) | none |
| `AuthorityLog_proofs` | `TypeCorrect`, `SameEntries` (`SameEntriesSameCache`), `StampsSpareAdmins` (`NoStampOnAdmin`), `GrantsReadmit` (`OnlyGrantsReadmit`), `MajorityDecides` (`VoteNeedsMajority`) | none |
| | `RemovedMintsForNobody` (`RemovedIsMute`) | `PeerIdsKnown = TRUE` |
| `SyncNode_proofs` | `SafeHolds`, `TypeCorrect`, `RowsFollow` (`RowsFollowDocument`), `NoSilentChoice` (`NoSideChosenSilently`), `RemovalsEnforced` (`HeldRemovalIsEnforced`), `RemovedToldNothing` (`RemovedLearnsNothingNew`), `DevicesAreReplicas` (`ImplementsReplicated`), `QuietUntilDropped` | none |
| | `QuietIsEqual` (`QuietMeansEqual`) | `MaxDrops = 0` |
| `Join_proofs` | `ImplementsDevice`, `ImplementsHost`, `TypeCorrect`, `HostHoldsSecret` and `JoinHoldsSecret` (`SecretIsHeld`), `HostKeepsPlace` and `JoinKeepsPlace` (`KeepsItsPlace`) | none |
| | `DeviceOneNode` and `JoinOneNode` (`OneNode`), `DeviceClosedIsQuiet` and `JoinClosedIsQuiet` (`ClosedIsQuiet`), `JoinComesBack` (`SyncComesBack`) | `Apart` |
| `Reconnect_proofs` | `TypeCorrect`, `Waited` (`DemandIsWaited`), `Armed` (`BackoffIsArmed`), `RemovedForgotten` (`RemovedStaysForgotten`) | none |

**DualWrite_proofs.** Three layers, each resting on the one before. That the document
holds no uncommitted write depends on what waits to be mirrored, so `IInv` adds that the
rollback points of the frames are prefixes of the op-log, in order (`FramesNest`); that
the deferred queue and its marks mirror the tail of the op-log frame by frame
(`QueueIsSuffix`); that what waits is in the op-log and, once no body is open, committed
(`WaitingInLog`); and the same of the rows and of both documents (`RowsInLog`,
`DocsInLog`). `Books` is about what is on its way: the writes that wait are the end of
an ordered log and the documents hold only what is before them (`Order`); what is before
them has its outcome (`OutcomesDue`); what the file or the peers lack is in an armed save
window (`SaveIsDue`); every row, and every row of every frame's snapshot, is that of
the last write waiting on it, or the document's, or explained by a recorded failure
(`RowsFollow`); and the file is behind the document (`FileBehindDoc`). The last two need
each other, because a restart takes the document from the file. `Life` reads a write's stage off its place
in that log, so that every step is one of `DocumentBoundary` or changes no stage.
Assumptions: the bounds are naturals, the values of writes, of other devices and the
blank are told apart, the null values are no documents, writes or saves.

**HostHandoff_proofs.** For any number of devices, handoffs, conversations, restarts and
changes of authority. A second key could only come from a COMMIT, which may be late. So
the strengthening of `AtMostOneLiveKey` is about the handoffs that are *decided*: the
giver has committed, or a COMMIT is on its way. At most one device has a taker's row for
a decided handoff, and no other device is host (`Custodial`); a handoff has one taker,
because the one OFFER with its id is the first that anybody hears of it (`OfferIsFirst`,
`IdsAreOld`). For the refinement of `KeyCustody`, the invariant `Kept` says what a row
means for the key (`RowsMeanKeys`), that a stored key is the one the host staged it for
(`StoredIsStaged`), that every message still on its way is true of its sender's row
(`WireIsTrue`), and that the host or its one heir has the key (`HostOrHeir`). Every step
is then one of eight moves of one device, of which two are the decision and the
take-over and six leave custody alone. Where two accepts overlap, a row that is stored
goes back to accepted and none of this holds: hence `~Overlap`.

**DisableEncryption_proofs.** For any number of kills, errors, saves and attempts. What
the key's absence promises depends on what a boot may still do with the journal on the
disk. `IInv` has three conjuncts about the disk alone, which a kill therefore keeps
(`DiskInv`): the property; that a journal which would be followed leaves uncovered only
plain files; that once the key is gone it has nothing left to swap in. The others
(`StepInv`) say which steps run with the key, which journal the code holds, that no
session runs while a journal would be followed, and what each loop has done so far.
`SavedInv` says where the newest bytes are, again of the disk (`DiskSaved`) and of the
step (`StepSaved`): nothing on the disk is newer than what was last saved (`NoNewer`);
while nobody follows the journal every file is whole at its own path
(`UnfollowedWhole`); while it is followed every file it covers has a backup that is, and
whatever is staged for it is as new (`FollowedCopies`). `KeyLast` holds with torn restores; `NothingLost` and what
follows from it does not, and with an unread journal none does (next section).

**QuorumSweep_proofs.** For every finite set of devices, every set of votes and every
order of iteration. The threshold is monotone in the number of admins: as long as a
settled set is contained in `granted`, its members face at least the threshold they meet
within the set, so they are not removed. Conversely a sweep that removed nobody has
looked at every device with votes, hence the remainder is itself settled
(`LookedAtAreSpared`, the strengthening in `IInv`), and is the union of all settled sets.

**AuthorityLog_proofs.** For every finite set of devices and any number of entries. That
the recursive function `StatesAt` is defined, and that an entry minted elsewhere changes
none of its values, is shown on the least entry where it would fail: `past` only leads to
older entries. With that, what a document says depends on its own entries alone, and the
invariant is that every cache is what the device's document says (`Derived`); equal
documents give equal caches. A document that gains removals only counts the same grants and no
fewer votes, and more votes leave fewer survivors (`RemovalsAdmitNobody`, for
`OnlyGrantsReadmit`). One vote more against a device leaves the votes about everybody else
as they were, so the admins of before stay a settled set unless that device is outvoted
among them (`OneVoteRemoves`, for `VoteNeedsMajority`). For `RemovedIsMute` the admins must be known to sign: with peer
ids known, every counted grant stands on another one down to the founder, so the bounded
iteration of `resolveAuthorityPeerIds` reaches every device the log ever made an admin
(`Rooted`, `AllMet`), and an entry of a device that is none where it is minted counts for
nothing. Assumptions: the founder is one of finitely many devices, the paired ones are
among them, `Connected` is a set of truth values.

**SyncNode_proofs.** For every set of devices, links, fields and values and every bound
on changes, cuts, failures and lost sends. `Safe` says that the log only grows by changes
built on what their device held (`Held`), that messages and sync states tell of documents
that exist (`Wire`), how rows, cards and removals relate to the document (`Books`), and
types the counters (`Flags`). Every action is reduced once to its `Effect`: to each pair
of devices what happens to their two ends of the connection (`Exchange`), to one device
that its document grew and its books followed (`Booking`). From then on no proof looks at
the actions again. `Booking` gives that rows follow, no side is chosen silently and
removals are enforced (`Follows`), and the refinement of `ReplicatedCamp`; both give that
removed devices learn nothing new (`Discreet`): what a removed device holds or is sent
was written by nobody who knew. That one is about camps where no projection has thrown,
and `failures` counts every throw, that of `assertConflictsRecorded` included: a device
whose projection throws does not act on a removal it merges. `Exchange` gives that two
ends with nothing left to say know the same document (`Understood`), until a send fails on
a connection that stays. Assumptions: what was written offline is a sequence of at most
one change per device within the bound, and `Nothing` is no document.

**Join_proofs.** First the two components alone. For the approving computer, asked,
decided and answered in any order for any sessions and approvals, the strengthening says
of the row and of the baseline alike that each is authorized only with a secret that was
delivered or is on its way, and that what is on its way is newer than all that was
delivered. For the device, under `Apart` (no call overlaps a call of the join screen, and
only the stop of `joinCancel` may fail), `OneNode` needs to know in every state who may
still start a node: the strengthening ties `latch` and `awaited` together (a start in
flight is the one the holder waits for), lets a persistent node live only with no session
and no call past its stop, and a temporary one only while it is active or being stopped.
Then `ImplementsDevice` and `ImplementsHost`: every step of `Join` is a step of the
component or leaves it alone, so what is proved of the components holds of `Join`.
`SyncComesBack` relates both, so it has an invariant of its own (`BackInv`): a device of a
camp that is not quitting has its node, or has tried to start it, or there is a call or a
session whose end will (`StartIsOwed`); only members pair again; and the screen is open while there is anything
on it to leave.

**Reconnect_proofs.** For any number of peers, sweeps and errors. A demand could outlive
its ladder only where a wait ends without the demand being released, so the strengthening
adds that whoever cancels a wait has released it (`CancelledIsReleased`). Assumption
beyond the bounds: `none` and `soon` are no peers.

Only model-checked is liveness: `WindowCloses` and `SettlesEveryWrite` of `write_path_live`,
`WindowCloses` and `GiverLearnsDone` of `handoff_live`, `ComesBack` of
`disable_encryption` and `Converges` of `sync`. The proof system has no rules for
fairness and `ENABLED`. What TLC shows of them is for the instances above.


## Where code and documents disagree

Each of these is a definition of a module that no run carries, with the change to a
configuration under which TLC finds it violated in seconds or a few minutes. The
first four contradict a sentence of the repository outright.

| Property | To see it | In short |
|---|---|---|
| `HostHandoff!HostingIsMovable` | an invariant of `HostHandoff.cfg` with `Devices = {h, s}`, `Overlap = FALSE`, `MaxChanges = 0` | "Hosting must be movable to another admin device" (`docs/adr/2026-10-09-host-succession-simple.md:37`): the successor's own row stays 'done', nothing clears it, and its offer is refused as in progress (`hostHandoff.js:141`) for ever |
| `DisableEncryption!NothingLost` | `DisableEncryption.cfg` with `RestoreTears = TRUE` | `disableRecovery.js:5-6` and `disableAtRestEncryption.js:4-5` promise that no kill loses the camp; the restore copies over the live file (`disableRecovery.js:172`), a kill leaves a prefix that passes for the encrypted file (`145-150`), the next rollback skips it and deletes the backup |
| `AuthorityLog!RemovalIsFinal` | an invariant of `AuthorityLog.cfg` with `Paired = {a, b}`, `MaxEntries = 3`, `Connected = {TRUE}` | "A removed device is never granted admin again" (`authorityReplay.js:340`, also `projector.js:455-456`): every vote is recounted over all admins ever granted, so a grant to somebody else raises the threshold over the votes that removed an admin, who is admin again with `revoked_at` cleared (`:386`) |
| `SyncNode!NoConflictUnhandled` | an invariant of `SyncNodeFaults.cfg` with `Outdated = {}`, no cuts, failures, drops or removals | a camp "cannot be in a state where a conflict went unhandled" (`reconcile.js:152-153`): the key of a card names only the field (`conflictStore.js:22-24`), the row of a settled card makes the next INSERT OR IGNORE (`:48`) do nothing, and `assertConflictsRecorded` (`projector.js:853`) throws on that device from then on; for good when both directors resolved at once, and `authority_cache` stands still with the rest. Such a device also does not enforce a removal it merges, and relays past it to the removed device |
| `SyncNode!QuietMeansEqual` | `SyncNode.cfg` with `MaxDrops = 1` | "will retry on next trigger" (`syncNode.js:480`): the sync state has advanced although the send failed, and the next trigger has nothing to say on a connection that stays |
| `Join!ApprovedOpens` | an invariant of `Join.cfg` | while one approval is being delivered a second finds nobody waiting and puts back the row from before both (`main.js:1603-1637`); the first reports success and its secret opens nothing. The tests of overlapping approvals (`main.test.js:2635-2690`) take other orders |
| `Join!NoHalfAuthorized` | an invariant of `Join.cfg` | a device that asks again during a delivery that hangs is told its stored secret (`connectionAuth.js:216`), logs in and is enrolled; then the delivery fails and the row is put back: on the roster without an authorized row |
| `NodeLifecycle!OneNode` | `Join.cfg` with `Overlaps = {"retry"}` | a second `start()` of the holder replaces the promise of the first (`syncStarterHolder.js:13-23`), which `stop()` then does not wait for |
| `NodeLifecycle!OneNode` | `Join.cfg` with `StopFails = {"cancel", "data"}` or `{"sync"}` | `joinAwaitData` drops its reference before the stop, which may fail; the holder swallows a stop that fails |
| `Join!SyncComesBack` | `Join.cfg` with `Overlaps = {"leave"}` | leaving the join screen while `joinStart` is pending finds nothing to cancel, and sync stays stopped (`main.js:3211`) |
| `Reconnect!TryIsArmed` | an invariant of `Reconnect.cfg` | "retries that peer on its own backoff" (`reconnectCoordinator.js:13`): the 'ok' of an older overlapping sweep deletes the newer backoff of a peer that dropped meanwhile (`193-194`), and nothing is scheduled. With one peer it takes `ListFails = TRUE`: the sweep that could not list schedules none although line 169 says "retry on the next sweep" |
| `DualWrite!SuspendedIsSaved` | an invariant of `DualWrite.cfg` | `atRestDisableRunner.js:17` stops when the camp could not be saved first, but `flushPendingWrites` (`liveDoc.js:321-363`) contains every failure, so a failed save is not seen and encryption is changed all the same |
| `DualWrite!AppliedIsInDocument` | an invariant of `DualWrite.cfg` | `documentOutcome.js:11` says 'applied' means the document has it; the flush stamps it (`liveDoc.js:602`, `653`) on operations of entities the document does not carry, which `liveDoc.js:433` filters |
| `HostHandoff!AnswersSurvive` | `HostHandoffCustody.cfg` with `LateAnswers = TRUE` | an import between sealing the key (`hostHandoff.js:183`) and the decision point (`:214`) loses what it remembered |
| `DisableEncryption!OpensLatest`, `NothingLost`, `KeyGoesLast` | `DisableEncryption.cfg` with `JournalUnread = TRUE` | after a boot that could not read the journal and opened the camp (`disableRecovery.js:225-231`), a later one swaps the old staged copy over what was saved |
| `DisableEncryption!UnverifiedIsReal` | a property of `DisableEncryption.cfg` | `disableRecovery.js:188` says a half-done finish is simply run again; it is not once the plain camp has been written to (`:257`) |
| `AuthorityLog!MajorityAgreed` | a property of `AuthorityLog.cfg` with `Paired = {a, b}`, `Connected = {TRUE}`, `MaxEntries = 5` | the vote of an admin who falls takes another down with it at the lower threshold (`authorityReplay.js:385`) |
| `AuthorityLog!ConnectedAdminsSign` | 2 devices, `Paired = {}`, `PeerIdsKnown = FALSE`, `Connected = {FALSE}`, `MaxEntries = 1` | `main.js:1648` promises that an admin granted before its first connection signs once it connected; its grant has no peer id (`authorityReplay.js:448`) and its entries never count |
| `AuthorityLog!BindingsSettle` | 4 paired devices, `Connected = {TRUE}`, `PeerIdsKnown = FALSE`, `MaxEntries = 7` | whether an admin's peer id binds can alternate for ever; `authorityReplay.js:456` stops at a count of grants, not when the bindings stop changing |

Smaller things the models show in passing. A card keeps the sides it was recorded
with, so resolving it after a newer write overwrites that write. A device stays
`behind` until the next merge that brings news. An approval not delivered, put back
after a removal landed during its await, wipes `revoked_at`; the authority log refuses
the device all the same, unless the mint had failed. A first join given up after its
login and before its data leaves a member without a node until the next start
(`main.js:3388-3402` starts one only for Pair again), which `SyncComesBack` excepts.
An approval for an earlier session reaches the later one, fails its proof and is
taken for a refusal. Two overlapping sweeps each count one shared ladder's failure,
so its backoff doubles twice.

The switches `RestoreTears`, `JournalUnread`, `LateAnswers`, `PeerIdsKnown`,
`Overlaps`, `StopFails` and `ListFails` turn on the behaviour each of these needs; the
passing runs have them off, so what they show is under the condition that no restore
is torn by a kill, the journal can be read, no import runs on the host while its key
is sealed, devices connected before they were promoted, calls of the join screen do
not overlap, only a cancel's stop fails, and the devices table can be read.

Two assumptions are worth knowing. `handoff_custody` holds with accepts one at a
time: two overlapping calls of `accept()` replace the ephemeral key the host sealed
to, which only the renderer's disabled button prevents. And `RemovedIsMute` is
checked with peer ids known: by the oscillation `BindingsSettle` is about, a removed
device's further grant changes the number of passes and thereby the result.

## What is not modelled

Signatures, sealing, ciphers, codes, PINs, limits and payload validation are taken to
work: messages and entries are those of devices that run this code, and a check that
fails is one refusal. A damaged journal is not in `DisableEncryption`: it is replaced
atomically. The in-place migration of a plaintext database is one step there
(`OpenCamp`). In `AuthorityLog` there are no copies of one entry written by two
changes, no projection that fails after a mint, no overlapping approvals (those are in
`Approval`), no roster and no removal evidence. In `SyncNode` a removal is one change,
saving is left to `DualWrite`, a lost connection is noticed by both ends at once, and
Automerge's Bloom filters have no false positives. `Join` leaves out the grant of
admin, the switch and the restore of a project, tombstones, the settling of Pair
again, data that arrives while being cancelled, and mutual authentication beyond its
outcome. `Reconnect` leaves out the times, and a rung that reports a connection it has
lost again.

The modules cover the code whose correctness depends on what happens between steps.
That is a small share of the repository's lines: most of the rest is screens, parsing
of spreadsheets, statements of SQL, exports and a schedule engine that is a sequential
heuristic over data too large for exhaustive checking. These are tested by what one
call returns, and a model of them would be a copy. The components of the table above
that have no module are listed with their reasons in `PROJECT.json`. Hazards that were
left out of its list for room, all of which bite in modelled or planned code: the
outcome overwritten by a flush (`liveDoc.js:602`), the row counts compared after a
session has written (`disableRecovery.js:118`), the in-place rekey
(`sqliteCipher.js:111`), the bounded passes over the bindings
(`authorityReplay.js:456`), and two devices that removed each other
(`connectionAuth.js:133`).

## Plan

Done: write path, handoff, encryption off, authority log, sync node, join and
reconnection, each with its safety properties proved.

1. **Removal.** Removal evidence and the reset; composed with `AuthorityLog` for two
   devices that removed each other.
2. **Migration and restore.** The in-place rekey with its marker, and
   `backupRestore.js`, over the file forms of `DisableEncryption`.
3. **Small ones.** The rendezvous store's caps and budgets, the rate limiters, the
   electives' generations, the renderer's drag and undo machines, the placement
   ledger against a reference definition.

Theorems to come: that the last step of the replay (`Survivors`) is where the loop ends
is proved of `QuorumSweep` and used in `AuthorityReplay`; a refinement from one to the
other would join the two. A theorem that the newest bytes survive a torn restore needs a
different restore in the code.
