---------------------------- MODULE AuthorityLog ----------------------------
(***************************************************************************)
(* The devices of a camp and the authority log in their documents: a       *)
(* director approves or removes devices on any of them (electron/main.js   *)
(* approveDevice, revokeDevice), the documents meet when two devices admit *)
(* each other (electron/auth/connectionAuth.js, electron/sync/automerge/   *)
(* syncNode.js), and each derives its own admins and revoked devices       *)
(* (electron/automerge/projector.js) by AuthorityReplay.                   *)
(***************************************************************************)
EXTENDS AuthorityReplay, TLC

CONSTANTS
    Paired,       \* the devices let into the camp to begin with
    MaxEntries,   \* bound: entries minted
    Connected,    \* whether devices that admit each other are connected at a
                  \* mint: {TRUE}, {FALSE}, or either each time
    Outsiders,    \* TRUE: a device that never was an admin mints entries too
    PeerIdsKnown  \* TRUE: every device has connected before it is made an admin

ASSUME LogAssumption == Paired \subseteq Devices /\ Connected \subseteq BOOLEAN

VARIABLES
    log,        \* every entry, wherever it was minted
    doc,        \* the entries a device's document holds
    cache,      \* authority_cache on each device
    revokedAt,  \* the devices rows stamped revoked_at on each device
    peerIds,    \* the devices rows with a peer id on each device
    enrolled    \* the devices that have been let into the camp

vars == <<log, doc, cache, revokedAt, peerIds, enrolled>>

Changes == 1..Len(log)
Admins(d) == {t \in Devices : cache[d][t] = "admin"}

Init ==
    /\ log = <<>>
    /\ doc = [d \in Devices |-> {}]
    /\ cache = [d \in Devices |-> [t \in Devices |-> IF t = Founder THEN "admin" ELSE "none"]]
    /\ revokedAt = [d \in Devices |-> {}]
    /\ peerIds = [d \in Devices |-> IF PeerIdsKnown THEN Devices \ {d} ELSE {}]
    /\ enrolled = Paired \cup {Founder}

-----------------------------------------------------------------------------
(* The projection                                                          *)

CacheOf(l, P) ==
    LET state == CurrentState(l, P)
    IN  [t \in Devices |-> IF t \in state.admins THEN "admin"
                           ELSE IF t \in state.revoked THEN "revoked" ELSE "none"]

\* Mutant of Projected: the minting device waits for its peers to tell it.
ProjectedOnReceipt ==
    cache' = [d \in Devices |-> IF doc'[d] # doc[d] /\ log' = log THEN CacheOf(log, doc'[d]) ELSE cache[d]]

\* upsertCampAuthorityLogEntity wherever a document gained an entry:
\* authority_cache anew, and the stamp on an admin's row cleared.
Projected == cache' = [d \in Devices |-> IF doc'[d] # doc[d] THEN CacheOf(log', doc'[d]) ELSE cache[d]]

\* Mutant of Unstamped: a stamp stays for good.
Stamped(d) == revokedAt[d]

Unstamped(d) == {t \in revokedAt[d] : cache'[d][t] # "admin"}

-----------------------------------------------------------------------------
(* Admission and sync                                                      *)

\* evaluateAuthenticate: the authority log first, then the row's stamp.
Admits(d, e) ==
    /\ cache[d][e] # "revoked"
    /\ cache[d][e] = "admin" \/ e \notin revokedAt[d]

Meet(d, e) == {d, e} \subseteq enrolled /\ d # e /\ Admits(d, e) /\ Admits(e, d)

\* Who holds what d mints as soon as it is minted.
Reached(d, live) == {d} \cup {e \in Devices : live /\ Meet(d, e)}

\* d and e connect, and d receives what e's document holds.
Sync(d, e) ==
    /\ Meet(d, e)
    /\ ~(doc[e] \subseteq doc[d]) \/ e \notin peerIds[d]
    /\ doc' = [doc EXCEPT ![d] = @ \cup doc[e]]
    /\ peerIds' = [peerIds EXCEPT ![d] = @ \cup {e}, ![e] = @ \cup {d}]
    /\ UNCHANGED <<log, enrolled>>
    /\ Projected
    /\ revokedAt' = [revokedAt EXCEPT ![d] = Unstamped(d)]

-----------------------------------------------------------------------------
(* The director's two actions                                              *)

\* The mint helpers: one change on top of everything d holds, projected on d.
Mint(d, entry, live) ==
    /\ Len(log) < MaxEntries
    /\ Outsiders \/ cache[d][d] # "none"
    /\ log' = Append(log, entry)
    /\ doc' = [e \in Devices |-> IF e \in Reached(d, live) THEN doc[e] \cup doc[d] \cup {Len(log) + 1}
                                                     ELSE doc[e]]
    /\ Projected

\* approveDevice, once its answer was delivered; never for a revoked device.
Approve(d, t, makeAdmin, live) ==
    /\ d \in enrolled /\ t # d
    /\ t \notin revokedAt[d] /\ cache[d][t] # "revoked"
    /\ enrolled' = enrolled \cup {t}
    /\ UNCHANGED peerIds
    /\ IF makeAdmin
       THEN /\ Mint(d, [kind |-> "grant", target |-> t, signer |-> d,
                        bound |-> t \in peerIds[d], past |-> doc[d]], live)
            /\ revokedAt' = [e \in Devices |-> Unstamped(e)]
       ELSE /\ t \notin enrolled
            /\ UNCHANGED <<log, doc, cache, revokedAt>>

RevokeAs(d, t, kind, live) ==
    /\ d \in enrolled /\ t \in enrolled /\ t # d
    /\ Mint(d, [kind |-> kind, target |-> t, signer |-> d, bound |-> FALSE, past |-> doc[d]], live)
    /\ LET decided == cache[d][t] = "admin" => cache'[d][t] = "revoked"
       IN  revokedAt' = [e \in Devices |-> Unstamped(e) \cup {x \in {t} : e = d /\ decided}]
    /\ UNCHANGED <<peerIds, enrolled>>

\* revokeDevice: a vote if the target was an admin here, in which case its
\* row is stamped only if the vote decided; else a removal, stamped at once.
Revoke(d, t, live) == RevokeAs(d, t, "revoke", live)

Next == \E d, e \in Devices :
    \/ Sync(d, e)
    \/ \E live \in Connected :
           Revoke(d, e, live) \/ \E makeAdmin \in BOOLEAN : Approve(d, e, makeAdmin, live)

Spec == Init /\ [][Next]_vars

-----------------------------------------------------------------------------
TypeOK ==
    /\ \A c \in Changes : log[c] \in [kind : {"grant", "revoke"}, target : Devices,
                                      signer : Devices, bound : BOOLEAN, past : SUBSET (1..c - 1)]
    /\ doc \in [Devices -> SUBSET Changes]
    /\ cache \in [Devices -> [Devices -> {"none", "admin", "revoked"}]]
    /\ revokedAt \in [Devices -> SUBSET Devices]
    /\ peerIds \in [Devices -> SUBSET Devices]
    /\ enrolled \in SUBSET Devices

\* Two devices whose documents hold the same entries derived the same admins
\* and the same revoked devices, whatever order the entries came in.
SameEntriesSameCache ==
    \A d, e \in enrolled : doc[d] = doc[e] => cache[d] = cache[e]

\* A device the log says is an admin is not shut out by a stamp on its row.
NoStampOnAdmin == \A d \in Devices : revokedAt[d] \cap Admins(d) = {}

\* Nothing but a grant the device did not hold can make an admin of somebody
\* it had down as revoked.
OnlyGrantsReadmit ==
    [][\A d, t \in Devices : cache[d][t] = "revoked" /\ cache'[d][t] = "admin" =>
           \E c \in doc'[d] \ doc[d] : log'[c].kind = "grant"]_vars

\* A vote removes its target only with a majority of the others that the
\* voting device knows as admins.
VoteNeedsMajority ==
    [][\A d, t \in Devices :
           /\ Len(log') > Len(log)
           /\ log'[Len(log')].kind = "revoke" /\ log'[Len(log')].signer = d
           /\ log'[Len(log')].target = t
           /\ cache[d][t] = "admin" /\ cache'[d][t] # "admin"
           => Cardinality(CurrentState(log', doc'[d]).voters[t])
                  >= QuorumThreshold(Cardinality(Admins(d)))]_vars

\* What a device that knows itself removed mints changes nothing for anyone
\* who has seen what it has.
RemovedIsMute ==
    [][\A d, e \in Devices :
           /\ Len(log') > Len(log) /\ log'[Len(log')].signer = d
           /\ cache[d][d] = "revoked" /\ doc[d] \subseteq doc[e]
           => cache'[e] = cache[e]]_vars

-----------------------------------------------------------------------------
(* What the documents say and the code does not do                         *)

\* "A removed device is never granted admin again" (authorityReplay.js:340):
\* nobody removed in the past of an entry is an admin where that entry is held.
RemovalIsFinal ==
    \A d \in Devices :
        LET at == StatesAt(log, Verifiable(log, doc[d]))
        IN  \A c \in doc[d], t \in Admins(d) : ~Removed(t, at[c])

\* "A majority of the other admins must agree" (the ADR's accepted model):
\* whoever a vote makes leave the admins had such a majority against it.
MajorityAgreed ==
    [][\A d, t \in Devices :
           /\ Len(log') > Len(log)
           /\ log'[Len(log')].kind = "revoke" /\ log'[Len(log')].signer = d
           /\ cache[d][t] = "admin" /\ cache'[d][t] # "admin"
           => Cardinality(CurrentState(log', doc'[d]).voters[t])
                  >= QuorumThreshold(Cardinality(Admins(d)))]_vars

\* "It just cannot itself sign further entries until a later connection
\* resolves its peer id" (main.js:1648): an admin the device has connected to
\* is one whose entries count.
ConnectedAdminsSign ==
    \A d \in Devices : Admins(d) \cap peerIds[d] \subseteq Verifiable(log, doc[d])

\* "Iterate from the genesis binding alone until the bindings stop changing"
\* (authorityReplay.js:453).
BindingsSettle ==
    \A d \in Devices :
        LET known == Verifiable(log, doc[d])
        IN  Bound(log, doc[d], known) = known

\* For the model checker: the devices other than the founder are alike.
Alike == Permutations(Devices \ {Founder})
=============================================================================
