--------------------------- MODULE ReplicatedCamp ---------------------------
(***************************************************************************)
(* What electron/sync/automerge/syncNode.js promises the devices of one    *)
(* camp, however their messages travel.                                    *)
(*                                                                         *)
(* Every change is minted on one device, on top of all that device held.   *)
(* A document only grows, by changes that were minted, and never holds a   *)
(* change without what it was built on.  The screens read SQLite, which    *)
(* follows the document: a row shows what the document says, or what it    *)
(* said when it could last be projected.                                   *)
(***************************************************************************)
EXTENDS CampRegisters

CONSTANTS
    Devices, Fields,
    Offline    \* what some devices wrote before they ever met: [by, field, val]

VARIABLES
    log,    \* every change minted: the field, the value, what it was built on
    docs,   \* the changes each device's document holds
    rows    \* what each device's SQLite shows

vars == <<log, docs, rows>>

Init ==
    /\ log = [i \in DOMAIN Offline |->
                [field |-> Offline[i].field, val |-> Offline[i].val, past |-> {}]]
    /\ docs = [d \in Devices |-> {i \in DOMAIN Offline : Offline[i].by = d}]
    /\ rows = [d \in Devices |-> [f \in Fields |-> Shows(log, docs[d], f)]]

\* The rows of d follow its document or wait, those of the others stay.
RowsFollow(d) ==
    /\ \A f \in Fields : rows'[d][f] \in {rows[d][f], Shows(log', docs'[d], f)}
    /\ \A e \in Devices \ {d} : rows'[e] = rows[e]

\* One device mints one change on top of everything it holds.
Mint(d) ==
    /\ Len(log') = Len(log) + 1
    /\ SubSeq(log', 1, Len(log)) = log
    /\ log'[Len(log')].past = docs[d]
    /\ docs' = [docs EXCEPT ![d] = @ \cup {Len(log')}]
    /\ RowsFollow(d)

\* One device learns changes that were minted, never one without its causes.
Learn(d) ==
    /\ log' = log
    /\ docs[d] \subseteq docs'[d]
    /\ docs'[d] \subseteq 1..Len(log)
    /\ \A c \in docs'[d] : log[c].past \subseteq docs'[d]
    /\ \A e \in Devices \ {d} : docs'[e] = docs[e]
    /\ RowsFollow(d)

Next == \E d \in Devices : Mint(d) \/ Learn(d)

Spec == Init /\ [][Next]_vars
=============================================================================
