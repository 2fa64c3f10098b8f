-------------------------- MODULE DocumentBoundary --------------------------
(***************************************************************************)
(* What electron/ops/operations.js (runAtomic, appendOp) and               *)
(* electron/sync/automerge/liveDoc.js together promise about one device's  *)
(* writes: SQLite and the camp document share ONE rollback boundary.       *)
(*                                                                         *)
(* Every write has a life of its own.  It is opened by a runAtomic body,   *)
(* or commits on the spot; every write open at the outermost COMMIT        *)
(* commits with it, and only a committed write may reach the document.     *)
(* A write that a rollback discarded is never heard of again.              *)
(***************************************************************************)
EXTENDS Naturals

CONSTANT OpIds

VARIABLE status    \* the life of each write

Stages == {"unborn", "open", "discarded", "committed", "mirrored", "excused"}

Init == status = [i \in OpIds |-> "unborn"]

\* The writes now at a stage.
At(stage) == {i \in OpIds : status[i] = stage}

\* The writes of S move to a stage, the others stay where they are.
Move(S, stage) ==
    status' = [i \in OpIds |-> IF i \in S THEN stage ELSE status[i]]

\* A write appended inside a runAtomic body.
Open == \E i \in At("unborn") : Move({i}, "open")

\* A write appended at top level commits on its own, and only when no body
\* is open: its neighbours cannot be left behind.
CommitAlone ==
    /\ At("open") = {}
    /\ \E i \in At("unborn") : Move({i}, "committed")

\* The outermost COMMIT takes every open write with it.
CommitAll == At("open") # {} /\ Move(At("open"), "committed")

\* A frame that throws discards what was written in it, or all of it.
Discard == \E S \in SUBSET At("open") : S # {} /\ Move(S, "discarded")

\* The flush after the COMMIT settles every committed write: the document
\* has it, or its loss is on record.
Settle ==
    /\ At("committed") # {}
    /\ \E S \in SUBSET At("committed") :
          status' = [i \in OpIds |->
                        IF i \in S THEN "mirrored"
                        ELSE IF status[i] = "committed" THEN "excused"
                        ELSE status[i]]

Next == Open \/ CommitAlone \/ CommitAll \/ Discard \/ Settle

Spec == Init /\ [][Next]_status

\* A committed write is settled: the flush is part of the call that committed it.
FairSpec == Spec /\ WF_status(Settle)
=============================================================================
