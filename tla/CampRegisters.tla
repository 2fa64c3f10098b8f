--------------------------- MODULE CampRegisters ---------------------------
(***************************************************************************)
(* The camp document as a set of changes.  A change assigns a value to one *)
(* field of one record and is built on everything its device held; log is  *)
(* every change minted anywhere, a document a set of indices into it.      *)
(* Changes that assign one field concurrently all stay, and one of them is *)
(* what the field shows (Automerge's registers; getConflicts names them).  *)
(* The order of minting stands for Automerge's order of operation ids: a   *)
(* total order, the same on every device, that extends causality.          *)
(***************************************************************************)
EXTENDS Integers, Sequences, FiniteSets, FiniteSetsExt

CONSTANT Blank   \* what a field shows that nothing was assigned to

\* The assignments of field f in a document that no other one supersedes.
Live(log, doc, f) ==
    LET assigned == {c \in doc : log[c].field = f}
    IN  {c \in assigned : \A e \in assigned : c \notin log[e].past}

LiveValues(log, doc, f) == {log[c].val : c \in Live(log, doc, f)}

\* What the field shows: the live assignment that is last in the total order.
Shows(log, doc, f) ==
    IF Live(log, doc, f) = {} THEN Blank ELSE log[Max(Live(log, doc, f))].val

\* reconcile: two live assignments that disagree; agreement is no conflict.
Contested(log, doc, f) == Cardinality(LiveValues(log, doc, f)) > 1
=============================================================================
