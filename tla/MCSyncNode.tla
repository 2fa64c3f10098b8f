----------------------------- MODULE MCSyncNode -----------------------------
(* Instances of SyncNode for TLC.                                          *)
EXTENDS SyncNode

CONSTANTS a, b, c, f, u, v

\* Two directors wrote the same field while apart; b is between them.
BothWrote == <<[by |-> a, field |-> f, val |-> u], [by |-> c, field |-> f, val |-> v]>>
=============================================================================
