----------------------------- MODULE KeyCustody ------------------------------
(***************************************************************************)
(* What the planned host handoff promises                                  *)
(* (docs/adr/2026-10-09-host-succession-simple.md, as electron/auth/       *)
(* hostHandoff.js carries it out): the camp's signing key is live on one   *)
(* device, or on its way to the one successor that holds it pending.       *)
(***************************************************************************)
CONSTANTS Devices, Founder, NoDevice

VARIABLES
    holders,   \* the devices whose key is live
    heir       \* the successor, while the key is live nowhere

Init == holders = {Founder} /\ heir = NoDevice

\* The decision point: the host lets go, in favour of one other device.
Release(d, s) ==
    /\ holders = {d} /\ s # d
    /\ holders' = {} /\ heir' = s

\* The successor, and nobody else, takes over.
TakeOver ==
    /\ holders = {}
    /\ holders' = {heir} /\ heir' = NoDevice

Next == TakeOver \/ \E d, s \in Devices : Release(d, s)

Spec == Init /\ [][Next]_<<holders, heir>>

\* The camp is not without a host for ever.
FairSpec == Spec /\ WF_<<holders, heir>>(TakeOver)
=============================================================================
