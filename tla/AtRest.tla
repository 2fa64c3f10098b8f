------------------------------- MODULE AtRest -------------------------------
(***************************************************************************)
(* What turning at-rest encryption off promises, whatever instant the      *)
(* process dies at (electron/db/disableRecovery.js 1-6): protection goes   *)
(* from on to off in one step and never back, and what was last saved in   *)
(* each file can be opened at every instant.                               *)
(***************************************************************************)
EXTENDS Naturals

CONSTANTS Files

VARIABLES
    protection, \* "on": the key opens the camp; "off": no key is needed
    saved       \* the newest version of each file that can be opened

Init == protection = "on" /\ saved = [f \in Files |-> 1]

Save(f) ==
    /\ saved' = [saved EXCEPT ![f] = @ + 1]
    /\ UNCHANGED protection

TurnOff ==
    /\ protection = "on"
    /\ protection' = "off"
    /\ UNCHANGED saved

Next == TurnOff \/ \E f \in Files : Save(f)

Spec == Init /\ [][Next]_<<protection, saved>>
=============================================================================
