---------------------------- MODULE MCReconnect ----------------------------
(* Reconnect for model checking: two peers, interchangeable.               *)
EXTENDS Reconnect

Sym == Permutations(Peers)
=============================================================================
