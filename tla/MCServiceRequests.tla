-------------------------- MODULE MCServiceRequests --------------------------
(* Two requests are enough for one to hold the only connection of a pool   *)
(* while the other waits; no property names a request.                     *)
EXTENDS ServiceRequests, TLC

Symmetry == Permutations(Requests)
=============================================================================
