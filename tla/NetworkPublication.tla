------------------------- MODULE NetworkPublication -------------------------
(***************************************************************************)
(* What swap_schema.sql promises about the routing network, with the       *)
(* loader's stages, schemas and failures hidden: the served network is     *)
(* replaced in one step by another whole network, the one it replaces is   *)
(* kept for an operator to put back, and the step that publishes a network *)
(* also records the PBF it was built from.                                 *)
(***************************************************************************)
CONSTANTS
  Networks,  \* the whole networks that can be published
  Pbfs,      \* the PBF contents they are built from
  Nothing    \* no network, not one of Networks

VARIABLES
  live,      \* the network queries are answered from
  prev,      \* the network an operator can put back
  recorded   \* the PBFs etl_runs has a row for

pubVars == <<live, prev, recorded>>

PubInit == live = Nothing /\ prev = Nothing /\ recorded = {}

Publish(network, pbf) ==
  /\ network \notin {live, prev}
  /\ live' = network
  /\ prev' = live
  /\ recorded' = recorded \union {pbf}

PutBack ==
  /\ prev # Nothing
  /\ live' = prev
  /\ prev' = Nothing
  /\ UNCHANGED recorded

PubNext == \/ \E n \in Networks, p \in Pbfs : Publish(n, p)
           \/ PutBack

PubSpec == PubInit /\ [][PubNext]_pubVars
=============================================================================
