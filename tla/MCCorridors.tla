----------------------------- MODULE MCCorridors -----------------------------
(***************************************************************************)
(* Corridors and, over the values of its configuration, what               *)
(* CorridorsProofs proves of the payloads for all values.                  *)
(***************************************************************************)
EXTENDS Corridors

ASSUME PayloadsChecked == OwnFirst /\ LayersInOrder /\ ShownIsApplied
=============================================================================
