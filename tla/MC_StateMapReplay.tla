------------------------- MODULE MC_StateMapReplay -------------------------
(* Instances of StateMapReplay for TLC. *)
EXTENDS StateMapReplay, TLC
=============================================================================
