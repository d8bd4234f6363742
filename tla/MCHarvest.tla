----------------------------- MODULE MCHarvest -----------------------------
(* Small instances of Harvest for TLC. *)
EXTENDS Harvest
=============================================================================
