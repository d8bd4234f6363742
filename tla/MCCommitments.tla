---------------------------- MODULE MCCommitments ----------------------------
(* A small instance of Commitments. *)
EXTENDS Commitments, TLC

Symmetry == Permutations(Desks)
=============================================================================
