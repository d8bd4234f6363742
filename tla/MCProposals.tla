---------------------------- MODULE MCProposals ----------------------------
(* A small instance of Proposals for TLC. *)
EXTENDS Proposals, TLC

CONSTANTS a

\* Every item has one `what`, so that items repeat each other.
MCWhatOf == [r \in Roots |-> a]
Symmetry == Permutations(Desks) \cup Permutations(Roots) \cup Permutations(Dues)
=============================================================================
