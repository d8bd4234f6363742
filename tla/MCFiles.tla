------------------------------ MODULE MCFiles ------------------------------
(* Two processes: two threads of one and one of the other rewrite a file, and *)
(* one of each creates another.                                               *)
EXTENDS Files, TLC
CONSTANTS w1, w2, w3, c1, c2, p1, p2, config, capture, plain, linked

MCProcessOf == [w \in Writers |-> IF w \in {w1, w2, c1} THEN p1 ELSE p2]
MCFileOf    == [w \in Writers |-> IF w \in {c1, c2} THEN capture ELSE config]
Symmetry    == Permutations({w1, w2})
=============================================================================
