------------------------------ MODULE MCSkills ------------------------------
(* Two transcripts of one meeting: k1 is said in both, k2 is about the same  *)
(* entity, and k3 has no skill.                                              *)
EXTENDS Skills
CONSTANTS t1, t2, k1, k2, k3, e1, e2

MCLockOf   == [k \in Keys |-> IF k = k3 THEN e2 ELSE e1]
MCCommands == [t \in Transcripts |-> IF t = t1 THEN <<k1, k3>> ELSE <<k2, k1>>]
=============================================================================
