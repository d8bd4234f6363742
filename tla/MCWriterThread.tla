--------------------------- MODULE MCWriterThread ---------------------------
(* TLC instances of WriterThread. *)
EXTENDS WriterThread, TLC

Symmetric == Permutations(Steps)
=============================================================================
