--------------------------- MODULE MCTranscripts ---------------------------
(* Three parts: the second and the third may overlap, the first cannot be    *)
(* read.                                                                     *)
EXTENDS Transcripts
MCClashes == {{2, 3}}
=============================================================================
