---------------------------- MODULE MCSummaries ----------------------------
(* Small instances of Summaries for TLC. *)
EXTENDS Summaries
=============================================================================
