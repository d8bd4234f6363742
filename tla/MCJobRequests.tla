--------------------------- MODULE MCJobRequests ---------------------------
(* Small instances of JobRequests for TLC. *)
EXTENDS JobRequests
=============================================================================
