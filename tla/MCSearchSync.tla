---------------------------- MODULE MCSearchSync ----------------------------
(* Two trips, a segment and a document; a request beside the worker and a     *)
(* rebuild. Two writes reach a merge and its undo, a merge and its purge, and *)
(* a write in the middle of a rebuild or of another's jobs.                   *)
EXTENDS SearchSync, TLC
=============================================================================
