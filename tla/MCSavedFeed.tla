---------------------------- MODULE MCSavedFeed -----------------------------
(* SavedFeed for TLC.  No symmetry: the walk's run checks a liveness property. *)
EXTENDS SavedFeed
=============================================================================
