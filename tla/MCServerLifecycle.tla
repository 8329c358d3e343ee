------------------------- MODULE MCServerLifecycle --------------------------
(* ServerLifecycle for TLC.  No symmetry: the run checks a liveness property. *)
EXTENDS ServerLifecycle
=============================================================================
