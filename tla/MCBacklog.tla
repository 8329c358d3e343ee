----------------------------- MODULE MCBacklog ------------------------------
(* Backlog for TLC.  No symmetry: its runs check a liveness property. *)
EXTENDS Backlog
=============================================================================
