---------------------------- MODULE MCDetailPage ----------------------------
(* DetailPage for TLC.  No symmetry, for the liveness. *)
EXTENDS DetailPage
=============================================================================
