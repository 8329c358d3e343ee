----------------------------- MODULE MCImportPage ----------------------------
(* ImportPage for TLC.  No symmetry: the run checks liveness properties. *)
EXTENDS ImportPage
=============================================================================
