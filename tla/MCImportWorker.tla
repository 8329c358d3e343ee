--------------------------- MODULE MCImportWorker ---------------------------
(* ImportWorker for TLC. *)
EXTENDS ImportWorker, TLC

\* Triggered goroutines differ only in name.
Symmetry == Permutations(Gor \ {Loop})
=============================================================================
