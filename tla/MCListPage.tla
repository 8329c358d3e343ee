----------------------------- MODULE MCListPage -----------------------------
(* ListPage for TLC.  No symmetry: ids and names are ordered. *)
EXTENDS ListPage

\* Two names and a category that one of them has.
MCRows == {[name |-> 1, category |-> 1], [name |-> 2, category |-> 2]}
=============================================================================
