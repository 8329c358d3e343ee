--------------------------- MODULE MCRecipeStore ----------------------------
(* RecipeStore for TLC.  No symmetry: the run checks a liveness property. *)
EXTENDS RecipeStore

CONSTANTS k, m, n

Listing(categories, ingredients) == [categories |-> categories, ingredients |-> ingredients]

\* Two ingredients - m a unit the server also seeds - in either order, the second
\* time with a category.
MCLists == {Listing(<< >>, <<m, n>>), Listing(<<k>>, <<n, m>>)}
=============================================================================
