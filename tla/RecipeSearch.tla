---------------------------- MODULE RecipeSearch ----------------------------
(***************************************************************************)
(* The paging of RecipeRepository.Search                                   *)
(* (internal/repository/recipe_repository.go), whose page and size are     *)
(* whatever a client put into the query, and whose offset is an int32.     *)
(***************************************************************************)
EXTENDS Integers

CONSTANTS
    MaxInt,       \* math.MaxInt32
    MaxSize,      \* the largest page size
    DefaultSize   \* the one a size outside 1..MaxSize becomes

ASSUME SearchAssumption == MaxInt \in Nat \ {0} /\ MaxSize \in 1..MaxInt /\ DefaultSize \in 1..MaxSize

PageNumber(page) == IF page < 1 THEN 1 ELSE page
PageSize(size)   == IF size < 1 \/ size > MaxSize THEN DefaultSize ELSE size

\* int32(n)
ToInt32(n) == ((n + MaxInt + 1) % (2 * (MaxInt + 1))) - (MaxInt + 1)

Offset(page, size) == ToInt32((page - 1) * size)

\* Mutant: no guard.
Unaddressable_Never(page, size) == FALSE

\* Past the last page whose offset fits: an empty page without a query.
Unaddressable(page, size) == page - 1 > MaxInt \div size

\* Is the match with this rank, counted from one in the order of name and id, on
\* the page?  LIMIT and OFFSET.
OnPage(rank, page, size) ==
    /\ ~Unaddressable(page, size)
    /\ Offset(page, size) < rank /\ rank <= Offset(page, size) + size
=============================================================================
