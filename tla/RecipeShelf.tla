----------------------------- MODULE RecipeShelf -----------------------------
(* What RecipeRepository promises its callers: recipes change one at a time *)
(* and as wholes, and no two of them have the same source.                  *)
CONSTANTS Ids, Sources, Writers

VARIABLE shelf  \* the recipes stored; `by` is the write whose content one has

Recipes == [id : Ids, source : Sources, by : Writers]

Unique == \A r, q \in shelf : r.id = q.id \/ r.source = q.source => r = q

Init == shelf \subseteq Recipes /\ Unique

Store(r) == /\ \A q \in shelf : q.id # r.id /\ q.source # r.source
            /\ shelf' = shelf \cup {r}

Replace(r, c) == shelf' = (shelf \ {r}) \cup {[r EXCEPT !.by = c]}

Remove(r) == shelf' = shelf \ {r}

Next ==
    \/ \E r \in Recipes : Store(r)
    \/ \E r \in shelf : Remove(r) \/ \E c \in Writers : Replace(r, c)

Spec == Init /\ [][Next]_shelf
=============================================================================
