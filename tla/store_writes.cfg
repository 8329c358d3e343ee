\* Two calls over a recipe that may be there and two sources; a category and two
\* ingredients, any of them there beforehand, the latter listed in either order.
SPECIFICATION FairSpec
CONSTANTS
    c1 = c1
    c2 = c2
    s = s
    t = t
    k = k
    m = m
    n = n
    Calls = {c1, c2}
    Old = Old
    Sources = {s, t}
    OldSource = s
    Names = {k, m, n}
    Defaults = {m}
    Lists <- MCLists
    Seed = Seed
    None = None
CHECK_DEADLOCK FALSE
INVARIANTS AllOrNothing DuplicateIsStored KnownNamesNeverDeadlock LinesNotOlder
PROPERTIES ShelfSpec EveryCallEnds
