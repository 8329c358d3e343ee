\* Two recipes; two values of what is edited, and of what is not; two requests at a
\* time.
SPECIFICATION DetailFairSpec
CONSTANTS
    RecipeIds = {r1, r2}
    List = List
    Edits = {s, t}
    Versions = {v, w}
    NoRecipe = None
    MaxCalls = 2
INVARIANT UntouchedKept
PROPERTY WaitingEnds
