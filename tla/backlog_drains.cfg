\* Fewer posts without a recipe than a run takes, feeds that fit its pages, and
\* two collections that may have the name.
SPECIFICATION FairSpec
CONSTANTS
    r1 = r1
    r2 = r2
    n1 = n1
    c1 = c1
    c2 = c2
    None = None
    Recipes = {r1, r2}
    Noise = {n1}
    Collections = {c1, c2}
    MaxAge = 2
    PageSize = 2
    MaxItems = 2
    MaxPages = 2
INVARIANT StaleBounded
PROPERTY Drains
