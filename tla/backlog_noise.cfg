\* As many posts without a recipe as a run takes.
SPECIFICATION FairSpec
CONSTANTS
    r1 = r1
    n1 = n1
    n2 = n2
    c1 = c1
    None = None
    Recipes = {r1}
    Noise = {n1, n2}
    Collections = {c1}
    MaxAge = 1
    PageSize = 2
    MaxItems = 2
    MaxPages = 3
PROPERTY Drains
