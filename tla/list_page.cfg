\* Two recipes, one to a page; a text and a category that match some of them; two
\* requests at a time.
SPECIFICATION FairSpec
CONSTANTS
    Ids = {1, 2}
    Rows <- MCRows
    Texts = {1}
    Categories = {1}
    Any = Any
    None = None
    PAGE_SIZE = 1
    MaxLoads = 2
    MaxInt = 2
    MaxSize = 2
    DefaultSize = 1
INVARIANTS OnOnePage ShownWasAsked
PROPERTY SearchEnds
