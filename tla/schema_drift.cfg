\* One unreadable item beside posts that are already imported.
SPECIFICATION Spec
CONSTANTS
    p1 = p1
    p2 = p2
    p3 = p3
    k1 = k1
    k2 = k2
    Posts = {p1}
    Bad = Bad
    Cursors = {k1, k2}
    NoCursor = NoCursor
    PageSize = 2
    MaxItems = 1
    MaxPages = 1
CHECK_DEADLOCK FALSE
INVARIANT DriftMeansUnreadable
