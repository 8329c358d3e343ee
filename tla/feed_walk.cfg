\* Any feed of pages of up to two items over three posts.  As many pages as
\* cursors, so that both the bound and the progress guard end walks; fewer items
\* than posts.
SPECIFICATION FairSpec
CONSTANTS
    p1 = p1
    p2 = p2
    p3 = p3
    k1 = k1
    k2 = k2
    k3 = k3
    Posts = {p1, p2, p3}
    Bad = Bad
    Cursors = {k1, k2, k3}
    NoCursor = NoCursor
    PageSize = 2
    MaxItems = 2
    MaxPages = 3
CHECK_DEADLOCK FALSE
INVARIANTS NoPostTwice NothingLost EmptyMeansCaughtUp
PROPERTY WalkEnds
