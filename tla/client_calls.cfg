\* The smallest deadline that leaves a wait and a call apart, and the smallest floor above two of them.
SPECIFICATION FairSpec
CONSTANTS
    RequestTimeout = 2
    Floor = 5
INVARIANTS OneCallAtATime BoundedEffort
PROPERTIES LoginsRationed DoEnds
