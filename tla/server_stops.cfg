\* Two connections, two triggered runs and the schedule.
SPECIFICATION FairSpec
CONSTANTS
    h1 = h1
    h2 = h2
    g1 = g1
    g2 = g2
    loop = loop
    Handlers = {h1, h2}
    Triggered = {g1, g2}
    Loop = loop
CHECK_DEADLOCK FALSE
INVARIANTS PoolOutlivesUse ReturnMeansStopped
PROPERTIES WaitIsFinal StopsWhenTold
