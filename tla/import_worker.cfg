\* One server with its loop, one triggered run and one request at a time, and
\* two import commands, over one lock whose sessions may break.
SPECIFICATION FairSpec
CONSTANTS
    s1 = s1
    c1 = c1
    c2 = c2
    loop = loop
    g1 = g1
    h1 = h1
    Servers = {s1}
    Commands = {c1, c2}
    Gor = {loop, g1}
    Loop = loop
    Handlers = {h1}
    None = None
    Orphan = Orphan
    CooldownTicks = 1
    MaxTime = 1
INVARIANTS SingleFlight NoContactWhileCooling StatusIsLastRun
PROPERTIES GuardSpec RunEnds LockComesFree
