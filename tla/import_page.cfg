\* Two requests in flight and one triggered goroutine that has not begun.
SPECIFICATION ImportFairSpec
CONSTANTS
    r1 = r1
    r2 = r2
    Requests = {r1, r2}
    MaxPending = 1
INVARIANTS NeverStuck CooldownIsExplained
PROPERTIES PollerStops ButtonComesBack
