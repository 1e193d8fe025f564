SPECIFICATION FairSpec
CONSTANTS
    p1 = p1
    p2 = p2
    p3 = p3
    Procs = {p1, p2}
    StaleChecks = 2
    StallChecks = 2
    MaxRestarts = 1
    MaxFaults = 1
    MaxAsks = 2
PROPERTIES ComesBack
