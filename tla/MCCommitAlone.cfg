SPECIFICATION Spec
CONSTANTS
    p1 = p1
    p2 = p2
    p3 = p3
    Procs = {p1, p2, p3}
    StaleChecks = 2
    StallChecks = 2
    MaxRestarts = 1
    MaxFaults = 0
    MaxAsks = 1
INVARIANTS CommitAlone
