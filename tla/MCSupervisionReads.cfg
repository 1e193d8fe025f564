SPECIFICATION ReadsSpec
CONSTANTS
    p1 = p1
    p2 = p2
    p3 = p3
    Procs = {p1, p2, p3}
    StaleChecks = 2
    StallChecks = 2
    MaxRestarts = 2
    MaxFaults = 3
    MaxAsks = 2
SYMMETRY ProcSymmetry
INVARIANTS TypeOK OneTooMany CommitUndisturbed PauseKept PauseSeen
