SPECIFICATION MainSpec
CONSTANTS
    N = 3
    MaxFaults = 2
    MaxMeddles = 2
    Pids = {1, 2, 3}
    MaxBad = 2
    MaxChurn = 3
INVARIANTS TypeOK AllOrNothing StoppedAreGone
PROPERTIES OthersKept KillsOnlyMonitors
CHECK_DEADLOCK FALSE
