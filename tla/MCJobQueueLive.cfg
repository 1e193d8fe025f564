SPECIFICATION FairSpec
CONSTANTS
    k1 = k1
    k2 = k2
    Keys = {k1, k2}
    NoKey = NoKey
    MaxJobs = 2
    MaxAttempts = 2
    MaxFaults = 2
    MaxAsks = 1
    MaxAge = 2
    DbErrors = TRUE
PROPERTIES EveryJobSettles
