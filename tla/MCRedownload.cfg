SPECIFICATION SaveSpec
CONSTANTS
    k1 = k1
    k2 = k2
    c1 = c1
    c2 = c2
    c3 = c3
    Keys = {k1, k2}
    NoKey = NoKey
    MaxJobs = 1
    MaxAttempts = 2
    MaxFaults = 1
    MaxAsks = 1
    MaxAge = 0
    DbErrors = FALSE
    Contents = {c1, c2}
    Served <- OneEach
    Outside = {c1, Folder}
    NoFile = NoFile
    Folder = Folder
    MaxPath = 3
    MaxTries = 2
    MaxOutside = 0
    MaxMisreads = 0
INVARIANTS RedownloadSavesAnew
