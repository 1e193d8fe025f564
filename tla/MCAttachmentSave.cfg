SPECIFICATION SaveSpec
CONSTANTS
    k1 = k1
    k2 = k2
    c1 = c1
    c2 = c2
    c3 = c3
    Keys = {k1, k2}
    NoKey = NoKey
    MaxJobs = 2
    MaxAttempts = 2
    MaxFaults = 1
    MaxAsks = 0
    MaxAge = 0
    DbErrors = FALSE
    Contents = {c1, c2}
    Served <- OneEach
    Outside = {c2}
    NoFile = NoFile
    Folder = Folder
    MaxPath = 4
    MaxTries = 2
    MaxOutside = 1
    MaxMisreads = 1
INVARIANTS NoStrandedClaim SaveTypeOK NoDuplicateSave SavedOnSuccess
PROPERTIES NeverReplaces SuccessOnlyIfSaved
