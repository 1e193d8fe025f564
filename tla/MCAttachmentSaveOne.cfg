SPECIFICATION SaveSpec
CONSTANTS
    k1 = k1
    k2 = k2
    c1 = c1
    c2 = c2
    c3 = c3
    Keys = {k1}
    NoKey = NoKey
    MaxJobs = 2
    MaxAttempts = 1
    MaxFaults = 1
    MaxAsks = 1
    MaxAge = 2
    DbErrors = TRUE
    Contents = {c1, c2}
    Served <- Changing
    Outside = {c1, Folder}
    NoFile = NoFile
    Folder = Folder
    MaxPath = 2
    MaxTries = 1
    MaxOutside = 1
    MaxMisreads = 1
PROPERTIES ImplementsJobQueue ImplementsSaveOnce
