SPECIFICATION SpecWithTrial
CONSTANTS
    k1 = k1
    k2 = k2
    Keys = {k1, k2}
    NoKey = NoKey
    MaxJobs = 2
    MaxAttempts = 2
    MaxFaults = 2
    MaxAsks = 2
    MaxAge = 2
    DbErrors = TRUE
    Accounts = {"x", "y"}
    AccountOf <- OneEach
INVARIANTS TypeOK IgnoredOnlyFailed AttemptBudget IssuesShown
PROPERTIES SettledStays
