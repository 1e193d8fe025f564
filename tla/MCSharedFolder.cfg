SPECIFICATION FairSpec
CONSTANTS
    p1 = p1
    p2 = p2
    Procs = {p1, p2}
    Installs = {A, B}
    Ids = {i1, i2, i3, i4}
    NoId = NoId
    Blank = Blank
    MaxAge = 2
    Oldest = 2
    Ahead <- OneAhead
    MaxSaves = 2
    MaxFaults = 1
INVARIANTS TypeOK OnlyWholeFiles PathsFit TempNamesDiffer
PROPERTIES SavesKeepTheirTemp OrphansGo
