SPECIFICATION Spec
CONSTANTS
    d1 = d1
    d2 = d2
    t1 = t1
    tray = tray
    t2 = t2
    x = x
    y = y
    None = None
    Empty = Empty
    Mixed = Mixed
    Running = Running
    Threads = {t1, t2}
    Tray = tray
    Mailboxes = {x, y}
    Dialogs = {d1, d2}
    Addresses = {x, y}
    Lists <- BothOrNone
    Home <- OwnHomes
    Installed = "installed"
    Clients = {"c1"}
    Client0 = "c0"
    Keys = {"k0"}
    MaxLogins = 1
    MaxOps = 4
    MaxFaults = 1
SYMMETRY Alike
INVARIANTS TypeOK LoginStays
PROPERTIES TokenKept NothingVoid RecordedIsInstalled
