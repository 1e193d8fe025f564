SPECIFICATION FairSpec
CONSTANTS
    x = x
    y = y
    m1 = m1
    Addresses = {x, y}
    Home <- TwoBoxes
    Account0 = x
    Messages = {m1}
    Files = {0}
    File0 = 0
    None = None
    Overlap = 1
    Lookback = 2
    Lag = 1
    MaxNow = 2
    MaxFaults = 1
    MaxSaves = 1
INVARIANTS TypeOK NoMailSkipped
PROPERTIES RightMailbox EveryMailQueued
