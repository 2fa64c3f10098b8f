SPECIFICATION FairSpec
CONSTANTS
    k1 = k1
    k2 = k2
    Keys = {k1, k2}
    Modeled = {k1}
    Remote = {r1}
    Blank = Blank
    NoDoc = NoDoc
    NoSave = NoSave
    NoOp = NoOp
    LedgerCanFail = TRUE
    MaxOps = 2
    MaxDepth = 2
    MaxCrashes = 1
PROPERTIES
    WindowCloses
    SettlesEveryWrite
CHECK_DEADLOCK FALSE
