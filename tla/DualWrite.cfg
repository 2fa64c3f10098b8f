SPECIFICATION Spec
CONSTANTS
    k1 = k1
    k2 = k2
    Keys = {k1, k2}
    Modeled = {k1}
    Remote = {r1}
    Blank = Blank
    NoDoc = NoDoc
    NoSave = NoSave
    NoOp = NoOp
    LedgerCanFail = FALSE
    MaxOps = 3
    MaxDepth = 2
    MaxCrashes = 1
INVARIANTS
    TypeOK
    OnlyCommittedReplicates
    StoresAgree
    SaveIsDue
    NoneReadsDeferred
PROPERTIES
    FileKeepsCommitted
    ImplementsBoundary
CHECK_DEADLOCK FALSE
