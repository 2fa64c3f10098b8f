SPECIFICATION FairSpec
CONSTANTS
    a = a
    b = b
    c = c
    f = f
    u = u
    v = v
    Blank = Blank
    Nothing = Nothing
    Devices = {a, b, c}
    Fields = {f}
    Values = {u, v}
    Editors = {a, c}
    Host = a
    Removable = {c}
    Links = {{a, b}, {b, c}}
    Outdated = {}
    Offline <- BothWrote
    MaxChanges = 3
    MaxCuts = 0
    MaxFailures = 1
    Flaky = {b}
    MaxDrops = 0
INVARIANTS
    QuietMeansEqual
    HeldRemovalIsEnforced
    RemovedLearnsNothingNew
PROPERTIES
    Converges
CHECK_DEADLOCK FALSE
