SPECIFICATION Spec
CONSTANTS
    a = a
    b = b
    c = c
    f = f
    u = u
    v = v
    Blank = Blank
    Nothing = Nothing
    Devices = {a, c}
    Fields = {f}
    Values = {u, v}
    Editors = {a, c}
    Host = a
    Removable = {c}
    Links = {{a, c}}
    Outdated = {c}
    Offline <- BothWrote
    MaxChanges = 4
    MaxCuts = 1
    MaxFailures = 1
    Flaky = {a, c}
    MaxDrops = 1
INVARIANTS
    RowsFollowDocument
    NoSideChosenSilently
PROPERTIES
    ImplementsReplicated
CHECK_DEADLOCK FALSE
