SPECIFICATION Spec
CONSTANTS
    h = h
    s = s
    Founder = h
    NoDevice = NoDevice
    Answers = {}
    FrameRows = 1
    Overlap = TRUE
    DiskMayFail = TRUE
    LateAnswers = FALSE
    MaxHandoffs = 2
    MaxAccepts = 2
    MaxRestarts = 1
    MaxChanges = 1
    MaxExchanges = 2
    Devices = {h, s, t}
    t = t
INVARIANTS
    AtMostOneLiveKey
CHECK_DEADLOCK FALSE
