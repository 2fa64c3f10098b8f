SPECIFICATION FairSpec
CONSTANTS
    h = h
    s = s
    Founder = h
    NoDevice = NoDevice
    Answers = {}
    FrameRows = 1
    Overlap = FALSE
    DiskMayFail = FALSE
    LateAnswers = FALSE
    MaxHandoffs = 2
    MaxAccepts = 2
    MaxRestarts = 1
    MaxChanges = 0
    MaxExchanges = 2
    Devices = {h, s}
PROPERTIES
    WindowCloses
    GiverLearnsDone
CHECK_DEADLOCK FALSE
