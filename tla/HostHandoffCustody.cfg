SPECIFICATION Spec
CONSTANTS
    h = h
    s = s
    Founder = h
    NoDevice = NoDevice
    Answers = {a, b}
    b = b
    a = a
    FrameRows = 1
    Overlap = FALSE
    DiskMayFail = TRUE
    LateAnswers = FALSE
    MaxHandoffs = 2
    MaxAccepts = 2
    MaxRestarts = 1
    MaxChanges = 1
    MaxExchanges = 2
    Devices = {h, s}
PROPERTIES
    KeepsCustody
    AnswersSurvive
CHECK_DEADLOCK FALSE
