SPECIFICATION Spec
CONSTANTS
    f = f
    a = a
    b = b
    Founder = f
    Devices = {f, a, b}
    Paired = {}
    MaxEntries = 4
    Connected = {TRUE, FALSE}
    Outsiders = FALSE
    PeerIdsKnown = TRUE
INVARIANTS
    SameEntriesSameCache
    NoStampOnAdmin
PROPERTIES
    OnlyGrantsReadmit
    VoteNeedsMajority
    RemovedIsMute
SYMMETRY Alike
CHECK_DEADLOCK FALSE
