SPECIFICATION FairSpec
CONSTANTS
    Db = Db
    Doc = Doc
    RestoreTears = FALSE
    JournalUnread = FALSE
    MaxErrors = 2
    MaxKills = 2
    MaxSaves = 1
    MaxAttempts = 2
INVARIANTS
    NothingLost
    OpensLatest
    KeyGoesLast
PROPERTIES
    ImplementsAtRest
    ComesBack
CHECK_DEADLOCK FALSE
