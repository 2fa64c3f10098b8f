\* A device joins a camp or pairs again, and the approving computer: two
\* attempts, two approvals, one start that fails, a cancel that fails.
SPECIFICATION Spec
CONSTANTS
    Sessions = {1, 2}
    MaxSessions = 2
    MaxApprovals = 2
    MaxFailures = 1
    StopFails = {"cancel"}
    Overlaps = {}
INVARIANTS
    OneNode
    SyncComesBack
    
    SecretIsHeld
    KeepsItsPlace
\* The attempts and approvals run out, and the app may have closed.
CHECK_DEADLOCK FALSE
