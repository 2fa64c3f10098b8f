SPECIFICATION Spec
CONSTANTS
    Peers = {p, q}
    ErrorLimit = 2
    MaxSweeps = 2
    ErringRungs = {1}
    Rendezvous = TRUE
    ListFails = FALSE
INVARIANTS
    DemandIsWaited
    BackoffIsArmed
PROPERTIES
    RemovedStaysForgotten
SYMMETRY Sym
CHECK_DEADLOCK FALSE
