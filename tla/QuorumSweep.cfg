SPECIFICATION Spec
CONSTANTS
    Devices = {a, b, c, d}
INVARIANTS
    EndsAtSurvivors
CHECK_DEADLOCK FALSE
