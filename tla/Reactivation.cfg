SPECIFICATION Spec
CONSTANTS
    None = None
    Workers = {w1, w2}
    MaxHistory = 3
    LeaseSeconds = 1
    MaxLifetime = 1
    MaxFaults = 0
SYMMETRY Executions
CHECK_DEADLOCK FALSE
INVARIANTS
    ActiveTurnIsUnsettled
