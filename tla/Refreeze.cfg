SPECIFICATION Spec
CONSTANTS
    None = None
    Workers = {w1}
    MaxHistory = 2
    LeaseSeconds = 1
    MaxLifetime = 1
    MaxFaults = 1
SYMMETRY Executions
CHECK_DEADLOCK FALSE
INVARIANTS
    FreezeIsDeterministic
