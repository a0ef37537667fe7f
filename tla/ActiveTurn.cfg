SPECIFICATION Spec
CONSTANTS
    None = None
    Workers = {w1, w2}
    MaxHistory = 4
    LeaseSeconds = 2
    MaxLifetime = 2
    MaxFaults = 1
SYMMETRY Executions
CHECK_DEADLOCK FALSE
INVARIANTS
    TypeOK
    SerialTurns
    SettledTurnsAreDecided
    FrozenForTheNewestEntry
PROPERTIES
    ImplementsLeaseTurns
