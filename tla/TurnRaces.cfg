SPECIFICATION Spec
CONSTANTS
    None = None
    MaxModelTurns = 3
    MaxCompletionTokens = 2
    MaxToolInvocations = 2
    MaxLoopIterations = 2
    WallClockDeadline = 2
    MaxRetries = 1
    Workers = {w1, w2}
    DispatchWindow = 1
    Gated = {1}
    MaxHead = 0
    MaxFaults = 0
SYMMETRY Executions
CHECK_DEADLOCK FALSE
INVARIANTS
    TypeOK
    PaidExactlyOnce
    StoppedRunIsQuiet
    ResultsAreGenuine
    ReservationIsAccepted
PROPERTIES
    EndedTurnAdmitsNoTool
