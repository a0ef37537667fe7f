SPECIFICATION Spec
CONSTANTS
    None = None
    MaxModelTurns = 2
    MaxCompletionTokens = 2
    MaxToolInvocations = 1
    MaxLoopIterations = 1
    WallClockDeadline = 2
    MaxRetries = 1
    Workers = {w1, w2}
    DispatchWindow = 1
    Gated = {}
    MaxHead = 0
    MaxFaults = 0
SYMMETRY Executions
CHECK_DEADLOCK FALSE
PROPERTIES
    UnavailableReasonHolds
