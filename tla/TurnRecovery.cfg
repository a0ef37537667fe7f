SPECIFICATION FairSpec
CONSTANTS
    None = None
    MaxModelTurns = 2
    MaxCompletionTokens = 2
    MaxToolInvocations = 1
    MaxLoopIterations = 1
    WallClockDeadline = 1
    MaxRetries = 1
    Workers = {w1}
    DispatchWindow = 1
    Gated = {1}
    MaxHead = 1
    MaxFaults = 2
CHECK_DEADLOCK FALSE
PROPERTIES
    SavedAnswerIsFinished
    AdmittedStopEndsRun
    TurnEnds
