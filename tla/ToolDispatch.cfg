SPECIFICATION FairSpec
CONSTANTS
    None = None
    Workers = {w1, w2}
    Deadline = 4
    ClaimWindow = 2
    Allowance = 1
    MaxAttempts = 2
    MaxFaults = 1
CHECK_DEADLOCK FALSE
INVARIANTS
    TypeOK
    OneEffectPerApproval
    TruthfulResults
    PausedForAReason
PROPERTIES
    NoCallAfterStop
    ImplementsToolCall
    StopFinishes
