SPECIFICATION Spec
CONSTANTS
    None = None
    MaxModelTurns = 3
    MaxCompletionTokens = 3
    MaxToolInvocations = 2
    MaxLoopIterations = 2
    WallClockDeadline = 2
    MaxRetries = 2
    Fences = {f1, f2, f3}
    Nonces = {n1, n2}
    Proposals = {p1, p2}
    Payloads = {a1, a2}
    Commands = {stop}
SYMMETRY Identities
CHECK_DEADLOCK FALSE
INVARIANTS
    TypeOK
    AllowanceNeverExceeded
    ToolOfferKeepsFinalAnswer
    AuthorityNarrows
    SendsAreDistinct
    OneWinner
PROPERTIES
    HistoryOnlyGrows
