SPECIFICATION FairSpec
CONSTANTS
    a1 = a1
    a2 = a2
    a3 = a3
    p1 = p1
    p2 = p2
    Actors = {a1, a2, a3}
    Processes = {p1, p2}
    NoActor = NoActor
    MaxAttempts = 2
    MaxTokens = 6
    Loads <- Mixed
INVARIANTS
    TypeOK
    AccountKeepsALiveToken
    SupersededTokenIsNotCached
PROPERTIES
    HealthyAccountIsNotBlamed
    PairReplacesItsSource
    AgedTokenIsPresented
CHECK_DEADLOCK FALSE
