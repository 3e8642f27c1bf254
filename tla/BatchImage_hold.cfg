SPECIFICATION FairSpec
CONSTANTS
    w1 = w1
    w2 = w2
    c1 = c1
    c2 = c2
    Workers = {w1, w2}
    Callers = {c1}
    Submitter = Submitter
    Recovery = Recovery
    NoOne = NoOne
    Dead = Dead
    Hold = 1
    OtherFrozen = 1
    MaxRetries = 2
    MaxFaults = 2
INVARIANTS
    TypeOK
    FrozenIsOwn
    HoldEndsOnce
    ReleasedIsEnding
    InflightIsFindable

    
CHECK_DEADLOCK FALSE
