SPECIFICATION Spec
CONSTANTS
    r1 = r1
    r2 = r2
    r3 = r3
    k1 = k1
    k2 = k2
    p1 = p1
    p2 = p2
    Requests = {r1, r2, r3}
    Keys = {k1, k2}
    Payloads = {p1, p2}
    Loads <- Mixed
    LockKey = LockKey
    None = None
    Lease = 2
    TTL = 3
    Backoff = 1
    MaxTime = 4
    MaxFaults = 1
SYMMETRY RequestSymmetry
INVARIANTS
    TypeOK
    OneExecutionPerKey
    ReplayIsOwn
PROPERTIES
    KeepsPromise
    HolderKeepsLock
CHECK_DEADLOCK FALSE
