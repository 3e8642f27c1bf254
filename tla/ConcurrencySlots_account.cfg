SPECIFICATION Spec
CONSTANTS
    r1 = r1
    r2 = r2
    r3 = r3
    c1 = c1
    c2 = c2
    p1 = p1
    p2 = p2
    Requests = {r1, r2, r3}
    Calls = {c1, c2}
    Processes = {p1, p2}
    First = p1
    NoProcess = NoProcess
    MaxWaiting = 1
    Loads <- Mixed
SYMMETRY ClientSymmetry
INVARIANTS
    TypeOK
    CapHeld
    HoldersAreCounted
    WaitCountIsExact
    IndexCovers
