SPECIFICATION FairSpec
CONSTANTS
    p1 = p1
    p2 = p2
    r1 = r1
    q1 = q1
    w1 = w1
    w2 = w2
    Pollers = {p1, p2}
    Rebuilders = {r1}
    Readers = {q1}
    Writers = {w1, w2}
    Nobody = Nobody
    Loads <- Mixed
INVARIANTS
    TypeOK
    PublishedIsFresh
    TombstoneFollowsGroup
PROPERTIES
    CacheBecomesTrue
\* The system rests when the changes of the instance are used up.
CHECK_DEADLOCK FALSE
