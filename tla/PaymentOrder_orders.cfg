SPECIFICATION FairSpec
CONSTANTS
    o1 = o1
    o2 = o2
    w1 = w1
    w2 = w2
    w3 = w3
    Orders = {o1, o2}
    SubscriptionOrders = {o2}
    Workers = {w1, w2}
    NoOrder = NoOrder
    MaxOrders = 1
    MaxFaults = 1
INVARIANTS
    TypeOK
    RowTellsTheGrant
PROPERTIES
    AckedOnlyIfSettledOrLate
    LedgerSpec
    PaidIsGranted
\* An order whose creation failed is final: nothing happens to it any more.
CHECK_DEADLOCK FALSE
