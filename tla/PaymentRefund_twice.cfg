SPECIFICATION Spec
CONSTANTS
    w1 = w1
    w2 = w2
    w3 = w3
    alipay = alipay
    stripe = stripe
    Providers = {alipay, stripe}
    Queryable = {stripe}
    Workers = {w1, w2, w3}
    WorkersFor <- OneQueries
    Amount = 2
    MaxDebt = 1
    MaxRefunds = 2
    MaxFaults <- OneFaultMore
INVARIANTS
    NoSecondDeduction
