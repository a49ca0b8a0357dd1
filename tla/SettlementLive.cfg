\* Every transaction ends and what was collected is credited; two payment numbers.
SPECIFICATION FairSpec
CONSTANTS
    d1 = d1
    i1 = i1
    i2 = i2
    s1 = s1
    s2 = s2
    t1 = t1
    t2 = t2
    Distributors = {d1}
    Invoices = {i1, i2}
    Sessions = {s1, s2}
    Trades = {t1}
    OwnerOf <- MCOwners
    TotalOf <- MCTotals
    OpeningBalance <- MCOpening
    TopUpAmounts <- MCTopUps
    MaxPaymentNo = 2
    MaxCrashes = 0
INVARIANTS
    GatewayAgrees
PROPERTIES
    Finishes
    CollectedIsCompleted
CHECK_DEADLOCK FALSE
