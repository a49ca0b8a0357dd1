\* Two sessions over two invoices and one balance; the backend may crash once.
SPECIFICATION Spec
CONSTANTS
    d1 = d1
    i1 = i1
    i2 = i2
    s1 = s1
    s2 = s2
    t1 = t1
    t2 = t2
    Distributors = {d1}
    Invoices = {i1, i2}
    Sessions = {s1, s2}
    Trades = {t1}
    OwnerOf <- MCOwners
    TotalOf <- MCTotals
    OpeningBalance <- MCOpening
    TopUpAmounts <- MCTopUps
    MaxPaymentNo = 3
    MaxCrashes = 1
SYMMETRY MCSymmetry
INVARIANTS
    TypeOK
    BooksBalance
    PaidOnceFromBalance
    PaidIsCovered
PROPERTIES
    SettledIsFinal
    LedgerSpec
CHECK_DEADLOCK FALSE
