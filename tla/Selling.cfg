SPECIFICATION SellingSpec
CONSTANTS
    t1 = t1
    t2 = t2
    x1 = x1
    x2 = x2
    p1 = p1
    p2 = p2
    na = na
    nb = nb
    nc = nc
    Nil = Nil
    NoPrice = NoPrice
    Idle = Idle
    Distributors = {"d"}
    Threads = {t1, t2}
    Products = {"server"}
    Quantities = {1}
    Months = {1}
    Absent = Nil
    Base = 10
    MaxItems = 2
    MaxOrders = 2
    MaxCrashes = 1
INVARIANTS AllTypesOK NumberedWithoutGaps QuoteIsNearest
PROPERTIES AloneSpec ForestSpec
CHECK_DEADLOCK FALSE
