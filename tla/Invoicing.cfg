SPECIFICATION Spec
CONSTANTS
    u1 = u1
    u2 = u2
    d1 = d1
    manual = manual
    i1 = i1
    i2 = i2
    Subs = {u1, u2}
    Distributors = {d1}
    OwnerOf <- MCOwnerOf
    Cron = cron
    Runners = {cron, manual}
    MaxAttempts = 2
    Invoicers = {i1, i2}
    MaxPeriod = 0
    MaxInvoices = 2
    MaxCrashes = 1
SYMMETRY MCSymmetry
INVARIANTS TypeOK LinkedIffListed
CHECK_DEADLOCK FALSE
