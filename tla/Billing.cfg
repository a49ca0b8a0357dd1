SPECIFICATION FairSpec
CONSTANTS
    u1 = u1
    u2 = u2
    d1 = d1
    manual = manual
    i1 = i1
    i2 = i2
    Subs = {u1, u2}
    Distributors = {d1}
    OwnerOf <- MCOwnerOf
    Cron = cron
    Runners = {cron, manual}
    MaxAttempts = 2
    Invoicers = {}
    MaxPeriod = 1
    MaxInvoices = 2
    MaxCrashes = 0
INVARIANTS BilledUpTo CleanRunIsComplete
PROPERTIES BookSpec RunsEnd
CHECK_DEADLOCK FALSE
