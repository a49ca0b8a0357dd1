SPECIFICATION ChargingSpec
CONSTANTS
    i1 = i1
    i2 = i2
    u1 = u1
    u2 = u2
    r1 = r1
    r2 = r2
    a1 = a1
    b1 = b1
    s1 = s1
    None = None
    Invoices = {i1, i2}
    Subs = {u1, u2}
    ItemsOf <- Charges
    Due <- DueDays
    RemindBefore = 1
    RemindAfter = {1}
    SuspendAfter = 2
    TerminateAfter = 3
    BatchSize = 1
    Prompt = FALSE
    MaxMissed = 1
    MaxDay = 4
INVARIANTS AllTypesOK LateRunsDoNoHarm PromptRunsEscalate PeriodBilledOnce BillsFollowSamples
PROPERTIES AddonsSettle
CHECK_DEADLOCK FALSE
