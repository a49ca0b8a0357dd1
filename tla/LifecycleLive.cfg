SPECIFICATION FairSpec
CONSTANTS
    o1 = o1
    u1 = u1
    u2 = u2
    h1 = h1
    Orders = {o1}
    Subs = {u1}
    OrderOf <- MCOrderOf1
    Handlers = {h1}
    Poller = poller
    s1 = s1
    s2 = s2
    ServerIds = {s1, s2}
    FirstId = s1
    kMaxRetries = 1
    MaxPolls = 1
    MaxCrashes = 1
INVARIANTS OnlyApprovedDelivered
PROPERTIES HandlersEnd
CHECK_DEADLOCK FALSE
