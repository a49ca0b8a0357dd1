SPECIFICATION Spec
CONSTANTS
    o1 = o1
    u1 = u1
    u2 = u2
    h1 = h1
    Orders = {o1}
    Subs = {u1, u2}
    OrderOf <- MCOrderOf
    Handlers = {h1}
    Poller = poller
    s1 = s1
    s2 = s2
    ServerIds = {s1, s2}
    FirstId = s1
    kMaxRetries = 1
    MaxPolls = 1
    MaxCrashes = 0
SYMMETRY MCSymmetry
INVARIANTS TypeOK ActiveOrderDelivered ServersBounded
PROPERTIES OrderDecidedOnce
CHECK_DEADLOCK FALSE
