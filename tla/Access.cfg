SPECIFICATION FairSpec
CONSTANTS
    t1 = t1
    t2 = t2
    n1 = n1
    n2 = n2
    p1 = p1
    p2 = p2
    c1 = c1
    r1 = r1
    Threads = {t1, t2}
    Life = 2
    MaxTokens = 2
    MaxTime = 4
    Unreliable = TRUE
PROPERTIES AccountsHold LockoutEnds LoggedOutStaysOut ChangesArrive
CHECK_DEADLOCK FALSE
