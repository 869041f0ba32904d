\* Scans checked on the event loop, logins by two threads.
SPECIFICATION Spec
CONSTANTS
    scan = scan
    login = login
    loop = loop
    t1 = t1
    t2 = t2
    Keys = {scan, login}
    Callers = {loop, t1, t2}
    Of <- MCOf
    Max = 2
    Window = 1
    MaxTime = 2
    MaxHits = 6
INVARIANTS TypeOK AtMostMax BurstBounded
PROPERTIES RefusedForCause
SYMMETRY Threads
CHECK_DEADLOCK FALSE
