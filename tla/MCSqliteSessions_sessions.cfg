\* Two bookings of one customer, a scan, a webhook and the worker.
SPECIFICATION FairSpec
CONSTANTS
    b1 = b1
    b2 = b2
    s1 = s1
    h1 = h1
    p1 = p1
    c1 = c1
    Worker = Worker
    Nobody = Nobody
    Bookings = {b1, b2}
    Scans = {s1}
    Webhooks = {h1}
    Pages = {}
    Customers = {c1}
    Card <- MCCard
INVARIANTS TypeOK OneAtUnas OutcomeKept LocksReturned
PROPERTIES LoopComesBack RequestsEnd
CHECK_DEADLOCK FALSE
