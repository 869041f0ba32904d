\* Liveness: two bookings and a reversal, timeouts, a crash, a batch of one row,
\* a worker that can read every balance.
SPECIFICATION FairSpec
CONSTANTS
    k1 = k1
    k2 = k2
    c1 = c1
    h1 = h1
    h2 = h2
    p1 = p1
    p2 = p2
    None = None
    NoAccount = NoAccount
    Customers = {c1}
    Keys = {k1, k2}
    CustomerOf <- OneOwner
    Points <- EarnRedeem
    Redemptions = {k2}
    Handlers = {h1, h2}
    Instances = {p1}
    Home <- OneProcess
    InitialAccount <- HasOne
    Attempts <- EarnReversed
    BatchLimit = 1
    MaxCrashes = 1
    MaxExternal = 0
    ExternalDeltas = {}
    Environment = {"lost"}
INVARIANT VerdictTrue
PROPERTIES RequestsEnd PendingResolved
CHECK_DEADLOCK FALSE
