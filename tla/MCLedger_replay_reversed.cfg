\* A client repeats a request that was reversed meanwhile.
SPECIFICATION Spec
CONSTANTS
    k1 = k1
    k2 = k2
    c1 = c1
    h1 = h1
    h2 = h2
    p1 = p1
    p2 = p2
    None = None
    NoAccount = NoAccount
    Customers = {c1}
    Keys = {k1, k2}
    CustomerOf <- OneOwner
    Points <- EarnRedeem
    Redemptions = {k2}
    Handlers = {h1, h2}
    Instances = {p1}
    Home <- OneProcess
    InitialAccount <- HasOne
    Attempts <- RetriedEarn
    BatchLimit = 2
    MaxCrashes = 0
    MaxExternal = 0
    ExternalDeltas = {}
    Environment = {"reuse"}
INVARIANT EffectAtMostOnce
CHECK_DEADLOCK FALSE
