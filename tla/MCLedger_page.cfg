\* The register page, which never repeats a key: writes may get lost or land
\* late, commits fail, the balance move elsewhere, the process crash.
SPECIFICATION Spec
CONSTANTS
    k1 = k1
    k2 = k2
    c1 = c1
    h1 = h1
    h2 = h2
    p1 = p1
    p2 = p2
    None = None
    NoAccount = NoAccount
    Customers = {c1}
    Keys = {k1, k2}
    CustomerOf <- OneOwner
    Points <- EarnRedeem
    Redemptions = {k2}
    Handlers = {h1, h2}
    Instances = {p1}
    Home <- OneProcess
    InitialAccount <- HasOne
    Attempts <- Once
    BatchLimit = 2
    MaxCrashes = 1
    MaxExternal = 1
    ExternalDeltas = {1}
    Environment = {"readError", "reject", "garbled", "lost", "late", "dbError"}
INVARIANT ReversedHasReversal
PROPERTY AppliedIsFinal
SYMMETRY Slots
CHECK_DEADLOCK FALSE
