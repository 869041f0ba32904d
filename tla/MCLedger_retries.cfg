\* One process, every trouble but failing commits, slow writes and writes that
\* land late; the earn and its reversal are submitted twice.
SPECIFICATION Spec
CONSTANTS
    k1 = k1
    k2 = k2
    c1 = c1
    h1 = h1
    h2 = h2
    p1 = p1
    p2 = p2
    None = None
    NoAccount = NoAccount
    Customers = {c1}
    Keys = {k1, k2}
    CustomerOf <- OneOwner
    Points <- EarnRedeem
    Redemptions = {k2}
    Handlers = {h1, h2}
    Instances = {p1}
    Home <- OneProcess
    InitialAccount <- NoneYet
    Attempts <- RetriedEarn
    BatchLimit = 2
    MaxCrashes = 1
    MaxExternal = 0
    ExternalDeltas = {}
    Environment = {"readError", "reject", "garbled", "lost", "reuse"}
INVARIANTS TypeOK SnapshotCurrent IntentRecorded LocksInUse OnlyReversalsOverdraw OncePerSubmission
PROPERTY AtomicAdditions
SYMMETRY Slots
CHECK_DEADLOCK FALSE
