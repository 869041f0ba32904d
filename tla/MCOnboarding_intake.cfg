\* Older and new customers, a worker and a backfill at the same time, every trouble.
SPECIFICATION FairSpec
CONSTANTS
    c1 = c1
    c2 = c2
    c3 = c3
    b2 = b2
    b2again = b2again
    b3 = b3
    None = None
    Customers = {c1, c2, c3}
    Bodies = {b2, b2again, b3}
    About <- Whose
    Long = {b2again}
    Starts <- EmptyOrShared
    MaxAttempts = 2
    BatchLimit = 1
    MaxShop = 2
    MaxEvents = 2
    MaxBackfills = 1
    MaxFaults = 1
    Environment = {"readError", "lost", "late"}
INVARIANTS TypeOK  ProcessedHasCard BackfillCovers
PROPERTY EventsSettle
CHECK_DEADLOCK FALSE
