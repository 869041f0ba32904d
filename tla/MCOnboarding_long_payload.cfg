\* A registration of more than 2000 characters; nothing else goes wrong.
SPECIFICATION FairSpec
CONSTANTS
    c1 = c1
    c2 = c2
    c3 = c3
    b2 = b2
    b2again = b2again
    b3 = b3
    None = None
    Customers = {c1, c2}
    Bodies = {b2}
    About <- Whose
    Long = {b2}
    Starts <- OnlyEmpty
    MaxAttempts = 2
    BatchLimit = 1
    MaxShop = 2
    MaxEvents = 1
    MaxBackfills = 0
    MaxFaults = 0
    Environment = {}
PROPERTY RegistrationGetsCard
CHECK_DEADLOCK FALSE
