\* A booking awaits UNAS in the transaction that reads its customer.
SPECIFICATION Spec
CONSTANTS
    b1 = b1
    b2 = b2
    s1 = s1
    h1 = h1
    p1 = p1
    c1 = c1
    Worker = Worker
    Nobody = Nobody
    Bookings = {b1, b2}
    Scans = {s1}
    Webhooks = {h1}
    Pages = {}
    Customers = {c1}
    Card <- MCCard
INVARIANTS SlowAnswerBlocksNobody
CHECK_DEADLOCK FALSE
