\* A cashier of any haste, an admin who reverses, answers in any order.
SPECIFICATION Spec
CONSTANTS
    inline1 = inline1
    url1 = url1
    url2 = url2
    None = None
    Garbage = Garbage
    Customers = {inline1, url1, url2}
    Urls = {url1, url2}
    MaxCodes = 2
    MaxRequests = 3
INVARIANTS TypeOK PanelMatchesCurrent LoadingMeansBusy ConfirmationsHonoured BalanceUpToDate
SYMMETRY Cards
CHECK_DEADLOCK FALSE
