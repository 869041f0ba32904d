\* A write, and a read this API key has no permission for, share the client.
SPECIFICATION FairSpec
CONSTANTS
    r1 = r1
    w1 = w1
    None = None
    Calls = {r1, w1}
    Writes = {w1}
    Forbidden = {r1}
    MaxTries = 2
    Interval = 1
    MaxRevocations = 2
INVARIANTS TypeOK RevocationHarmless
PROPERTIES Spaced OnceOrNever CallsEnd
CHECK_DEADLOCK FALSE
