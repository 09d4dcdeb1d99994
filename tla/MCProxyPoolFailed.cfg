SPECIFICATION Spec
CONSTANTS
    t1 = t1
    t2 = t2
    p = p
    q = q
    r = r
    junk = junk
    comment = comment
    Form <- Lines
    PortNumber <- Numbers
    MinSecret = 2
    None = None
    Direct = Direct
    Task <- OneTask
    Lists <- ManyLists
    Primaries = {p, None}
    Attempts = 3
    Overlapping = FALSE
    MaxCycles = 3
INVARIANTS RefetchAfterFailure FailedProxyLast
