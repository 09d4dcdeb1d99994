SPECIFICATION Spec
CONSTANTS
    t1 = t1
    t2 = t2
    p = p
    q = q
    r = r
    junk = junk
    comment = comment
    Form <- Lines
    PortNumber <- Numbers
    MinSecret = 2
    None = None
    Direct = Direct
    Task <- TwoTasks
    Lists <- TwoLists
    Primaries = {p}
    Attempts = 3
    Overlapping = TRUE
    MaxCycles = 4
INVARIANTS NoIndexError FindsLiveCandidate
