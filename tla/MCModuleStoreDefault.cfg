SPECIFICATION Spec
CONSTANTS
    s1 = s1
    s2 = s2
    t1 = t1
    t2 = t2
    m = m
    n = n
    c = c
    d = d
    App = App
    None = None
    Session <- NoSession
    Task <- OneTask
    Owner <- AllApp
    Name <- OwnName
    Code <- Sources
    LastPort = 2
    MayBeBusy <- NoPort
    Cancellable = FALSE
    MaxRunners = 1
CHECK_DEADLOCK FALSE
INVARIANT NeverRefused
