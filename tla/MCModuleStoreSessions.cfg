SPECIFICATION Spec
CONSTANTS
    s1 = s1
    s2 = s2
    t1 = t1
    t2 = t2
    m = m
    n = n
    c = c
    d = d
    App = App
    None = None
    Session <- TwoSessions
    Task <- OneTask
    Owner <- OneEach
    Name <- OwnName
    Code <- Sources
    LastPort = 2
    MayBeBusy <- NoPort
    Cancellable = FALSE
    MaxRunners = 2
CHECK_DEADLOCK FALSE
INVARIANT AlwaysStoppable
PROPERTY ServedWhileLoading
