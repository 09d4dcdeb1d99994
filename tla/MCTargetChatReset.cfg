SPECIFICATION Spec
CONSTANTS
    t1 = t1
    t2 = t2
    NoEntity = NoEntity
    Username = {"somegroup"}
    Number <- Numbers
    Negative = {}
    Task <- OneTask
    Chat <- OneChat
    Topic <- Topics
    MaxGeneration = 1
    ConcurrentSwitch = FALSE
    OverlappingResets = FALSE
INVARIANT EntityFitsConnection
