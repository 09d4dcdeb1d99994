SPECIFICATION Spec
CONSTANTS
    t1 = t1
    t2 = t2
    NoEntity = NoEntity
    Username = {"somegroup"}
    Number <- Numbers
    Negative = {}
    Task <- TwoTasks
    Chat <- TwoChats
    Topic <- Topics
    MaxGeneration = 0
    ConcurrentSwitch = TRUE
    OverlappingResets = FALSE
INVARIANT SwitchSticks
