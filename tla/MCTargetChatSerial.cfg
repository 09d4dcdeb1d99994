SPECIFICATION Spec
CONSTANTS
    t1 = t1
    t2 = t2
    NoEntity = NoEntity
    Username = {"somegroup"}
    Number <- Numbers
    Negative = {"-1001234567890"}
    Task <- TwoTasks
    Chat <- AllKinds
    Topic <- Topics
    MaxGeneration = 2
    ConcurrentSwitch = FALSE
    OverlappingResets = FALSE
INVARIANTS TypeOK CacheIsCurrent
PROPERTY FollowsLatest
