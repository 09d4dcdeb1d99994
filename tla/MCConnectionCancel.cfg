SPECIFICATION Spec
CONSTANTS
    t1 = t1
    t2 = t2
    c1 = c1
    c2 = c2
    c3 = c3
    c4 = c4
    c5 = c5
    NoTask = NoTask
    NoClient = NoClient
    Task <- OneTask
    Client <- TwoClients
    Kind <- Commands
    Attempts = 3
    Cancellable = TRUE
    SavedMessages = FALSE
    OverlappingResets = TRUE
    SessionEnds = 0
PROPERTY RefusalMeansOtherProcess
