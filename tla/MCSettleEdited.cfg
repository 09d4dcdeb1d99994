SPECIFICATION FairSpec
CONSTANTS
    Script <- Edited
    Content <- WithContent
    Wait = 11
    Quiet = 3
    PollEvery = 3
    MaxPoll = 1
    MaxReset = 2
    Lossy = TRUE
    InOrder = TRUE
    PollErrors = TRUE
INVARIANTS TypeOK QuietBeforeSettle PollsAreSafetyNet BoundedOverrun
PROPERTIES NoRegress ImplementsAnswer CallReturns
