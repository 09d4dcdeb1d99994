SPECIFICATION Spec
CONSTANTS
    Script <- Edited
    Content <- WithContent
    Wait = 10
    Quiet = 4
    PollEvery = 6
    MaxPoll = 2
    MaxReset = 0
    Lossy = FALSE
    InOrder = TRUE
    PollErrors = FALSE
INVARIANT WaitIsCeiling
