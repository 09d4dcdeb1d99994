SPECIFICATION Spec
CONSTANTS
    Script <- Edited
    Content <- WithContent
    Wait = 20
    Quiet = 4
    PollEvery = 6
    MaxPoll = 24
    MaxReset = 0
    Lossy = FALSE
    InOrder = TRUE
    PollErrors = FALSE
INVARIANT QuietBeforeSettle
