SPECIFICATION Spec
CONSTANTS
    Script <- Rich
    Content <- WithContent
    Wait = 14
    Quiet = 4
    PollEvery = 6
    MaxPoll = 0
    MaxReset = 0
    Lossy = FALSE
    InOrder = TRUE
    PollErrors = FALSE
INVARIANT ContentWins
