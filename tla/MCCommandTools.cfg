SPECIFICATION FairSpec
CONSTANTS
    t1 = t1
    t2 = t2
    Task <- TwoTasks
    Job <- Mixed
    Tries = 2
    MaxCalls = 2
    MaxAnswers = 2
    MaxBoots = 1
    Edited <- ByEdit
    Nothing = Nothing
CHECK_DEADLOCK FALSE
INVARIANTS TypeOK AnswersOwn BackMeansAlive
PROPERTIES EveryToolReturns
