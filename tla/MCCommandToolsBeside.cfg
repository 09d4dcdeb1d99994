SPECIFICATION Spec
CONSTANTS
    t1 = t1
    t2 = t2
    Task <- TwoTasks
    Job <- Restarts
    Tries = 2
    MaxCalls = 2
    MaxAnswers = 2
    MaxBoots = 1
    Edited <- ByEdit
    Nothing = Nothing
CHECK_DEADLOCK FALSE
INVARIANTS AnswersOwnAlways BackMeansAliveAlways BackMeansRestarted
