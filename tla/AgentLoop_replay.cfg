SPECIFICATION Spec
CONSTANTS
    MaxRuns = 2
    Parent <- Chain
    MaxBatches = 1
    MaxModelCalls = 2
    Answers <- FreeAnswers
    Budget = 0
    ResumeBudgets = {0}
    MaxCrashes = 2
    MaxFaults = 0
    MaxCancels = 0
    MaxApprovals = 1
    ReplayWindow = TRUE
    LateSignal = FALSE
CHECK_DEADLOCK FALSE
INVARIANTS
    NoReplay
