SPECIFICATION Spec
CONSTANTS
    MaxRuns = 3
    Parent <- Branches
    MaxBatches = 2
    MaxModelCalls = 2
    Answers <- MixedAnswers
    Budget = 0
    ResumeBudgets = {1}
    MaxCrashes = 1
    MaxFaults = 1
    MaxCancels = 1
    MaxApprovals = 1
    ReplayWindow = FALSE
    LateSignal = FALSE
CONSTRAINTS SmallScope LowerFirst
CHECK_DEADLOCK FALSE
INVARIANTS
    NoReplay
    GatedNeedsApproval
    ConversationWellFormed
    SupersededNeverRan
