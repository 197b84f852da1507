SPECIFICATION Spec
CONSTANTS
    t1 = t1
    p1 = p1
    p2 = p2
    w1 = w1
    w2 = w2
    NoRun = NoRun
    Tasks = {t1}
    TaskOf <- MCTaskOf
    Runs = {r1, r2}
    Procs = {p1}
    Workers = {w1, w2}
    Home <- HomeSingle
    Approvals = {a1}
    StartModes = {"ungated"}
    Outcomes = {"completed", "failed", "awaiting_approval", "error"}
    Verdicts = {"admitted", "unavailable"}
    MaxStops = 0
    MaxFaults = 0
    MaxFailures = 0
    LapseLive = FALSE
INVARIANTS
    TaskMirrorsRun
    CancelledExecutorIsSignalled
    NoAbandonedApproval
SYMMETRY RunSymmetry
