SPECIFICATION Spec
CONSTANTS
    t1 = t1
    p1 = p1
    p2 = p2
    w1 = w1
    w2 = w2
    NoRun = NoRun
    Tasks = {t1}
    TaskOf <- MCTaskOf
    Runs = {r1}
    Procs = {p1}
    Workers = {w1, w2}
    Home <- HomeSingle
    Approvals = {a1, a2}
    StartModes = {"gated", "scheduledGated"}
    Outcomes = {"completed", "awaiting_approval"}
    Verdicts = {"admitted"}
    MaxStops = 1
    MaxFaults = 1
    MaxFailures = 1
    LapseLive = TRUE
INVARIANTS
    ApprovedBeforeExecution
