SPECIFICATION FairSpec
CONSTANTS
    t1 = t1
    p1 = p1
    p2 = p2
    w1 = w1
    w2 = w2
    NoRun = NoRun
    Tasks = {t1}
    TaskOf <- MCTaskOf
    Runs = {r1}
    Procs = {p1}
    Workers = {w1, w2}
    Home <- HomeSingle
    Approvals = {a1}
    StartModes = {"ungated", "scheduledGated"}
    Outcomes = {"completed", "failed", "error"}
    Verdicts = {"admitted", "unavailable"}
    MaxStops = 1
    MaxFaults = 1
    MaxFailures = 1
    LapseLive = FALSE
PROPERTIES
    RunsSettle
    CancelReturns
