SPECIFICATION Spec
CONSTANTS
    run = run
    ext = ext
    hec = hec
    w1 = w1
    w2 = w2
    d1 = d1
    d2 = d2
    Elements = {"a", "b", "c"}
    Keys <- MCKeys
    Owners = {run, ext, hec}
    Sessions = {ext, hec}
    Hecate = {hec}
    WorkspaceOf <- MCWorkspaceOf
    Writers = {w1, w2}
    Discarders = {d1, d2}
    MaxRevision = 1
    MaxCrashes = 1
SYMMETRY Callers
INVARIANT ClosureIsExclusive
INVARIANT NoLostWakeup
INVARIANT NoDiscardUnderWork
INVARIANT DiscardsWhatWasReviewed
