SPECIFICATION FairSpec
CONSTANTS
    s1 = s1
    r1 = r1
    r2 = r2
    c1 = c1
    c2 = c2
    Sessions = {s1}
    Requests = {r1, r2}
    Closers = {c1, c2}
    NoRequest = NoRequest
    MaxEpoch = 5
INVARIANTS
    DestructionIsAlone
    AdmittedWorkIsCurrent
    ShutdownReachesTurns
    IdleEntriesReaped
PROPERTY ClosersProceed
