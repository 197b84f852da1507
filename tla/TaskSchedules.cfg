SPECIFICATION FairSpec
CONSTANTS
    r1 = r1
    r2 = r2
    Replicas = {r1, r2}
    Nobody = Nobody
    NoSchedule = NoSchedule
    Ahead <- SameClock
    MaxTime = 1
    MaxSchedules = 1
    MaxEdits = 1
    MaxRuns = 2
    MaxStops = 1
    MaxFaults = 1
    MaxTrouble = 1
    MaxLate = 1
INVARIANTS
    LedgerMatchesRuns
    ArmedTimeIsFresh
    RunKeepsWorkspace
PROPERTIES
    SettledIsFinal
    TriggersSettle
