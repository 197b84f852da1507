SPECIFICATION Spec
CONSTANTS
    c1 = c1
    c2 = c2
    c3 = c3
    Calls = {c1, c2, c3}
    KindsOf <- MCKindsOf
    Cancellable = {c1}
    MaxPeers = 2
    Old = old
    None = none
    MaxLost = 1
CHECK_DEADLOCK FALSE
INVARIANTS
    NoOrphanPeer
    ShutdownStopsTurns
    WaitsAreBacked
PROPERTIES
    RetiredNeverPrompted
