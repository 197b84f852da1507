SPECIFICATION FairSpec
CONSTANTS
    m1 = m1
    m2 = m2
    d1 = d1
    d2 = d2
    Mutators = {m1, m2}
    Deleters = {d1, d2}
    Origins <- MCOrigins
    Kinds <- MCKinds
    KindOf <- MCKindOf
    BootValidators <- MCBootValidators
    MaxCrashes = 1
INVARIANTS
    ClosureExcludesMutators
    NoLostWakeup
    NoRunOutlivesOwner
PROPERTY CloseReturns
