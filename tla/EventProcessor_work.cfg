SPECIFICATION FairSpec
CONSTANTS
    Workers = {w1, w2}
    Events = {1, 2}
    f1 = f1
    f2 = f2
    Fingerprints = {f1, f2}
    FpOf <- MCFpOf
    CanSucceed = {1}
    CanFail = {1, 2}
    BatchSize = 2
    RetryLimit = 3
    StuckTimeout = 0
    MaxFaults = 1
    NoEvent = NoEvent
INVARIANTS
    TypeOK
    ProcessedIsNormalized
    StuckIsDetectable
    RetryBudget
    OutcomesAreJustified
PROPERTY
    EventuallySettled
