SPECIFICATION Spec
CONSTANTS
    Workers = {w1, w2}
    Events = {1, 2}
    f1 = f1
    f2 = f2
    Fingerprints = {f1, f2}
    FpOf <- MCFpOf
    CanSucceed = {1, 2}
    CanFail = {}
    BatchSize = 2
    RetryLimit = 3
    StuckTimeout = 0
    MaxFaults = 0
    NoEvent = NoEvent
INVARIANT
    ClaimsAreExclusive
