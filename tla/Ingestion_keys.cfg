SPECIFICATION IngestionSpec
CONSTANTS
    Workers = {w1}
    Events = {1, 2}
    f1 = f1
    f2 = f2
    Fingerprints = {f1, f2}
    FpOf <- MCFpOf
    CanSucceed = {1, 2}
    CanFail = {2}
    BatchSize = 2
    RetryLimit = 3
    StuckTimeout = 1
    MaxFaults = 1
    NoEvent = NoEvent
    mia = mia
    ann = ann
    Users = {mia, ann}
    RoleOf <- MCRoleOf
    NoRole = NoRole
    Kind = "organization"
    ApiKeys = {k1}
    OrgKeys = {o1}
    NoKey = NoKey
    Requests = {q1, q2}
    MaxUses = 2
SYMMETRY RequestSymmetry
INVARIANTS
    WebTypeOK
    HeldIsProcessing
    UsageIsCounted
    EventsAreAttributed
PROPERTIES
    ImplementsLedger
    RevocationIsFinal
