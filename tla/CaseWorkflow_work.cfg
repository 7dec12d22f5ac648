SPECIFICATION Spec
CONSTANTS
    mia = mia
    ann = ann
    Nobody = Nobody
    NoRole = NoRole
    Users = {mia, ann}
    Clients = {mia}
    RolesOf <- MCRolesOf
    AssignedTo <- MCAssignedTo
    LockTimeout = 0
    Alerts = {a1, a2}
    Cases = {c1}
    NoCase = NoCase
    Sessions = {s1}
    Purger = mia
    Retention = 0
    Titles = {t1}
    Iocs = {i1}
    Files = {f1}
    Tags = {g1}
    Notes = {n1}
    Sla = 1
    MaxContent = 1
    PassesCase = TRUE
SYMMETRY AlertSymmetry
CONSTRAINT OneAlertWithContents
INVARIANTS
    TypeOK
    SLAClockIsExact
    BreachesAreJustified
    ClosedIsStamped
PROPERTIES
    ClosedIsFrozen
    EvidenceStays
