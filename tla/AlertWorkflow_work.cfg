SPECIFICATION Spec
CONSTANTS
    mia = mia
    ann = ann
    bob = bob
    Nobody = Nobody
    NoRole = NoRole
    Users = {mia, ann}
    Clients = {mia, ann}
    Targets = {ann}
    RolesOf <- MCRolesOf
    Sessions = {s1, s2}
    Alerts = {1}
    SystemUser = mia
    Correlatable = {1}
    LockTimeout = 0
SYMMETRY SessionSymmetry
INVARIANTS
    TypeOK
    LocksAreTimed
    FinalIsStamped
PROPERTIES
    TransitionsAreLegal
    LocksAreRespected
    ResolvingUnlocks
