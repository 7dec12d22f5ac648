SPECIFICATION Spec
CONSTANTS
    mia = mia
    ann = ann
    bob = bob
    Nobody = Nobody
    NoRole = NoRole
    Users = {mia, ann, bob}
    Clients = {mia, ann, bob}
    Targets = {ann}
    RolesOf <- MCRolesOf
    Sessions = {s1}
    Alerts = {1}
    SystemUser = Nobody
    Correlatable = {}
    LockTimeout = 0
INVARIANT
    ExpiredLockCanBeTaken
