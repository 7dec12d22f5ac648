SPECIFICATION FairSpec
CONSTANTS
    ann = ann
    bob = bob
    eve = eve
    Users = {ann, eve}
    InitialRole <- OneOwner
    Joiners = {eve}
    Roles = {"SOC_MANAGER"}
    Requests = {1, 2}
    Invites = {1}
    Sessions = {s1}
    Leavers = {ann}
    RowsAge = TRUE
INVARIANT TypeOK
PROPERTIES
    OwnersRemain
    BlocksHold
    OwnersAreProtected
    DecisionsStand
    AdmissionsAreGranted
    RequestsAreSettled
\* Once the workspace or the account that could act is deleted, nobody acts.
CHECK_DEADLOCK FALSE
