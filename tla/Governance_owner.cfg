SPECIFICATION Spec
CONSTANTS
    ann = ann
    bob = bob
    eve = eve
    Users = {ann, bob, eve}
    InitialRole <- TwoOwners
    Joiners = {eve}
    Roles = {"SOC_VIEWER"}
    Requests = {}
    Invites = {}
    Sessions = {s1}
    Leavers = {ann, bob}
    RowsAge = FALSE
INVARIANT OwnerCanLogIn
\* Once the workspace or the last account that could act is deleted, nobody acts.
CHECK_DEADLOCK FALSE
