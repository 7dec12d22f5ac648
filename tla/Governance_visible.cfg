SPECIFICATION Spec
CONSTANTS
    ann = ann
    bob = bob
    eve = eve
    Users = {ann, eve}
    InitialRole <- OneOwner
    Joiners = {eve}
    Roles = {"SOC_VIEWER"}
    Requests = {1}
    Invites = {1}
    Sessions = {s1}
    Leavers = {}
    RowsAge = TRUE
INVARIANT ActiveIsVisible
\* Once the workspace or the last account that could act is deleted, nobody acts.
CHECK_DEADLOCK FALSE
