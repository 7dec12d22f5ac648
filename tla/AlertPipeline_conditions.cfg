SPECIFICATION Spec
CONSTANTS
    login = login
    scan = scan
    Rules = {login, scan}
    Threshold <- Thresholds
    Window = 2
    Suppressions <- OneForBoth
    MuteWindow = 1
    Conditions <- ScanThenLogin
    CaseWindow = 1
    Lateness = 0
    Detectors = {d1}
    MaxTime = 1
INVARIANT CasesMeetAllConditions
