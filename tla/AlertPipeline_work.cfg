SPECIFICATION Spec
CONSTANTS
    login = login
    scan = scan
    Rules = {login, scan}
    Threshold <- Thresholds
    Window = 2
    Suppressions <- OneForBoth
    MuteWindow = 1
    Conditions <- ScanThenLogin
    CaseWindow = 2
    Lateness = 0
    Detectors = {d1}
    MaxTime = 2
INVARIANTS
    TypeOK
    OneAlertPerBucket
    MutedStayQuiet
PROPERTIES
    BurstsAreReported
    MatchesReachACase
