SPECIFICATION Spec
CONSTANTS
    Ids = {1}
    Vals = {0, 1}
    None = None
    CrashKinds = {"power"}
    InboxDirKnown = FALSE
    MaxReports = 1
    MaxCrashes = 1
    MaxFaults = 0
INVARIANT NoLoss
CHECK_DEADLOCK FALSE
