SPECIFICATION Spec
CONSTANTS
    Ids = {1}
    Vals = {0, 1}
    None = None
    CrashKinds = {"process"}
    InboxDirKnown = TRUE
    MaxReports = 1
    MaxCrashes = 1
    MaxFaults = 0
INVARIANT AckMeansPersisted
CHECK_DEADLOCK FALSE
