SPECIFICATION AlarmSpec
CONSTANTS
    Ids = {1, 2}
    Vals = {0, 1}
    None = None
    CrashKinds = {"process", "power"}
    InboxDirKnown = TRUE
    MaxReports = 2
    MaxCrashes = 2
    MaxFaults = 1
INVARIANTS NoLoss AckMeansStored
PROPERTIES RetransmissionNeverRewrites EventuallyDelivered
CHECK_DEADLOCK FALSE
