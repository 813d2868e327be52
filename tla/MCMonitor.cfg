SPECIFICATION MonitorSpec
CONSTANTS
    Ids = {e1, e2}
    Kinds = {"aio", "aioWorker", "once", "recurring", "worker"}
    Delays = {1, 2}
    IdleWait = 1
    MaxLate = 3
    ALARM_HEADER_SIZE = 3
    MAX_FRAMES_PER_CLIENT_ROUND = 2
    Streams <- MCStreams
    Values = {0, 2, 5}
    Threshold = 1
    Duration = 2
    Count = 2
    Period = 1
    Window = 3
    Trim = 3
    MaxGap = 2
    MaxSamples = 5
INVARIANTS NoDanglingCallback TimerNotOverslept FramesServed PolicyExact
PROPERTIES StopCompletes
CHECK_DEADLOCK FALSE
