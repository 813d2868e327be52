SPECIFICATION ConnectionsSpec
CONSTANTS
    Files <- MCFiles
    AsyncFiles <- MCAsyncFiles
    FileSize <- MCFileSize
    Chunk = 2
    MaxBytes = 4
    MaxTasks = 3
    MaxFiles = 2
    WriteBudget = 2
    WriteSteps = 2
    HighWater = 2
    MaxSequence = 2
    NoFile = NoFile
    Tokens = {}
    MaxSends = 2
    SendSizes = {2}
    MaxInputs = 0
    MaxRepeats = 0
    Sockets = {s1, s2, s3}
    NoSocket = NoSocket
    InitDelay = 1
    MaxDelay = 3
    MaxCalls = 5
    Fds = {f1, f2, f3}
    max_clients = 2
    NoFd = NoFd
INVARIANTS DescriptorsOwned
PROPERTIES ShutdownCompletes ConnectServed
CHECK_DEADLOCK FALSE
