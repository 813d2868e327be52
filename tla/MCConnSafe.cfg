SPECIFICATION Spec
CONSTANTS
    Files <- MCFiles
    AsyncFiles <- MCAsyncFiles
    FileSize <- MCFileSize
    Chunk = 2
    MaxBytes = 3
    MaxTasks = 2
    MaxFiles = 1
    WriteBudget = 2
    WriteSteps = 2
    HighWater = 2
    MaxSequence = 2
    NoFile = NoFile
    Tokens = {d1}
    MaxSends = 2
    SendSizes = {1}
    MaxInputs = 1
    MaxRepeats = 1
INVARIANTS Accounted ToldOnce DataInOrder NothingHeldForEver
CHECK_DEADLOCK FALSE
