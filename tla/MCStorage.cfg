SPECIFICATION StorageSpec
CONSTANTS
    Receivers = {upload}
    Sources = {download}
    Workers = {w1, w2}
    MaxReceivers = 1
    NoTransfer = NoTransfer
    MaxBlocks = 2
    MaxReads <- MCMaxReads
    Uploads <- MCUploads
    HashOf <- MCHashOf
    NameOf <- MCNameOf
    Blocks = 1
    MaxCrashes = 1
INVARIANTS CleanupNeverRefused FileHasOneWorker ReadAnsweredOnce PublishedWhole
PROPERTIES TransfersProgress FilesKept
CHECK_DEADLOCK FALSE
