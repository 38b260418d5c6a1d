SPECIFICATION MCSpec
CONSTANTS
    None = None
    f1 = f1
    Units = 5
    Chunk = 2
    RangeChunks = 1
    Start = 0
    Carry = 0
    Pool = 2
    Cap = 1
    MaxFaults = 2
INVARIANTS
    WorkerInv
    PublishedIsRead
    DataBeforeCheckpoint
    LogPromise
PROPERTIES
    SinkKeepsPromise
