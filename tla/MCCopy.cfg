SPECIFICATION MCSpec
CONSTANTS
    Unknown = Unknown
    Other = Other
    N = 3
    Threads = 2
    BeatEvery = 2
    MaxNow = 5
    None = None
INVARIANTS
    BarrierInv
    CopyPromise
    PublicationPromise
PROPERTIES
    BarrierSteps
    CopySteps
CHECK_DEADLOCK FALSE
