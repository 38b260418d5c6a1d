SPECIFICATION MCSpec
CONSTANTS
    p1 = p1
    p2 = p2
    p3 = p3
    Proc = {p1, p2, p3}
    File = {f1, f2, f3}
    Mode <- PlainBreakCleanup
    Verdicts = {"Trusted", "Missing", "Untrusted"}
    DirLock = {TRUE, FALSE}
    OwnLockTries = 2
    MaxAttempts = 1
    MaxRemovals = 0
SYMMETRY FileSymmetry
INVARIANTS
    LockInv
    MutualExclusion
    RemovedLateWritesBounded
PROPERTIES
    FilesKept
    ImplementsLockService
CHECK_DEADLOCK FALSE
