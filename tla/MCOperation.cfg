SPECIFICATION MCSpec
CONSTANTS
    a = a
    b = b
    c = c
    Run = {a, b, c}
    Flag <- PlainResumeRestart
    Kind = "tree"
    MaxRounds = 2
    MaxFaults = 1
    MaxRemovals = 0
INVARIANTS
    LifeInv
    SoleResumable
    BesidesPromise
PROPERTIES
    OutcomesKept
CHECK_DEADLOCK FALSE
