CONSTANTS
    None = None
    Files = {f1}
    InitLen = 3
    Chunk = 2
    RangeChunks = 1
    FlushUnits = 2
    Cap = 1
    Strict = TRUE
    Verify = "chunks"
    CrashKinds = {"process", "power"}
    ChangeKinds = {}
    MaxRuns = 2
    MaxCrashes = 1
    MaxFaults = 0
    MaxChanges = 0
SPECIFICATION Spec
INVARIANT AckedNameDurable
