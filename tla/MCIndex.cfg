SPECIFICATION MCSpec
CONSTANTS
    Families = {"names", "inodes"}
    Items = 2
    None = None
INVARIANTS
    BuildInv
    NamesPromise
    RunsPromise
    ScratchPromise
    StorePromise
PROPERTIES
    BuildSteps
    PoisonSteps
CHECK_DEADLOCK FALSE
