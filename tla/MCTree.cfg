SPECIFICATION Spec
CONSTANTS
    None = None
    root = root
    upper = upper
    lower = lower
    leaf = leaf
    link = link
    n1 = n1
    n2 = n2
    n3 = n3
INVARIANTS
    FramesPromise
    LinksPromise
    WalkPromise
    PatternsPromise
    VerifyPromise
PROPERTIES
    TreeSteps
CHECK_DEADLOCK FALSE
