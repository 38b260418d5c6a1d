SPECIFICATION Spec
CONSTANTS
    None = None
    h0 = h0
    h1 = h1
    h2 = h2
    w1 = w1
    k1 = k1
    k2 = k2
INVARIANTS
    FsPromise
PROPERTIES
    ImplementsContract
CHECK_DEADLOCK FALSE
