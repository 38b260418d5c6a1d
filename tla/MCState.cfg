SPECIFICATION Spec
CONSTANTS
    None = None
INVARIANTS
    WorkspacePromise
    RecordPromise
PROPERTIES
    StateSteps
CHECK_DEADLOCK FALSE
