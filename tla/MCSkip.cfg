SPECIFICATION SkipSpec
CONSTANTS
    None = None
INVARIANT
    CompletedNamesTarget
CHECK_DEADLOCK FALSE
