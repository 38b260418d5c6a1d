SPECIFICATION FairSpec
CONSTANTS
    Unused = Unused
    first = first
    second = second
PROPERTIES
    LoneRunObtains
    RunsGetThrough
CHECK_DEADLOCK FALSE
