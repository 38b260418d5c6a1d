SPECIFICATION FairSpec
CONSTANTS
    None = None
    Unknown = Unknown
    Other = Other
PROPERTIES
    EachEnds
CHECK_DEADLOCK FALSE
