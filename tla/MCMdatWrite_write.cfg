SPECIFICATION Spec
CONSTANTS
    Length = 14
    BufSize = 3
    Starts = {2, 5}
    Ends = {8, 10}
    OldLengths = {20}
    MaxExcluded = 3
    Front = 2
    Limit = 14
INVARIANTS
    TypeOK
    NoAssertionFails
    WritesWhatIsKept
    OffsetsLeadToBytes
PROPERTIES
    Terminates
CHECK_DEADLOCK FALSE
