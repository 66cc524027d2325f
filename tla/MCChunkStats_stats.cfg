SPECIFICATION Spec
CONSTANTS
    Jobs <- MCJobs
    HalfPattern = 2
    TmcdSize = 2
    IgnoreFirst = 3
    MinSizes = 2
    OrderEntries = 5
    OrderLimit = 4
    FewCounts = 3
    PaddingGcd = 8
    Unclear = 1
    Sizes = {3, 4}
    Gaps = {0, 1}
INVARIANTS TypeOK BytesAccountedFor PadIsCommon ReferenceFits
CHECK_DEADLOCK FALSE
