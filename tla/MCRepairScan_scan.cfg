SPECIFICATION Spec
CONSTANTS
    v = v
    a = a
    Free = Free
    Start = Start
    Tracks = {v, a}
    Jobs <- AllJobs
    Size = 10
    MdatStart = 1
    AtomLens = {3}
    ZeroStep = 2
    HeaderSize = 2
    MinAlign = 1
    PatHalf = 2
    MinChunkBytes = 2
    PaddingGcd = 3
INVARIANTS
    TypeOK
    NoAssertionFails
    ExclusionsInOrder
    WriteAccepts
    TotalIsExcluded
    FramesAreKept
    SampleTableExact
    UnknownOnlyInFree
    StrictScanKeepsOnlyFrames
PROPERTIES
    ExcludesOnlyBehindFrames
CHECK_DEADLOCK FALSE
