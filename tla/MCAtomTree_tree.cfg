SPECIFICATION Spec
CONSTANTS
    Jobs <- MCJobs
    Parents = {"moov", "trak", "stbl"}
    Dropped = {"cslg", "stps"}
    BufSize = 400
    TableSizes = {0, 4}
    Lengths = {0, 3}
INVARIANTS TypeOK KeepsWholeRoots CountsWhatItWrites
