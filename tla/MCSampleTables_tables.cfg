SPECIFICATION Spec
CONSTANTS
    Jobs <- MCJobs
    Finds <- MCFinds
    ConstantRun = 1
    OrderLimit = 4
    MaxFound = 3
    Sizes = {1, 3}
    Durations = {1, 2}
    Composition = {0, 1, 2}
INVARIANTS TypeOK TablesAgree PlaysWhatWasFound StreamableKeepsSamples
