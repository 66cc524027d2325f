SPECIFICATION Spec
CONSTANTS
    Jobs <- MCJobs
    Limit = 40
    Wrong <- MCWrong
    Inside = {0, 1}
    Lengths = {20}
INVARIANTS TypeOK FindsRootMdat RebuiltFilesLead
