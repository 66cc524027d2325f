SPECIFICATION Spec
CONSTANTS
    Jobs <- MCJobs
    Lookahead = 3
INVARIANTS TypeOK EndsWithAccessUnit MarksKeyframes
CHECK_DEADLOCK FALSE
