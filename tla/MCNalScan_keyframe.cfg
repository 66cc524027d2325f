SPECIFICATION Spec
CONSTANTS
    Jobs <- Hvc1Jobs
    Lookahead = 3
INVARIANT OnlyKeyframesAreMarked
CHECK_DEADLOCK FALSE
