SPECIFICATION Spec
CONSTANTS
    Length = 7
    BufSize = 3
    Positions = {0, 1, 2, 3, 4, 5, 6, 7, 8, 9, 11}
    Requests = {0, 1, 2, 3, 4, 6, 8}
    Fragments = {0, 1, 2, 3}
    Furthest = 12
INVARIANTS
    TypeOK
    WindowIsFile
PROPERTIES
    IsRandomAccess
CHECK_DEADLOCK FALSE
