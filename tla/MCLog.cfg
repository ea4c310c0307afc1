SPECIFICATION Spec
CONSTANTS
    MaxSerial = 3
    MaxLines = 1
    MaxDepth = 1
INVARIANTS
    EachOnce
    InOrder
    LinesComeAfter
    NothingLost
CHECK_DEADLOCK FALSE
