SPECIFICATION Spec
CONSTANTS
    A = A
    B = B
    Names = {A, B}
    NoName = NoName
    Lines <- TestLines
    MaxLines = 5
    Low = 512
    High = 128
    BrSpan = 8
CHECK_DEADLOCK FALSE
INVARIANTS
    DataDirectiveHonoured
