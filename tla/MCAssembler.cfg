SPECIFICATION Spec
CONSTANTS
    A = A
    B = B
    Names = {A, B}
    NoName = NoName
    Lines <- AllLines
    MaxLines = 5
    Low = 512
    High = 128
    BrSpan = 8
CHECK_DEADLOCK FALSE
INVARIANTS
    TypeOK
    LabelsNameNextItem
    BranchesReachLabels
    ConstantsLoad
    DataReadsBack
PROPERTIES
    ImplementsLayout
