SPECIFICATION Spec
CONSTANTS
    SdDelay = 3
    FifoBytes = 0
    FifoSlack = 0
    Blocks = {0}
    ImageBlocks = {0}
    NoBlock = NoBlock
    PcSpace = 2
    PcEnd = 2
    Flags = {"IR", "CY"}
    Tgts = {0, 1}
    NoVal = NoVal
    KernelOps <- LaunchOps
    UserOps <- CarryOps
    AwaitsTrap = FALSE
    Debugger = FALSE
PROPERTIES
    UserCarrySurvivesTrap
