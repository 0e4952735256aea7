SPECIFICATION FairSpec
CONSTANTS
    SdDelay = 3
    FifoBytes = 4
    FifoSlack = 4
    Blocks = {0, 1}
    ImageBlocks = {0}
    NoBlock = NoBlock
    PcSpace = 3
    PcEnd = 2
    Flags = {"IR", "CY"}
    Tgts = {0}
    NoVal = NoVal
    KernelOps <- HandlerOps
    UserOps <- AppOps
    AwaitsTrap = TRUE
    Debugger = TRUE
INVARIANTS
    OneTrapPerRead
PROPERTIES
    KernelNotReentered
    ReadRunsOut
    DiskTrapDelivered
