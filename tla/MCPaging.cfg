SPECIFICATION Spec
CONSTANTS
    Pages = 3
    PageBytes = 2
    Frames = 6
    Devices <- OnePageOfDevices
    Byte = {0, 1}
    PtSize = 6
    Tables = {0, 3}
    NoTable = 7
    MayMap <- OwnPages
    KernelCrs <- AnyKernel
    UserCrs <- PagedUser
    LpteRegs = {0}
    Unmapped = Unmapped
INVARIANTS
    TypeOK
PROPERTIES
    ProcessesIsolated
    StoresStayInside
    ImplementsProcessMemory
