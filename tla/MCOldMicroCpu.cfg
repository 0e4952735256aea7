CONSTANTS
  Half = 8
  GP <- MCGP
  BP = 2
  SP = 3
  PC = 4
  ByteSize = 4
  Low = 4
  BitAnd <- MCAnd
  BitOr <- MCOr
  Instrs <- MCInstrs
  None = None
  InitRegs <- MCInitRegs
  InitRam <- MCInitRam
  InitMdr = {12}
  MaxInstrs = 1
  MaxVcycles = 15
SPECIFICATION Spec
INVARIANTS TypeOK Stabilizes BreakIsPrompt
PROPERTIES ImplementsIsa SignalsSettle
CHECK_DEADLOCK FALSE
