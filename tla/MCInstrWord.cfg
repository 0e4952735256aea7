CONSTANTS
  Half = 8
  GP = {0, 1}
  BP = 2
  SP = 3
  PC = 4
  ByteSize = 4
  Low = 4
  BitAnd <- MCAnd
  BitOr <- MCOr
  Instrs = {}
  None = None
  SourceLines <- MCLines
  Words <- MCWords
SPECIFICATION Spec
INVARIANTS SimulatorsReadAlike LinesKeepTheirMeaning RowsReachSimulators ConversionsAgree
CHECK_DEADLOCK FALSE
