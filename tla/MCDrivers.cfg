CONSTANTS
  SdDelay = 5
  FifoBytes = 12
  Blocks = {0, 1, 2, 3}
  ImageBlocks = {0, 1, 2}
  FifoSlack = 12
  NoBlock = NoBlock
  Wanted <- MCWanted
  Longwords = 3
  MaxLooks = 3
SPECIFICATION Spec
INVARIANTS TypeOK TakenAsRead FifoOverrunsByLooksOnly
PROPERTIES BusyByLooksOnly FoundFreeAgain
CHECK_DEADLOCK FALSE
