CONSTANTS
  WordBytes = 2
  Space = 6
  Mapped = {0, 1}
  Data = {9, 200}
  Addresses = {0, 4}
  Sizes = {0, 4}
  NotSv = NotSv
  Files <- MCFiles
  LineRoom = 5
  MaxTransfers = 2
  MaxLosses = 1
SPECIFICATION Spec
CHECK_DEADLOCK FALSE
INVARIANTS TypeOK MemoryAsAsked ReadIsTrue NeverOutOfStep
PROPERTY TerminalReturns
