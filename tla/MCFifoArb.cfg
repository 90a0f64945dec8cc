CONSTANTS
  FIFO_DEPTH = 4
  Data = {a, b}
  NUM_CLIENTS = 4
SPECIFICATION FifoArbSpec
INVARIANTS CountMatchesPointers BoundedOvertaking
PROPERTY ImplementsQueue
