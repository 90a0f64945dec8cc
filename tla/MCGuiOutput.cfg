CONSTANTS
  None = None
  MaxRuns = 2
  MaxLines = 2
SPECIFICATION FairSpec
CHECK_DEADLOCK FALSE
INVARIANTS ShownInOrder ShownWithoutGap WindowIsServed
PROPERTIES ReadIsShown ThreadsEnd
