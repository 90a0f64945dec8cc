CONSTANTS
  COLS = 3
  ROWS = 3
  DEPTH = 1
  Flows <- CornerFlows
  MaxSent = 2
  StallingTiles <- CornerStalls
SPECIFICATION Spec
INVARIANTS RoutedRight NeverGoesBack NoLockup NoOverflow Conservation
PROPERTY ImplementsChannels
