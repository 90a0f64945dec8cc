CONSTANTS
  None = None
  Nowhere = Nowhere
  a = a
  b = b
  odd = odd
  Unknown = "?"
  Lines <- MCLines
  Trackers <- MCTrackers
  HeaderLines = 1
  Width = 2
  PerLine = 4
  LineSize = 4
  Glyphs <- MCGlyphs
  MifFiles <- MCMifFiles
  Offsets = {0, 8}
  VgaWords = {a, b, odd}
  Drawings <- MCDrawings
  VerifFiles = {"tb"}
  Trees <- MCTrees
  Overrides <- MCOverrides
SPECIFICATION Spec
CHECK_DEADLOCK FALSE
INVARIANTS PassIsHonest FailIsDeserved MifHoldsImage TextShowsDraws OverrideListed
