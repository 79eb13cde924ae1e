SPECIFICATION FairSpec
CONSTANTS
  DotsPerLine = 9
  OamScanDots = 3
  DrawingDots = 3
  VisibleLines = 2
  TotalLines = 4
  TickLengths = {1, 2}
INVARIANTS TypeOK ModeMatchesPosition StatLineFresh WindowBounded
PROPERTIES NoSignalMerged ImplementsRaster ImagesKeepComing CoincidenceKeepsComing
