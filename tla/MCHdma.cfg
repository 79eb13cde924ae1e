SPECIFICATION FairSpec
CONSTANTS
  SourceBlocks = 3
  VramBlocks = 2
  MaxBlocks = 2
  Untouched = Untouched
INVARIANTS BlocksInPlace EachBlockPaidFor StatusTruthful
PROPERTIES LeftAloneItEnds
