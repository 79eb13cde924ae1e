SPECIFICATION FairSpec
CONSTANTS
  NumLines = 2
  PcMod = 3
  MaxDepth = 2
INVARIANTS DispatchHasLine HaltBugNextFetch
PROPERTIES RequestsSurvive EiOneInstructionLater RequestWakes
