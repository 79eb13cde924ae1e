SPECIFICATION Spec
CONSTANTS
  NumLines = 2
  PcMod = 3
  MaxDepth = 2
INVARIANT DiDisables
