SPECIFICATION DSpec
CONSTANTS
  FrameCycles = 24
  ImageCycles = 16
  StepCycles = {4, 8}
  SwitchPause = 12
  RunCycles = {0, 9, 28}
  Addresses = {1, 2}
  Entry = 1
  BreakAt = {1, 2}
  StepCounts = {2}
  ContinueLimit = 20
INVARIANT ImageEndsTheCall
PROPERTY CallsReturn
