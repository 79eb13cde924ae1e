SPECIFICATION FairSpec
CONSTANTS
  Keys <- MCKeys
  Buttons <- MCButtons
  Bound <- MCBound
  Half <- MCHalf
  Wire <- MCWire
  MaxQueue = 1
INVARIANTS PadFollowsKeys
PROPERTIES EdgeRaisesRequest QuitEnds
CHECK_DEADLOCK FALSE
