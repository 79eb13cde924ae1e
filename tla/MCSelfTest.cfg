SPECIFICATION Spec
CONSTANTS
  RamBankSize = 4
  Mbc2Cells = 2
INVARIANT ChecksPass
INVARIANT ArithmeticExact
INVARIANT DecimalExact
INVARIANT MemoryHolds
PROPERTY LengthsAgree
PROPERTY PictureExact
CHECK_DEADLOCK FALSE
