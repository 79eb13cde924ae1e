SPECIFICATION Spec
CONSTANTS
  Length = 2
  Pages = {wram, vram, high}
  VramPage = vram
  HighPage = high
  HighRam = {1}
  None = None
  Own = Own
  Versions = 2
INVARIANTS OnSchedule CopyIsSnapshot
