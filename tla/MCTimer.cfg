SPECIFICATION FairSpec
CONSTANTS
  CounterMod = 128
  TimaMod = 4
  BitWeight <- MCBitWeight
  ResetCounters <- MCResetCounters
INVARIANTS DetectorFresh WindowAligned
PROPERTIES ImplementsMachineTimer LeftAloneItFires
