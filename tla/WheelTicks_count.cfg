SPECIFICATION Spec
VIEW View
CONSTANTS
  Period = 2
  Wrap = 5
  CountLim = 6
  TotalLim = 4
  LoopGap = 1
  Rate = 1
  BootTime = 2
  MaxTime = 6
INVARIANTS
  TypeOK
  DriftIsBounded
