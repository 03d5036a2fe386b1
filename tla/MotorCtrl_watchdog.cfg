SPECIFICATION Spec
CONSTANTS
  Speed <- Asked
  MaxDuty = 2
  Timeout = 6
  LoopGap = 1
  Duties = 9
INVARIANTS
  DrivenAsTold
  WatchdogStops
