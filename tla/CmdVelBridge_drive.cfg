SPECIFICATION Spec
VIEW View
CONSTANTS
  Lin <- EveryWay
  Ang <- Turn
  Dur <- Durations
  MaxDuration = 8
  PubPeriod = 4
  StopRepeat = 2
  InTime = 2
  TickGap = 4
  ServeGap = 1
  MaxTime = 1000000
INVARIANTS
  TypeOK
  NeverTooFew
  NeverTooMany
  StopsOnTime
  BlockedStopsForward
  OneForwardAfterBlock
PROPERTIES
  LatchSpec
