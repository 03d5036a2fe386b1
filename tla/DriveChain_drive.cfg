SPECIFICATION ChainSpec
VIEW View
CONSTANTS
  Lin <- Forward
  Ang <- NoTurn
  Dur = {10}
  MaxDuration = 10
  PubPeriod = 2
  StopRepeat = 2
  InTime = 1
  TickGap = 1
  ServeGap = 0
  MaxTime = 1000000
  MaxSpeed = 1
  Track = 1
  MaxDuty = 1
  Lag = 1
  Hold = 6
  Limit = 8
  Latency = 0
  MaxLost = 1
INVARIANTS
  WheelsStop
  WheelsFollow
