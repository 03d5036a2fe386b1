SPECIFICATION Spec
CONSTANTS
  Lin <- Speeds
  Ang <- Turns
  MaxSpeed = 2
  Track = 2
  MaxDuty = 2
  Timeout = 3
  Wrap = 10
  LoopGap = 2
INVARIANTS
  TypeOK
  OneDirection
  StoppedIsStill
PROPERTIES
  BoardSpec
