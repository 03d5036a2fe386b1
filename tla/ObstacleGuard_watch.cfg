SPECIFICATION GuardSpec
CONSTANTS
  Lin <- Speeds
  Ang <- NoTurn
  NearFrames = 3
  ClearFrames = 4
  Backlog = 2
  MaxCrashes = 1
INVARIANTS
  GuardTypeOK
  Agree
PROPERTIES
  DeathKeepsBlock
  CloseIsBlocked
  FrozenKeepsBlock
