SPECIFICATION GuardSpec
CONSTANTS
  Lin <- Speeds
  Ang <- NoTurn
  NearFrames = 1
  ClearFrames = 1
  Backlog = 1
  MaxCrashes = 1
PROPERTIES
  CloseIsBlockedAgain
