SPECIFICATION Spec
CONSTANTS
  Phrases <- MCPhrases
  Pace <- MCPace
  Seconds <- MCSeconds
  HoldoutWord <- MCHoldoutWord
  Tries = 1
  Offtopic <- MCOfftopic
  Args <- MCArgs
  Speeds <- MCSpeeds
  Times <- MCTimes
  Tol = 2
  MaxDuration = 1000
  Gold <- MCGold
  Refusal <- MCRefusal
  Rows = 1
  Conf <- MCConf
  Quantile <- MCQuantile
  MaxValid = 3
  Seeds = 2
  Steps = 2
  Free = 1
  LowMemory = 1
  Poll = 1
  Listing = 1
  Grace = 2
  MaxRuns = 2
CHECK_DEADLOCK FALSE
INVARIANTS
  NoSentenceTwice
  HoldoutInItsHalf
  ScoreTellsTheDrive
  ThresholdLetsThrough
  LowIsShort
  TraceSurvives
  ScoredIsTrained
