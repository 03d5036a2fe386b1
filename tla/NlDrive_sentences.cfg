SPECIFICATION NlSpec
CONSTANTS
  c1 = c1
  c2 = c2
  Nobody = Nobody
  Client <- TwoClients
  Lin <- Speeds
  Ang <- NoTurn
  StopRepeat = 1
  Bridges <- ServesOrFalters
  Backlog = 2
INVARIANTS
  NlTypeOK
  StopIsTheLastWord
  OnlySoundCommands
  BlockedIsObeyed
PROPERTIES
  EveryCallReturns
  ComesToRest
