SPECIFICATION NlSpec
CONSTANTS
  c1 = c1
  c2 = c2
  Nobody = Nobody
  Client <- TwoClients
  Lin <- Speeds
  Ang <- NoTurn
  StopRepeat = 2
  Bridges <- Falters
  Backlog = 2
INVARIANTS
  CarriedOutOnce
