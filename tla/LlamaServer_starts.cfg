SPECIFICATION ScriptSpec
CONSTANTS
  t1 = t1
  Shell <- TheTerminal
  Clock <- Clocks
  MaxFreq = 1020
INVARIANTS
  ClockRestored
  PinnedWhileServing
