SPECIFICATION Spec
CONSTANTS
  Turns = {t1}
  Answers = {a1}
  Cancels = {}
  None = None
  OneConnection = TRUE
  IssuesToken = TRUE
  Echoes = FALSE
  ChanCap = 1
  MaxText = 0
  MaxAsks = 1
  MaxDeaths = 0
  MaxCrashes = 0
  MaxFaults = 0
SYMMETRY Symmetry
INVARIANTS BroadcastIsStored
CHECK_DEADLOCK FALSE
