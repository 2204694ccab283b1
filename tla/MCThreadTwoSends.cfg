SPECIFICATION Spec
CONSTANTS
  Turns = {t1, t2}
  Answers = {}
  Cancels = {}
  None = None
  OneConnection = FALSE
  IssuesToken = TRUE
  Echoes = FALSE
  ChanCap = 1
  MaxText = 0
  MaxAsks = 0
  MaxDeaths = 0
  MaxCrashes = 0
  MaxFaults = 0
SYMMETRY Symmetry
INVARIANTS OneActiveTurn
CHECK_DEADLOCK FALSE
