SPECIFICATION Spec
CONSTANTS
  Turns = {t1, t2}
  Answers = {}
  Cancels = {}
  None = None
  OneConnection = TRUE
  IssuesToken = TRUE
  Echoes = FALSE
  ChanCap = 1
  MaxText = 0
  MaxAsks = 0
  MaxDeaths = 0
  MaxCrashes = 0
  MaxFaults = 0
SYMMETRY Symmetry
INVARIANTS AcceptedTurnIsStreamed
CHECK_DEADLOCK FALSE
