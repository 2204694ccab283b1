SPECIFICATION Spec
CONSTANTS
  Turns = {t1}
  Answers = {a1}
  Cancels = {c1}
  None = None
  OneConnection = FALSE
  IssuesToken = TRUE
  Echoes = TRUE
  ChanCap = 1
  MaxText = 1
  MaxAsks = 1
  MaxDeaths = 1
  MaxCrashes = 1
  MaxFaults = 1
SYMMETRY Symmetry
INVARIANTS TypeOK LogGapFree RowsBeforeEvents RestartLeavesNothingActive TokenBeforeOutcome
CHECK_DEADLOCK FALSE
