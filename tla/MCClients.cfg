SPECIFICATION PartsSpec
CONSTANTS
  Turns = {t1, t2}
  Answers = {}
  Cancels = {c1}
  None = None
  OneConnection = FALSE
  IssuesToken = TRUE
  Echoes = TRUE
  ChanCap = 1
  MaxText = 0
  MaxAsks = 0
  MaxDeaths = 0
  MaxCrashes = 0
  MaxFaults = 0
  CvItems = {i1}
  CvAgents = {a1, a2}
  CvMaxEvents = 4
  CvMaxRelays = 2
  CvChannel = 2
  StHosts = {h1}
  StMaxHosts = 2
  StMaxEnvs = 2
  StLimitMax = 1
  StLimitTop = 2
  StConns = {k1}
  StMaxWrites = 1
SYMMETRY Symmetry
INVARIANTS SingleReader  CvShowsAll StSound
PROPERTIES ImplementsEventLog FinishedStaysFinished
CHECK_DEADLOCK FALSE
