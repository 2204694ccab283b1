SPECIFICATION PartsSpec
CHECK_DEADLOCK FALSE
INVARIANTS
  TermViewUnbroken
  UpRecordIsWhole
  ShInstalledIsVerified ShOneConnection
  PvEachOnce
PROPERTIES
  CallsReturn ReceiverReturns
  TermDrainStops
  UpEventuallyStored
  ShCallsEnd
  PvEndIsSeen
CONSTANTS
  Turns = {t1, t2}
  Answers = {}
  Cancels = {}
  None = None
  OneConnection = FALSE
  IssuesToken = TRUE
  Echoes = TRUE
  ChanCap = 1
  MaxText = 0
  MaxAsks = 0
  MaxDeaths = 1
  MaxCrashes = 0
  MaxFaults = 0
  RingCap = 2
  TermOpens = 2
  TermOutput = 3
  TermStarts = {1, 3}
  UpSenders = {s1, s2}
  UpMaxSize = 3
  UpCap = 2
  UpMaxFaults = 2
  ShUsers = {u1, u2}
  ShMaxDials = 3
  ShMaxLost = 1
  PvCap = 1
  PvMaxLines = 2
  PvMaxSent = 2
