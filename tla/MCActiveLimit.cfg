SPECIFICATION PsSpec
CONSTANTS
  PsCalls = {c1, c2}
  PsKinds = {"antigravity"}
  PsModes = {"Ask"}
  PsReleases = {r1}
  PsInstallers = {i1}
  PsLimit = 1
  PsMaxStarts = 2
  PsMaxInstalls = 1
INVARIANT PsActiveLimited
CHECK_DEADLOCK FALSE
