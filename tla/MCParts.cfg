SPECIFICATION Spec
CHECK_DEADLOCK FALSE
INVARIANTS
  TlInReach
  DfKept
  DtShowsActive
  CpSentOnce
  WsBarTrue
  HbToldIsReachable
  PsStartKept
  TqStreamKept
  TvScreenRight
  HlReportTrue
  WkSyncedStays
CONSTANTS
  TlThreads = {t1, t2}
  TlKinds = {"approval", "text"}
  TlItemHeight = 2
  TlViewport = 2
  TlOverscan = 1
  TlMaxItems = 4
  TlMaxAsked = 1
  DfPaths <- Paths
  DfContents <- Contents
  DfGap = 7
  DfMaxParts = 6
  DtThreads = {t1, t2}
  DtPaths = {f1}
  DtMaxToasts = 1
  DtMaxCalls = 3
  DtMaxClicks = 6
  CpThreads = {t1, t2}
  CpModels <- Models
  CpMaxFiles = 2
  CpMaxTurns = 2
  WsPaths = {p, g}
  WsIgnored = {g}
  WsTexts = 2
  WsTurns = {1}
  WsKeep = 1
  WsMaxWrites = 3
  WsMaxCommits = 2
  HbEnvs = {n1, n2}
  HbThreads = {t1}
  HbTerms = {k1}
  HbCallers = {c1, c2}
  HbMaxFaults = 1
  PsCalls = {c1, c2}
  PsKinds = {"antigravity", "claude", "opencode serve"}
  PsModes = {"Ask"}
  PsReleases = {r1, r2}
  PsInstallers = {i1}
  PsLimit = 1
  PsMaxStarts = 2
  PsMaxInstalls = 2
  TqSizes = {0, 7, 2010}
  TqWidths = {1, 3}
  TqPushes = 2
  TvSizes <- Sizes
  TvHistory = 1
  TvRing = 2
  TvQueries <- Queries
  TvMaxOut = 4
  HlKinds = {"claude", "cursor"}
  HlInstances = 2
  HlMaxChanges = 1
  HlMaxChecks = 2
  WkPaths = {p1}
  WkCalls = {c1, c2}
  WkMaxCommits = 2
