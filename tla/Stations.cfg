SPECIFICATION FairSpec
CONSTANTS
  am1 = am1
  am2 = am2
  ag1 = ag1
  ag2 = ag2
  g1 = g1
  f1 = f1
  f2 = f2
  f3 = f3
  f4 = f4
  f5 = f5
  c1 = c1
  c2 = c2
  b1 = b1
  b2 = b2
  b3 = b3
  base = base
  s1 = s1
  s2 = s2
  noSnap = noSnap
  Stations = {"act", "presence", "recovery", "lock", "watch", "alert", "snapshot", "library"}
  ActMessage = {am1, am2}
  actLanes <- MCLanes
  actLane <- MCActLane
  actPriority <- MCActPriority
  maxRounds = 2
  maxConsecutiveErrors = 2
  MaxStarts = 2
  MaxKills = 1
  Agent = {ag1, ag2}
  agentLane <- MCAgentLane
  JournalPath = {"p1"}
  MaxEntries = 3
  MaxLapses = 1
  MaxDay = 1
  MaxAutofix = 2
  LeaseLane = {"archivist", "kernel"}
  LeaseFile = {"f"}
  sharedFiles = {}
  CANONICAL_OWNER = "archivist"
  LEASE_TTL = 1
  MaxTime = 2
  MaxIntents = 2
  Visitor = {"u", "v"}
  NoLock = "n"
  QItem = {g1, f1}
  QProcess = {"p", "q"}
  signature <- MCSignature
  maxRetries = 2
  onQuarantineRetry = TRUE
  MaxCalls = 2
  Decision = {"accepted"}
  MaxKeyChanges = 1
  MaxFailures = 3
  MaxEdits = 1
  MaxRotations = 1
  Watcher = {"a", "b", "c"}
  Nobody = "nobody"
  WatchedFile = {f1, f2, f3, f4, f5}
  keyOf <- MCKey
  nature <- MCNature
  consensus <- MCConsensus
  urgent = {f1}
  MAX_QUARANTINE_ATTEMPTS = 1
  MaxPosts = 3
  MaxTakes = 1
  MaxMishaps = 1
  Chain = {c1, c2}
  chainKind <- MCChainKind
  ownConsensus = TRUE
  maxChainDepth = 3
  maxIterations = 2
  MaxOrigins = 1
  MaxForeign = 1
  MaxCrashes = 1
  Parked = {b1, b2, b3}
  baseOf <- MCBase
  marks <- MCMarks
  NoBase = nb
  MaxArrivals = 3
  MaxTaken = 1
  MaxPasses = 2
  Rememberer = {"a", "b"}
  maxSessions = 1
  MaxBegun = 3
  MaxNotes = 2
  MaxTorn = 1
  consecutive <- MCConsecutive
  cooldown <- MCCooldown
  MaxClock = 3
  MaxLosses = 1
  Snap = {s1, s2}
  NoSnap = noSnap
  MaxWrites = 2
  MaxQueue = 2
  MaxDeaths = 1
  MaxRefusals = 1
  MaxRemovals = 1
  LibSnap = {s1, s2}
  Poll = {"p", "q"}
  MaxLibWrites = 2
  MaxLibDeaths = 1
  MaxLibErrors = 1
  Call = {"x", "y", "z"}
  callLane <- MCCallLane
  NoLane = "n"
  NoCall = "nc"
  MAX_RETRIES = 2
  MaxIoErrors = 1
  MaxExcuses = 0
INVARIANT TypesOK
INVARIANT RepeatsAreExplained
INVARIANT OneWatcherButForRobbery
INVARIANT HandledOnce
INVARIANT SnapshotRecordsAreTrue
PROPERTY MailIsHandled
PROPERTY DriftIsFlagged
PROPERTY NothingVanishes
PROPERTY InboxIsWorkedOff
PROPERTY SustainedLoadIsReported
PROPERTY LaneIsWatchedAgain
PROPERTY SnapshotsAreProcessed
CHECK_DEADLOCK FALSE
