SPECIFICATION Spec
CONSTANTS
  task = task
  guarded = guarded
  auto = auto
  report = report
  refused = refused
  poison = poison
  x1 = x1
  x2 = x2
  w1 = w1
  w2 = w2
  NoName = NoName
  Content <- MCContent
  kindOf <- MCKindOf
  Kinds <- Mixed
  Msg = {refused}
  Worker = {w1}
  Executor = {x1}
  MaxTag = 1
  MaxSession = 1
  MaxDeliver = 1
  MaxStops = 0
  MaxFaults = 0
  MaxRequeue = 1
  maxFiles = 10
  ownerPathShared = FALSE
  manualCadence = FALSE
  enforceOwnership = FALSE
  enforcementMode = "warn"
  schemaValidator = "repository"
INVARIANT RequeuedIsKept
CHECK_DEADLOCK FALSE
