SPECIFICATION Spec
CONSTANTS
  task = task
  guarded = guarded
  auto = auto
  report = report
  refused = refused
  poison = poison
  x1 = x1
  x2 = x2
  w1 = w1
  w2 = w2
  NoName = NoName
  Content <- MCContent
  kindOf <- MCKindOf
  Kinds <- Mixed
  Msg = {refused}
  Worker = {w1, w2}
  Executor = {x1}
  MaxTag = 1
  MaxSession = 3
  MaxDeliver = 1
  MaxStops = 1
  MaxFaults = 0
  MaxRequeue = 2
  maxFiles = 10
  ownerPathShared = TRUE
  manualCadence = FALSE
  enforceOwnership = FALSE
  enforcementMode = "warn"
  schemaValidator = "repository"
SYMMETRY Symmetric
INVARIANT TypeOK
INVARIANT RefusalIsReported
INVARIANT OnlyAdmittedExecuted
INVARIANT ParkedForItsReason
CHECK_DEADLOCK FALSE
