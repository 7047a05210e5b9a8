SPECIFICATION GateSpec
CONSTANTS
  Messages <- MCMessages
  manualCadence = TRUE
  enforceOwnership = FALSE
  enforcementMode = "enforce"
  schemaValidator = "fallback"
INVARIANT TypeOK
INVARIANT NewWorkNotRefusedForEvidence
INVARIANT OnlyOpenWorkIsHandedOver
PROPERTY RequeueDoesNotAdmit
PROPERTY ClaimsNeedEvidence
