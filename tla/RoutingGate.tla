----------------------------- MODULE RoutingGate -----------------------------
(* How a lane worker decides the queue of one inbox message                  *)
(* (scripts/lane-worker.js, decideRoute and the schema remediation of        *)
(* processFile), with the execution gate (scripts/execution-gate.js) and the *)
(* verification domain gate (scripts/verification-domain-gate.js) it calls.  *)
EXTENDS CompletionProof

CONSTANTS
  manualCadence,      \* LaneWorker option: no automatic start
  enforceOwnership,   \* LaneWorker option: a foreign owner's lease blocks
  enforcementMode,    \* IdentityEnforcer option: "enforce" or "warn"
  schemaValidator     \* which one was found: "repository" or "fallback"

ASSUME RoutingGateAssumption ==
  /\ manualCadence \in BOOLEAN
  /\ enforceOwnership \in BOOLEAN
  /\ enforcementMode \in {"enforce", "warn"}
  /\ schemaValidator \in {"repository", "fallback"}

ACTIONABLE_TYPES == {"task", "escalation", "request"}
CONFIDENCE_EXEMPT_TYPES == {"notification", "heartbeat", "status"}
VALID_TASK_KINDS == {"task", "proposal", "review", "finding", "report",
                     "status", "ack", "handoff", "ratification", "none"}

Queues == {"actionRequired", "inProgress", "processed", "blocked", "quarantine"}

Reasons ==
  { "NONE", "INVALID_JSON", "PROCESSING_EXCEPTION", "SCHEMA_INVALID",
    "SIGNATURE_INVALID", "CONFIDENCE_REQUIRED", "LOW_CONFIDENCE_NO_INVESTIGATION",
    "FORMAT_VIOLATION_NON_ASCII", "OUTPUT_PROVENANCE_MISSING", "FORM_OK",
    "EVIDENCE_REQUIRED_NO_ARTIFACT", "FAKE_COMPLETION_PROOF",
    "OWNERSHIP_MALFORMED", "OWNERSHIP_ENFORCED_MISMATCH", "CLAIM_OK",
    "ACTIONABLE_NO_PROOF_AUTO_START", "ACTIONABLE_NO_PROOF",
    "ACTIONABLE_MISSING_PROOF", "ACTIONABLE_WITH_PROOF",
    "TERMINAL_INFORMATIONAL", "AMBIGUOUS_REQUIRES_ACTION", "NON_TERMINAL_TYPE",
    "HAS_FOLLOWUP_OBLIGATION", "INVALID_DOMAIN", "EXECUTION_NOT_VERIFIED" }

-----------------------------------------------------------------------------
(* Signature: in mode "warn" the enforcer passes what it cannot verify; only *)
(* an enforcer that throws or is missing makes the worker refuse.            *)
enforceMessage(m) ==
  IF m.signature = "verified" THEN "accept"
  ELSE IF enforcementMode = "enforce" THEN "reject" ELSE "pass"

signatureValid(m) == m.signature # "error" /\ enforceMessage(m) # "reject"

(* SchemaValidator.js, as far as it limits the attributes: a lane without    *)
(* that file falls back on a check of four fields, which limits none.        *)
SCHEMA_TYPES == {"task", "response", "heartbeat", "escalation", "handoff",
                 "ack", "alert", "notification", "status"}
SCHEMA_TASK_KINDS == TERMINAL_TASK_KINDS \cup {"proposal", "review", "amendment",
                                               "ratification"}
KIND_REQUIRED_TYPES == {"task", "response", "escalation", "handoff",
                        "notification", "status"}

validate(m) ==
  schemaValidator = "repository" =>
    /\ m.type \in SCHEMA_TYPES
    /\ m.requires_action # "unset"
    /\ m.task_kind \in SCHEMA_TASK_KINDS \cup {"none"}
    /\ m.type \in KIND_REQUIRED_TYPES => m.task_kind # "none"
    /\ m.type \in {"response", "ack"} /\ m.evidence_required
         => "artifact_path" \in m.proof

(* The attribute schema is the validator's verdict, and "defaultable" when   *)
(* it misses nothing but fields that have a default.                         *)
wellFormed(m) == m.json /\ m.schema # "invalid" => validate(m)

(* applySchemaDefaults fills such fields in. A dispatch time filled in now   *)
(* lies after any execution time the message reports.                        *)
stampDispatch(m) ==
  [m EXCEPT !.timing = IF m.timing = "no_dispatch" THEN "reversed" ELSE m.timing]

applySchemaDefaults(m) == [stampDispatch(m) EXCEPT !.schema = "valid"]

Remediate(m) ==
  IF m.schema = "defaultable" /\ signatureValid(m) THEN applySchemaDefaults(m)
                                                  ELSE m

isActionable(m) ==
  requiresAction(m) \/ m.priority_action \/ m.type \in ACTIONABLE_TYPES

shouldAutoStart(m) == m.auto_start

(* A fault for the model checker: a claim by path is taken at its word.      *)
verify_TrustsPath(m) ==
  IF isReference(classifyProof(m)) /\ ~m.reference_exists THEN "unverified"
                                                          ELSE "verified"

(* execution-gate.js: a claim by path needs the file, a claim by reference   *)
(* needs the referenced message among the sender's files, and looking for it *)
(* throws when the sender is no known lane.                                  *)
verify(m) ==
  IF isReference(classifyProof(m))
  THEN IF ~m.from_known THEN "exception"
       ELSE IF m.reference_exists THEN "verified" ELSE "unverified"
  ELSE IF resolveMessage(m) THEN "verified" ELSE "unverified"

evaluateTemporal(m) == m.timing = "ordered"

evaluateSemantic(m) == m.task_kind \in VALID_TASK_KINDS /\ m.code_hash_ok

evaluateObservability(m) == classifyProof(m) = "NONE" \/ resolveMessage(m)

domainValid(m) ==
  evaluateTemporal(m) /\ evaluateSemantic(m) /\ evaluateObservability(m)

(* decideRoute goes on to the execution gate when the artifact is not        *)
(* observable, whatever else is wrong with the domain.                       *)
domainBlocks(m) == ~domainValid(m) /\ evaluateObservability(m)

performativeConfidence(m) == m.confidence = "high" /\ ~m.derivation

verdict(queue, reason) == [queue |-> queue, reason |-> reason]
Throw == verdict("inbox", "PROCESSING_EXCEPTION")

(* The checks on form and trust, in the order of the code. A confidence of 7 *)
(* or more without its derivation reaches a name that is not defined: the    *)
(* exception leaves the file in the inbox.                                   *)
formVerdict(m) ==
  IF m.schema # "valid" THEN verdict("quarantine", "SCHEMA_INVALID")
  ELSE IF ~signatureValid(m) THEN verdict("blocked", "SIGNATURE_INVALID")
  ELSE IF m.type \notin CONFIDENCE_EXEMPT_TYPES /\ m.confidence = "none"
    THEN verdict("quarantine", "CONFIDENCE_REQUIRED")
  ELSE IF /\ m.type \notin CONFIDENCE_EXEMPT_TYPES
          /\ m.confidence = "low" /\ ~m.investigation
    THEN verdict("blocked", "LOW_CONFIDENCE_NO_INVESTIGATION")
  ELSE IF performativeConfidence(m) THEN Throw
  ELSE IF ~m.ascii THEN verdict("quarantine", "FORMAT_VIOLATION_NON_ASCII")
  ELSE IF /\ m.type \notin ACTIONABLE_TYPES \cup CONFIDENCE_EXEMPT_TYPES
          /\ ~isActionable(m) /\ ~m.provenance
    THEN verdict("blocked", "OUTPUT_PROVENANCE_MISSING")
  ELSE verdict("next", "FORM_OK")

(* A fault for the model checker: the evidence check without NFM-022.        *)
claimVerdict_AllNeedEvidence(m) ==
  IF hasUnresolvableEvidence(m)
    THEN verdict("blocked", "EVIDENCE_REQUIRED_NO_ARTIFACT")
  ELSE IF hasFakeProof(m) THEN verdict("blocked", "FAKE_COMPLETION_PROOF")
  ELSE verdict("next", "CLAIM_OK")

(* The checks on the claim of completion and on ownership. *)
claimVerdict(m) ==
  IF ~isActionable(m) /\ hasUnresolvableEvidence(m)
    THEN verdict("blocked", "EVIDENCE_REQUIRED_NO_ARTIFACT")
  ELSE IF hasFakeProof(m) THEN verdict("blocked", "FAKE_COMPLETION_PROOF")
  ELSE IF m.ownership = "malformed" THEN verdict("quarantine", "OWNERSHIP_MALFORMED")
  ELSE IF enforceOwnership /\ m.ownership = "foreign"
    THEN verdict("blocked", "OWNERSHIP_ENFORCED_MISMATCH")
  ELSE verdict("next", "CLAIM_OK")

(* The verification of a claim that passed the completion gate. *)
proofVerdict(m) ==
  IF classifyProof(m) # "LEGACY_ARTIFACT_PATH" /\ domainBlocks(m)
    THEN verdict("blocked", "INVALID_DOMAIN")
  ELSE IF verify(m) = "exception" THEN Throw
  ELSE IF verify(m) = "unverified" THEN verdict("blocked", "EXECUTION_NOT_VERIFIED")
  ELSE verdict("processed", evaluate(m).reason)

(* A fault for the model checker: all that asks for action is handed over.   *)
gateVerdict_ActionFirst(m) ==
  IF isActionable(m) THEN verdict("actionRequired", "ACTIONABLE_NO_PROOF")
  ELSE IF ~evaluate(m).pass THEN verdict("blocked", evaluate(m).reason)
  ELSE verdict("processed", evaluate(m).reason)

gateVerdict(m) ==
  IF isActionable(m) /\ ~hasCompletionProof(m)
    THEN IF ~manualCadence /\ shouldAutoStart(m)
         THEN verdict("inProgress", "ACTIONABLE_NO_PROOF_AUTO_START")
         ELSE verdict("actionRequired", "ACTIONABLE_NO_PROOF")
  ELSE IF ~evaluate(m).pass THEN verdict("blocked", evaluate(m).reason)
  ELSE IF hasCompletionProof(m) THEN proofVerdict(m)
  ELSE verdict("processed", evaluate(m).reason)

(* A fault for the model checker: the claim's verdict is returned as it is.  *)
decideRoute_NoGate(m) ==
  IF formVerdict(m).queue # "next" THEN formVerdict(m) ELSE claimVerdict(m)

decideRoute(m) ==
  IF formVerdict(m).queue # "next" THEN formVerdict(m)
  ELSE IF claimVerdict(m).queue # "next" THEN claimVerdict(m)
  ELSE gateVerdict(m)

(* processFile from the schema check to the queue that is chosen. *)
routeOf(m) == decideRoute(Remediate(m))
=============================================================================
