--------------------------- MODULE CompletionProof ---------------------------
(* What a lane message claims about its own completion, and which of those   *)
(* claims the completion gate accepts (scripts/completion-proof.js), with    *)
(* the proof classification of scripts/artifact-resolver.js.                 *)
(*                                                                           *)
(* A message is a record of the attributes the gates tell apart; names,      *)
(* bodies and paths are left out.                                            *)

LEGACY_ARTIFACT_FIELDS == {"completion_artifact_path", "completion_message_id",
                           "resolved_by_task_id"}
ProofField == LEGACY_ARTIFACT_FIELDS \cup {"artifact_path"}

TERMINAL_TYPES == {"ack", "acknowledgment", "heartbeat", "notification",
                   "response", "status"}
TERMINAL_TASK_KINDS == {"status", "report", "done", "ack", "handoff", "audit"}
MessageType == TERMINAL_TYPES \cup {"task", "escalation", "request", "alert",
                                    "handoff"}
TaskKind == TERMINAL_TASK_KINDS \cup {"task", "proposal", "review", "finding",
                                      "ratification", "amendment", "none"}

Message ==
  [ json            : BOOLEAN,       \* the file parses
    schema          : {"valid", "defaultable", "invalid"},
    signature       : {"verified", "unverified", "error"},
    type            : MessageType,
    task_kind       : TaskKind,
    requires_action : {"true", "false", "unset"},
    priority_action : BOOLEAN,
    auto_start      : BOOLEAN,       \* worker_claim, auto_execute, mode=watcher
    confidence      : {"none", "low", "high"},   \* high: at least 7
    investigation   : BOOLEAN,
    derivation      : BOOLEAN,       \* measured and how_measured are given
    ascii           : BOOLEAN,
    provenance      : BOOLEAN,       \* the body starts with the header
    evidence_required : BOOLEAN,
    evidence_path   : BOOLEAN,
    proof           : SUBSET ProofField,   \* the proof fields that are filled
    terminal_decision : BOOLEAN,     \* terminal_decision or disposition
    followup        : BOOLEAN,       \* depends_on, creates_followup, ...
    ownership       : {"absent", "malformed", "expired", "foreign", "own"},
    timing          : {"ordered", "reversed", "no_dispatch", "no_execution"},
    code_hash_ok    : BOOLEAN,
    from_known      : BOOLEAN,       \* from is one of the four lanes
    artifact_exists : BOOLEAN,       \* the claimed path is on disk
    reference_exists : BOOLEAN,      \* the referenced message is on disk
    nackable        : BOOLEAN,       \* from another lane, not exempt, no NACK
    allow_cross_instance : BOOLEAN,
    guarded_write   : BOOLEAN ]      \* a write to a shared script or schema

-----------------------------------------------------------------------------
hasArtifactField(m) == m.proof # {}

hasCompletionProof(m) ==
  hasArtifactField(m) \/ (m.evidence_required /\ m.evidence_path)

hasFakeProof(m) == m.terminal_decision /\ ~hasArtifactField(m)

hasUnresolvableEvidence(m) ==
  m.evidence_required /\ "artifact_path" \notin m.proof

requiresAction(m) == m.requires_action = "true"

isTerminalKind(m) ==
  m.type \in {"task", "alert"} /\ m.task_kind \in TERMINAL_TASK_KINDS

isTerminalInformational(m) ==
  /\ m.requires_action = "false"
  /\ m.type \in TERMINAL_TYPES \/ isTerminalKind(m)
  /\ ~m.followup

(* The gate's early returns, in their order: the first that applies decides. *)
evaluate(m) ==
  LET fail(reason) == [pass |-> FALSE, reason |-> reason]
      ok(reason)   == [pass |-> TRUE, reason |-> reason]
  IN IF hasUnresolvableEvidence(m) THEN fail("EVIDENCE_REQUIRED_NO_ARTIFACT")
     ELSE IF hasFakeProof(m) THEN fail("FAKE_COMPLETION_PROOF")
     ELSE IF requiresAction(m)
       THEN IF hasCompletionProof(m) THEN ok("ACTIONABLE_WITH_PROOF")
                                     ELSE fail("ACTIONABLE_MISSING_PROOF")
     ELSE IF isTerminalInformational(m) THEN ok("TERMINAL_INFORMATIONAL")
     ELSE IF m.requires_action = "unset" THEN fail("AMBIGUOUS_REQUIRES_ACTION")
     ELSE IF m.type \in TERMINAL_TYPES \/ isTerminalKind(m)
       THEN fail("HAS_FOLLOWUP_OBLIGATION")
     ELSE fail("NON_TERMINAL_TYPE")

(* artifact-resolver.js: the first filled field decides what is verified. *)
classifyProof(m) ==
  IF "artifact_path" \in m.proof THEN "EVIDENCE_EXCHANGE"
  ELSE IF "completion_artifact_path" \in m.proof THEN "LEGACY_ARTIFACT_PATH"
  ELSE IF "completion_message_id" \in m.proof THEN "LEGACY_MESSAGE_ID"
  ELSE IF "resolved_by_task_id" \in m.proof THEN "LEGACY_TASK_ID"
  ELSE IF m.evidence_required /\ m.evidence_path THEN "EVIDENCE_PATH"
  ELSE "NONE"

isReference(kind) == kind \in {"LEGACY_MESSAGE_ID", "LEGACY_TASK_ID"}

(* resolveMessage: a claim by path resolves when the file is there, a claim  *)
(* by reference resolves without a look at the disk.                         *)
resolveMessage(m) ==
  /\ classifyProof(m) # "NONE"
  /\ isReference(classifyProof(m)) \/ m.artifact_exists
=============================================================================
