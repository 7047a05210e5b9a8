--------------------------- MODULE MCMessageRouting ----------------------------
(* MessageRouting on the messages that differ in the attributes of one stage *)
(* of the decision, the others being those of a message that stage admits.   *)
(* The form is judged with the options of the configuration, claims with     *)
(* those that a lane runs with by default.                                   *)
EXTENDS MessageRouting

VARIABLE stage    \* "form" or "claim": which slice of the messages arrives

Types == {"task", "escalation", "response", "status", "alert", "handoff"}

(* A response that passes the form checks and claims nothing. *)
Plain ==
  [ json |-> TRUE, schema |-> "valid", signature |-> "verified",
    type |-> "response", task_kind |-> "report", requires_action |-> "false",
    priority_action |-> FALSE, auto_start |-> FALSE, confidence |-> "high",
    investigation |-> FALSE, derivation |-> TRUE, ascii |-> TRUE,
    provenance |-> TRUE, evidence_required |-> FALSE, evidence_path |-> FALSE,
    proof |-> {}, terminal_decision |-> FALSE, followup |-> FALSE,
    ownership |-> "absent", timing |-> "ordered", code_hash_ok |-> TRUE,
    from_known |-> TRUE, nackable |-> TRUE, artifact_exists |-> FALSE, reference_exists |-> FALSE,
    allow_cross_instance |-> FALSE, guarded_write |-> FALSE ]

FormMessages ==
  { [Plain EXCEPT !.json = j, !.schema = s, !.signature = g, !.type = t,
                  !.requires_action = r, !.confidence = c, !.investigation = i,
                  !.derivation = d, !.ascii = a, !.provenance = p,
                  !.ownership = o] :
    j \in BOOLEAN, s \in {"valid", "defaultable", "invalid"},
    g \in {"verified", "unverified", "error"}, t \in Types,
    r \in {"true", "false", "unset"}, c \in {"none", "low", "high"},
    i \in BOOLEAN, d \in BOOLEAN, a \in BOOLEAN, p \in BOOLEAN,
    o \in {"absent", "malformed", "foreign"} }

Proofs == { {}, {"artifact_path"}, {"completion_artifact_path"},
            {"completion_message_id"}, {"resolved_by_task_id"},
            {"completion_artifact_path", "completion_message_id"},
            {"artifact_path", "resolved_by_task_id"} }

ClaimMessages ==
  { [Plain EXCEPT !.type = t, !.task_kind = k, !.requires_action = r,
                  !.priority_action = y, !.auto_start = y,
                  !.evidence_required = er, !.evidence_path = ep,
                  !.proof = p, !.terminal_decision = d, !.followup = f,
                  !.timing = w, !.schema = s, !.code_hash_ok = h,
                  !.from_known = h] :
    t \in Types \ {"escalation", "handoff"},
    k \in {"report", "review", "done", "amendment"},
    r \in {"true", "false"}, y \in BOOLEAN, er \in BOOLEAN, ep \in BOOLEAN,
    p \in Proofs, d \in BOOLEAN, f \in BOOLEAN,
    w \in {"ordered", "reversed", "no_dispatch"},
    s \in {"valid", "defaultable"}, h \in BOOLEAN }

MCMessages == {m \in FormMessages : wellFormed(m)}

Repository ==
  INSTANCE RoutingGate WITH
    manualCadence <- FALSE, enforceOwnership <- TRUE, enforcementMode <- "warn",
    schemaValidator <- "repository"

Default ==
  INSTANCE MessageRouting WITH
    manualCadence <- FALSE, enforceOwnership <- TRUE, enforcementMode <- "warn",
    schemaValidator <- "repository", Messages <- {m \in ClaimMessages : Repository!wellFormed(m)}

GateInit == \/ stage = "form" /\ Init
            \/ stage = "claim" /\ Default!Init

GateNext == /\ UNCHANGED stage
            /\ \/ stage = "form" /\ Next
               \/ stage = "claim" /\ Default!Next

GateSpec == GateInit /\ [][GateNext]_<<stage, vars>>
=============================================================================
