---------------------------- MODULE MCLanePipeline ----------------------------
(* LanePipeline with a handful of messages that take different ways.         *)
EXTENDS LanePipeline, TLC

CONSTANTS task, guarded, auto, report, refused, poison, x1, x2, w1, w2
CONSTANT Kinds   \* the programs that x1 and x2 run

(* A task from another lane as create-signed-message writes it. *)
Base ==
  [ json |-> TRUE, schema |-> "valid", signature |-> "verified",
    type |-> "task", task_kind |-> "review", requires_action |-> "true",
    priority_action |-> FALSE, auto_start |-> FALSE, confidence |-> "high",
    investigation |-> FALSE, derivation |-> TRUE, ascii |-> TRUE,
    provenance |-> TRUE, evidence_required |-> TRUE, evidence_path |-> FALSE,
    proof |-> {}, terminal_decision |-> FALSE, followup |-> FALSE,
    ownership |-> "absent", timing |-> "ordered", code_hash_ok |-> TRUE,
    from_known |-> TRUE, nackable |-> TRUE, artifact_exists |-> FALSE,
    reference_exists |-> FALSE, allow_cross_instance |-> FALSE,
    guarded_write |-> FALSE ]

MCContent ==
  [m \in Msg |->
     CASE m = task    -> Base
       [] m = guarded -> [Base EXCEPT !.guarded_write = TRUE]
       [] m = auto    -> [Base EXCEPT !.auto_start = TRUE]
       [] m = report  -> [Base EXCEPT !.type = "response", !.task_kind = "report",
                                      !.requires_action = "false",
                                      !.proof = {"artifact_path"},
                                      !.artifact_exists = TRUE]
       [] m = refused -> [Base EXCEPT !.confidence = "none"]
       [] m = poison  -> [Base EXCEPT !.derivation = FALSE]]

Watchers == <<"watcher", "watcher">>
Mixed == <<"watcher", "autonomous">>
PlainAndAutonomous == <<"generic", "autonomous">>
AutonomousAndPlain == <<"autonomous", "generic">>

(* Workers differ in nothing but their name. *)
Symmetric == Permutations(Worker)

MCKindOf == [x \in Executor |-> IF x = x1 THEN Kinds[1] ELSE Kinds[2]]
=============================================================================
