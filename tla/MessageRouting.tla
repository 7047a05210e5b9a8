--------------------------- MODULE MessageRouting ----------------------------
(* One inbox message under the routing decision of RoutingGate: it is routed *)
(* as often as the lane does while the facts the decision depends on (the    *)
(* artifact on disk, the ownership lease, the reaper's re-queue) change.     *)
EXTENDS RoutingGate

CONSTANT Messages    \* the messages that may arrive

ASSUME MessagesAssumption == Messages \subseteq {m \in Message : wellFormed(m)}

-----------------------------------------------------------------------------
VARIABLES
  msg,      \* the message as it is on disk
  queue,    \* the directory that holds it
  reason    \* the reason of the latest verdict

vars == <<msg, queue, reason>>

TypeOK ==
  /\ msg \in Message
  /\ queue \in Queues \cup {"inbox", "archive"}
  /\ reason \in Reasons

Init ==
  /\ msg \in Messages
  /\ queue = "inbox"
  /\ reason = "NONE"

(* A fault for the model checker: the verdict is that on the message as it   *)
(* came, what is stored is the message as remediated.                        *)
Route_JudgesUnremediated ==
  /\ queue = "inbox" /\ msg.json
  /\ queue' = decideRoute(msg).queue
  /\ reason' = decideRoute(msg).reason
  /\ msg' = Remediate(msg)

(* processFile on a readable file: remediation and verdict, and the queue    *)
(* gets the message as remediated. After an exception nothing has moved.     *)
Route ==
  /\ queue = "inbox" /\ msg.json
  /\ queue' = routeOf(msg).queue
  /\ reason' = routeOf(msg).reason
  /\ msg' = IF routeOf(msg) = Throw THEN msg ELSE Remediate(msg)

(* processFile on a file that does not parse: _routeRaw moves it unread. *)
RouteRaw ==
  /\ queue = "inbox" /\ ~msg.json
  /\ queue' = "quarantine"
  /\ reason' = "INVALID_JSON"
  /\ UNCHANGED msg

(* quarantine-reaper.js: younger than 30 days back to the inbox, else away. *)
Reap ==
  /\ queue = "quarantine"
  /\ queue' \in {"inbox", "archive"}
  /\ UNCHANGED <<msg, reason>>

(* The file or the message a claim refers to appears or is deleted. *)
ArtifactChanges ==
  /\ \/ msg' = [msg EXCEPT !.artifact_exists = ~@]
     \/ msg' = [msg EXCEPT !.reference_exists = ~@]
  /\ UNCHANGED <<queue, reason>>

(* The lease of the message's owner runs out. *)
LeaseExpires ==
  /\ msg.ownership \in {"foreign", "own"}
  /\ msg' = [msg EXCEPT !.ownership = "expired"]
  /\ UNCHANGED <<queue, reason>>

Next == Route \/ RouteRaw \/ Reap \/ ArtifactChanges \/ LeaseExpires

Spec == Init /\ [][Next]_vars

-----------------------------------------------------------------------------
(* Properties *)

Claims(m) == hasCompletionProof(m) \/ m.terminal_decision

Enters(q) == queue # q /\ queue' = q

(* What is on disk when the claim is accepted: the file for a claim by path, *)
(* the referenced message for a claim by reference.                          *)
Backed(m) ==
  /\ "artifact_path" \in m.proof => m.artifact_exists
  /\ m.proof \cap {"artifact_path", "completion_artifact_path"}
       = {"completion_artifact_path"} => m.artifact_exists
  /\ m.proof \cap {"artifact_path", "completion_artifact_path"} = {}
       => m.reference_exists
  /\ m.proof # {}

(* A message that claims completion in any form, by an artifact field, by an *)
(* evidence path or by a bare decision, is filed as processed only while the *)
(* evidence it names is on disk: every path through decideRoute that ends in *)
(* processed (lane-worker.js 798-909) has gone through the execution gate.   *)
ClaimsNeedEvidence ==
  [][Enters("processed") /\ Claims(msg) => Backed(msg)]_vars

(* NFM-022: work that asks for action and brings no proof is never refused   *)
(* for the evidence it cannot have yet. Whatever its evidence contract, a    *)
(* blocked or quarantined one was refused for its form, its signature, its   *)
(* owner or a bare decision (lane-worker.js 731-740, 776-787).               *)
EvidenceReasons ==
  {"EVIDENCE_REQUIRED_NO_ARTIFACT", "ACTIONABLE_MISSING_PROOF", "INVALID_DOMAIN",
   "EXECUTION_NOT_VERIFIED", "NON_TERMINAL_TYPE", "HAS_FOLLOWUP_OBLIGATION"}

NewWorkNotRefusedForEvidence ==
  isActionable(msg) /\ ~hasCompletionProof(msg) => reason \notin EvidenceReasons

(* What the gate hands to the executors still has to be done: it asks for    *)
(* action by flag or by type, and it claims nothing. A completed message can *)
(* therefore never be executed a second time through the gate.               *)
OnlyOpenWorkIsHandedOver ==
  queue \in {"actionRequired", "inProgress"} =>
    isActionable(msg) /\ ~Claims(msg)

(* A message can pass the completion gate without proof only when it asks    *)
(* for nothing and ends a conversation, so the second verification block of  *)
(* decideRoute (lane-worker.js 849-896) can never run and is left out of the *)
(* model.                                                                    *)
SecondProofBlockUnreachable ==
  \A m \in {msg, Remediate(msg)} :
    /\ formVerdict(m).queue = "next" /\ claimVerdict(m).queue = "next"
    /\ evaluate(m).pass /\ ~isActionable(m)
    => isTerminalInformational(m)

(* A refusal is a decision about the message, so routing it again after the  *)
(* reaper's re-queue can change the queue only when the facts have changed:  *)
(* a message the gate threw on is thrown on for ever, and one quarantined    *)
(* for its schema is never admitted later.                                   *)
SettledReasons ==
  {"SCHEMA_INVALID", "INVALID_JSON", "CONFIDENCE_REQUIRED",
   "FORMAT_VIOLATION_NON_ASCII", "OWNERSHIP_MALFORMED"}

RequeueDoesNotAdmit ==
  [][(reason \in SettledReasons => reason' = reason)]_vars
=============================================================================
