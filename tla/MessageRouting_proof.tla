--------------------------- MODULE MessageRouting_proof ------------------------
(* What routing guarantees for every message and every history of routing    *)
(* and re-routing it, proved without bounds.                                 *)
EXTENDS MessageRouting, RoutingGate_proof

-----------------------------------------------------------------------------
(* Remediation changes the schema verdict and the timing, nothing else, and  *)
(* the routing facts below depend on neither.                                *)
LEMMA RemediateKeeps ==
  ASSUME NEW m \in Message
  PROVE  /\ Remediate(m) \in Message
         /\ Remediate(m).type = m.type
         /\ Remediate(m).requires_action = m.requires_action
         /\ Remediate(m).priority_action = m.priority_action
         /\ Remediate(m).proof = m.proof
         /\ Remediate(m).evidence_required = m.evidence_required
         /\ Remediate(m).evidence_path = m.evidence_path
         /\ Remediate(m).terminal_decision = m.terminal_decision
         /\ Remediate(m).artifact_exists = m.artifact_exists
         /\ Remediate(m).reference_exists = m.reference_exists
<1>1. stampDispatch(m) \in Message
  BY DEF stampDispatch, Message
<1>2. applySchemaDefaults(m) \in Message
  BY <1>1 DEF applySchemaDefaults, Message
<1>3. QED BY <1>1, <1>2 DEF Remediate, applySchemaDefaults, stampDispatch, Message

-----------------------------------------------------------------------------
(* Type correctness. *)

LEMMA TypeInit == Init => TypeOK
BY MessagesAssumption DEF Init, TypeOK, Reasons

LEMMA TypeStep == TypeOK /\ [Next]_vars => TypeOK'
<1> SUFFICES ASSUME TypeOK, [Next]_vars PROVE TypeOK'
  OBVIOUS
<1>1. CASE Route
  <2>1. routeOf(msg).queue \in Queues \cup {"inbox"}
    BY RouteIsQueue DEF Throw, verdict
  <2>2. routeOf(msg).reason \in Reasons
    BY ReasonIsKnown DEF routeOf
  <2>3. msg' \in Message
    BY <1>1, RemediateKeeps DEF Route, TypeOK
  <2>4. QED BY <1>1, <2>1, <2>2, <2>3 DEF Route, TypeOK
<1>2. CASE RouteRaw
  BY <1>2 DEF RouteRaw, TypeOK, Queues, Reasons
<1>3. CASE Reap
  BY <1>3 DEF Reap, TypeOK
<1>4. CASE ArtifactChanges
  <2>1. CASE msg' = [msg EXCEPT !.artifact_exists = ~@]
    <3>1. msg' \in Message
      BY <2>1 DEF TypeOK, Message
    <3>2. QED BY <1>4, <3>1 DEF ArtifactChanges, TypeOK
  <2>2. CASE msg' = [msg EXCEPT !.reference_exists = ~@]
    <3>1. msg' \in Message
      BY <2>2 DEF TypeOK, Message
    <3>2. QED BY <1>4, <3>1 DEF ArtifactChanges, TypeOK
  <2>3. QED BY <1>4, <2>1, <2>2 DEF ArtifactChanges
<1>5. CASE LeaseExpires
  BY <1>5 DEF LeaseExpires, TypeOK, Message
<1>6. CASE UNCHANGED vars
  BY <1>6 DEF vars, TypeOK
<1>7. QED BY <1>1, <1>2, <1>3, <1>4, <1>5, <1>6 DEF Next

(* The message stays a message, and lies in one of the lane's directories.   *)
THEOREM TypeCorrect == Spec => []TypeOK
<1>1. QED BY TypeInit, TypeStep, PTL DEF Spec

-----------------------------------------------------------------------------
(* What the decision guarantees of the message it is made for. *)

LEMMA OpenWork ==
  ASSUME NEW m, decideRoute(m).queue \in {"actionRequired", "inProgress"}
  PROVE  isActionable(m) /\ ~Claims(m)
<1>1. formVerdict(m).queue \notin {"actionRequired", "inProgress"}
  BY DEF formVerdict, verdict, Throw
<1>2. claimVerdict(m).queue \notin {"actionRequired", "inProgress"}
  BY DEF claimVerdict, verdict
<1>3. gateVerdict(m).queue \in {"actionRequired", "inProgress"}
      /\ claimVerdict(m).queue = "next"
  BY <1>1, <1>2 DEF decideRoute
<1>4. proofVerdict(m).queue \notin {"actionRequired", "inProgress"}
  BY DEF proofVerdict, verdict, Throw
<1>5. isActionable(m) /\ ~hasCompletionProof(m)
  BY <1>3, <1>4 DEF gateVerdict, verdict
<1>6. ~hasFakeProof(m)
  BY <1>3 DEF claimVerdict, verdict
<1>7. QED BY <1>5, <1>6 DEF Claims, hasFakeProof, hasCompletionProof

LEMMA NewWork ==
  ASSUME NEW m, isActionable(m), ~hasCompletionProof(m)
  PROVE  decideRoute(m).reason \notin EvidenceReasons
<1>1. formVerdict(m).reason \notin EvidenceReasons
  BY DEF formVerdict, verdict, Throw, EvidenceReasons
<1>2. claimVerdict(m).reason \notin EvidenceReasons
  BY DEF claimVerdict, verdict, EvidenceReasons
<1>3. gateVerdict(m).reason \notin EvidenceReasons
  BY DEF gateVerdict, verdict, EvidenceReasons
<1>4. QED BY <1>1, <1>2, <1>3 DEF decideRoute

LEMMA ProcessedIsBacked ==
  ASSUME NEW m \in Message, decideRoute(m).queue = "processed", Claims(m)
  PROVE  Backed(m)
<1>1. formVerdict(m).queue # "processed"
  BY DEF formVerdict, verdict, Throw
<1>2. claimVerdict(m).queue # "processed"
  BY DEF claimVerdict, verdict
<1>3. gateVerdict(m).queue = "processed" /\ claimVerdict(m).queue = "next"
  BY <1>1, <1>2 DEF decideRoute
<1>4. hasCompletionProof(m)
  BY <1>3 DEF claimVerdict, verdict, hasFakeProof, Claims, hasCompletionProof
<1>5. evaluate(m).pass /\ proofVerdict(m).queue = "processed"
  BY <1>3, <1>4 DEF gateVerdict, verdict
<1>6. ~hasUnresolvableEvidence(m)
  BY <1>5 DEF evaluate
<1>7. m.proof # {} /\ m.proof \subseteq ProofField
  BY <1>4, <1>6 DEF hasCompletionProof, hasArtifactField, hasUnresolvableEvidence,
                    Message
<1>8. verify(m) = "verified"
  BY <1>5 DEF proofVerdict, verdict, Throw, verify
<1>9. CASE isReference(classifyProof(m))
  <2>1. m.reference_exists
    BY <1>8, <1>9 DEF verify
  <2>2. m.proof \cap {"artifact_path", "completion_artifact_path"} = {}
    BY <1>9 DEF classifyProof, isReference
  <2>3. QED BY <1>7, <2>1, <2>2 DEF Backed
<1>10. CASE ~isReference(classifyProof(m))
  <2>1. m.artifact_exists
    BY <1>8, <1>10 DEF verify, resolveMessage
  <2>2. \/ "artifact_path" \in m.proof
        \/ "completion_artifact_path" \in m.proof
    BY <1>7, <1>10 DEF classifyProof, isReference, ProofField,
                       LEGACY_ARTIFACT_FIELDS
  <2>3. QED BY <1>7, <2>1, <2>2 DEF Backed
<1>11. QED BY <1>9, <1>10

-----------------------------------------------------------------------------
(* No step changes what the message asks for and what it claims. *)

SameClaims(m, r) ==
  /\ r.type = m.type
  /\ r.requires_action = m.requires_action
  /\ r.priority_action = m.priority_action
  /\ r.proof = m.proof
  /\ r.evidence_required = m.evidence_required
  /\ r.evidence_path = m.evidence_path
  /\ r.terminal_decision = m.terminal_decision

LEMMA SameClaimsMeans ==
  ASSUME NEW m, NEW r, SameClaims(m, r)
  PROVE  /\ isActionable(r) <=> isActionable(m)
         /\ hasCompletionProof(r) <=> hasCompletionProof(m)
         /\ Claims(r) <=> Claims(m)
<1>1. hasCompletionProof(r) <=> hasCompletionProof(m)
  BY DEF SameClaims, hasCompletionProof, hasArtifactField
<1>2. isActionable(r) <=> isActionable(m)
  BY DEF SameClaims, isActionable, requiresAction
<1>3. QED BY <1>1, <1>2 DEF SameClaims, Claims

LEMMA RemediateSameClaims ==
  ASSUME NEW m \in Message
  PROVE  SameClaims(m, Remediate(m))
BY RemediateKeeps DEF SameClaims

LEMMA ClaimsKept ==
  ASSUME TypeOK, [Next]_vars
  PROVE  SameClaims(msg, msg')
<1>1. msg' = msg => SameClaims(msg, msg')
  BY DEF SameClaims
<1>2. CASE Route
  BY <1>1, <1>2, RemediateSameClaims DEF Route, TypeOK
<1>3. CASE ArtifactChanges
  <2>1. CASE msg' = [msg EXCEPT !.artifact_exists = ~@]
    BY <2>1 DEF SameClaims, TypeOK, Message
  <2>2. CASE msg' = [msg EXCEPT !.reference_exists = ~@]
    BY <2>2 DEF SameClaims, TypeOK, Message
  <2>3. QED BY <1>3, <2>1, <2>2 DEF ArtifactChanges
<1>4. CASE LeaseExpires
  BY <1>4 DEF LeaseExpires, SameClaims, TypeOK, Message
<1>5. CASE RouteRaw \/ Reap \/ UNCHANGED vars
  BY <1>1, <1>5 DEF RouteRaw, Reap, vars
<1>6. QED BY <1>2, <1>3, <1>4, <1>5 DEF Next

-----------------------------------------------------------------------------
(* The safety properties of the decision. *)

(* Only open work reaches the executors' queues (lane-worker.js 776-787).    *)
THEOREM OpenWorkOnly == Spec => []OnlyOpenWorkIsHandedOver
<1>1. Init => OnlyOpenWorkIsHandedOver
  BY DEF Init, OnlyOpenWorkIsHandedOver
<1>2. TypeOK /\ OnlyOpenWorkIsHandedOver /\ [Next]_vars
        => OnlyOpenWorkIsHandedOver'
  <2> SUFFICES ASSUME TypeOK, OnlyOpenWorkIsHandedOver, [Next]_vars,
                      queue' \in {"actionRequired", "inProgress"}
               PROVE  isActionable(msg') /\ ~Claims(msg')
    BY DEF OnlyOpenWorkIsHandedOver
  <2>1. isActionable(msg) /\ ~Claims(msg)
    <3>1. CASE Route
      <4>1. /\ isActionable(Remediate(msg))
            /\ ~Claims(Remediate(msg))
        BY <3>1, OpenWork DEF Route, routeOf
      <4>2. QED BY <4>1, RemediateSameClaims, SameClaimsMeans DEF TypeOK
    <3>2. CASE ~Route
      BY <3>2 DEF OnlyOpenWorkIsHandedOver, Next, RouteRaw, Reap,
                  ArtifactChanges, LeaseExpires, vars
    <3>3. QED BY <3>1, <3>2
  <2>2. QED BY <2>1, ClaimsKept, SameClaimsMeans
<1>3. QED BY <1>1, <1>2, TypeCorrect, PTL DEF Spec

(* New work is never refused for its missing evidence (NFM-022,              *)
(* lane-worker.js 731-740).                                                  *)
THEOREM NewWorkAdmitted == Spec => []NewWorkNotRefusedForEvidence
<1>1. Init => NewWorkNotRefusedForEvidence
  BY DEF Init, NewWorkNotRefusedForEvidence, EvidenceReasons
<1>2. TypeOK /\ NewWorkNotRefusedForEvidence /\ [Next]_vars
        => NewWorkNotRefusedForEvidence'
  <2> SUFFICES ASSUME TypeOK, NewWorkNotRefusedForEvidence, [Next]_vars,
                      isActionable(msg'), ~hasCompletionProof(msg')
               PROVE  reason' \notin EvidenceReasons
    BY DEF NewWorkNotRefusedForEvidence
  <2>1. isActionable(msg) /\ ~hasCompletionProof(msg)
    BY ClaimsKept, SameClaimsMeans
  <2>2. CASE Route
    <3>1. /\ isActionable(Remediate(msg))
          /\ ~hasCompletionProof(Remediate(msg))
      BY <2>1, RemediateSameClaims, SameClaimsMeans DEF TypeOK
    <3>2. QED BY <2>2, <3>1, NewWork DEF Route, routeOf
  <2>3. CASE ~Route
    BY <2>1, <2>3 DEF NewWorkNotRefusedForEvidence, EvidenceReasons, Next,
                      RouteRaw, Reap, ArtifactChanges, LeaseExpires, vars
  <2>4. QED BY <2>2, <2>3
<1>3. QED BY <1>1, <1>2, TypeCorrect, PTL DEF Spec

(* Nothing that claims completion is filed as processed without its evidence *)
(* (lane-worker.js 798-909).                                                 *)
THEOREM ClaimsAreBacked == Spec => ClaimsNeedEvidence
<1>1. TypeOK /\ [Next]_vars => [Enters("processed") /\ Claims(msg) => Backed(msg)]_vars
  <2> SUFFICES ASSUME TypeOK, Next, queue # "processed", queue' = "processed",
                      Claims(msg)
               PROVE  Backed(msg)
    BY DEF Enters
  <2>1. Route
    BY DEF Next, RouteRaw, Reap, ArtifactChanges, LeaseExpires
  <2>2. decideRoute(Remediate(msg)).queue = "processed"
    BY <2>1 DEF Route, routeOf
  <2>3. /\ Remediate(msg) \in Message
        /\ Claims(Remediate(msg))
    BY RemediateKeeps, RemediateSameClaims, SameClaimsMeans DEF TypeOK
  <2>4. Backed(Remediate(msg))
    BY <2>2, <2>3, ProcessedIsBacked
  <2>5. QED BY <2>4, RemediateKeeps DEF Backed, TypeOK
<1>2. QED BY <1>1, TypeCorrect, PTL DEF Spec, ClaimsNeedEvidence

(* The second verification block of decideRoute is dead code.                *)
THEOREM SecondBlockIsDead == Spec => []SecondProofBlockUnreachable
<1>1. SecondProofBlockUnreachable
  BY GatePasses DEF SecondProofBlockUnreachable, isActionable
<1>2. QED BY <1>1, PTL

-----------------------------------------------------------------------------
(* A refusal for form is final: the facts it rests on never change.          *)

SameForm(m, r) ==
  /\ r.json = m.json /\ r.schema = m.schema /\ r.signature = m.signature
  /\ r.type = m.type /\ r.requires_action = m.requires_action
  /\ r.priority_action = m.priority_action
  /\ r.confidence = m.confidence /\ r.investigation = m.investigation
  /\ r.derivation = m.derivation /\ r.ascii = m.ascii
  /\ r.provenance = m.provenance
  /\ r.proof = m.proof /\ r.evidence_required = m.evidence_required
  /\ r.terminal_decision = m.terminal_decision
  /\ r.ownership = "malformed" <=> m.ownership = "malformed"

LEMMA DefaultedForm ==
  ASSUME NEW m \in Message, NEW r \in Message, SameForm(m, r)
  PROVE  SameForm(applySchemaDefaults(m), applySchemaDefaults(r))
BY DEF applySchemaDefaults, stampDispatch, SameForm, Message

LEMMA RemediatedForm ==
  ASSUME NEW m \in Message, NEW r \in Message, SameForm(m, r)
  PROVE  SameForm(Remediate(m), Remediate(r))
<1>1. signatureValid(r) <=> signatureValid(m)
  BY DEF SameForm, signatureValid, enforceMessage
<1>2. QED BY <1>1, DefaultedForm DEF Remediate, SameForm

LEMMA SameFormVerdict ==
  ASSUME NEW m, NEW r, SameForm(m, r)
  PROVE  formVerdict(r) = formVerdict(m)
<1>1. signatureValid(r) <=> signatureValid(m)
  BY DEF SameForm, signatureValid, enforceMessage
<1>2. isActionable(r) <=> isActionable(m)
  BY DEF SameForm, isActionable, requiresAction
<1>3. performativeConfidence(r) <=> performativeConfidence(m)
  BY DEF SameForm, performativeConfidence
<1>4. QED BY <1>1, <1>2, <1>3 DEF SameForm, formVerdict

LEMMA SettledVerdict ==
  ASSUME NEW m, NEW r, SameForm(m, r), decideRoute(m).reason \in SettledReasons
  PROVE  decideRoute(r).reason = decideRoute(m).reason
<1>1. formVerdict(r) = formVerdict(m)
  BY SameFormVerdict
<1>2. evaluate(m).reason \notin SettledReasons
  BY DEF evaluate, SettledReasons
<1>3. proofVerdict(m).reason \notin SettledReasons
  BY <1>2 DEF proofVerdict, verdict, Throw, SettledReasons
<1>4. gateVerdict(m).reason \notin SettledReasons
  BY <1>2, <1>3 DEF gateVerdict, verdict, SettledReasons
<1>5. CASE formVerdict(m).queue # "next"
  BY <1>1, <1>5 DEF decideRoute
<1>6. CASE formVerdict(m).queue = "next"
  <2>1. claimVerdict(m).queue # "next"
        /\ claimVerdict(m).reason \in SettledReasons
    BY <1>4, <1>6 DEF decideRoute
  <2>2. claimVerdict(m) = verdict("quarantine", "OWNERSHIP_MALFORMED")
    BY <2>1 DEF claimVerdict, verdict, SettledReasons
  <2>3. isActionable(r) <=> isActionable(m)
    BY DEF SameForm, isActionable, requiresAction
  <2>4. claimVerdict(r) = verdict("quarantine", "OWNERSHIP_MALFORMED")
    BY <2>2, <2>3 DEF claimVerdict, verdict, SameForm, hasUnresolvableEvidence,
                      hasFakeProof, hasArtifactField
  <2>5. QED BY <1>1, <1>6, <2>2, <2>4 DEF decideRoute, verdict
<1>7. QED BY <1>5, <1>6

(* The strengthening: a settled reason is the one another routing would give. *)
Settled ==
  reason \in SettledReasons =>
    IF msg.json THEN routeOf(msg).reason = reason ELSE reason = "INVALID_JSON"

LEMMA RemediateTwice ==
  ASSUME NEW m \in Message
  PROVE  Remediate(Remediate(m)) = Remediate(m)
<1>1. applySchemaDefaults(m).schema = "valid"
  BY DEF applySchemaDefaults, stampDispatch, Message
<1>2. QED BY <1>1 DEF Remediate

LEMMA SettledStep ==
  ASSUME TypeOK, Settled, [Next]_vars
  PROVE  Settled' /\ (reason \in SettledReasons => reason' = reason)
<1>1. TypeOK'
  BY TypeStep
<1>2. CASE Route
  <2>1. CASE routeOf(msg) = Throw
    <3>1. reason' \notin SettledReasons
      BY <1>2, <2>1 DEF Route, Throw, verdict, SettledReasons
    <3>2. reason \notin SettledReasons
      BY <1>2, <2>1 DEF Route, Settled, Throw, verdict, SettledReasons
    <3>3. QED BY <3>1, <3>2 DEF Settled
  <2>2. CASE routeOf(msg) # Throw
    <3>1. msg' = Remediate(msg) /\ reason' = routeOf(msg).reason
      BY <1>2, <2>2 DEF Route
    <3>2. routeOf(msg') = routeOf(msg)
      BY <3>1, RemediateTwice DEF routeOf, TypeOK
    <3>3. msg'.json
      BY <1>2, <3>1 DEF Route, Remediate, applySchemaDefaults, stampDispatch,
                        TypeOK, Message
    <3>4. reason \in SettledReasons => reason' = reason
      BY <1>2, <3>1 DEF Route, Settled
    <3>5. QED BY <3>1, <3>2, <3>3, <3>4 DEF Settled
  <2>3. QED BY <2>1, <2>2
<1>3. CASE RouteRaw
  BY <1>3 DEF RouteRaw, Settled, SettledReasons
<1>4. CASE ArtifactChanges \/ LeaseExpires
  <2>1. SameForm(msg, msg')
    <3>1. CASE msg' = [msg EXCEPT !.artifact_exists = ~@]
      BY <3>1 DEF SameForm, TypeOK, Message
    <3>2. CASE msg' = [msg EXCEPT !.reference_exists = ~@]
      BY <3>2 DEF SameForm, TypeOK, Message
    <3>3. CASE LeaseExpires
      BY <3>3 DEF LeaseExpires, SameForm, TypeOK, Message
    <3>4. QED BY <1>4, <3>1, <3>2, <3>3 DEF ArtifactChanges
  <2>2. SameForm(Remediate(msg), Remediate(msg'))
    BY <1>1, <2>1, RemediatedForm DEF TypeOK
  <2>3. routeOf(msg).reason \in SettledReasons
          => routeOf(msg').reason = routeOf(msg).reason
    BY <2>2, SettledVerdict DEF routeOf
  <2>4. reason' = reason
    BY <1>4 DEF ArtifactChanges, LeaseExpires
  <2>5. msg'.json = msg.json
    BY <2>1 DEF SameForm
  <2>6. QED BY <2>3, <2>4, <2>5 DEF Settled
<1>5. CASE Reap \/ UNCHANGED vars
  BY <1>5 DEF Reap, vars, Settled
<1>6. QED BY <1>2, <1>3, <1>4, <1>5 DEF Next

(* A message quarantined for its form is never admitted later, however often *)
(* the reaper sends it back (quarantine-reaper.js 63-66).                    *)
THEOREM RefusalIsFinal == Spec => RequeueDoesNotAdmit
<1>1. Init => Settled
  BY DEF Init, Settled, SettledReasons
<1>2. TypeOK /\ Settled /\ [Next]_vars => Settled'
  BY SettledStep
<1>3. TypeOK /\ Settled /\ [Next]_vars
        => [(reason \in SettledReasons => reason' = reason)]_vars
  BY SettledStep
<1>4. QED BY <1>1, <1>2, <1>3, TypeCorrect, PTL DEF Spec, RequeueDoesNotAdmit
=============================================================================
