-------------------------- MODULE RoutingGate_proof ---------------------------
(* What decideRoute guarantees for every message.                            *)
EXTENDS RoutingGate, TLAPS

LEMMA FormQueues ==
  ASSUME NEW m
  PROVE  \/ formVerdict(m) = Throw
         \/ formVerdict(m).queue \in {"next", "quarantine", "blocked"}
BY DEF formVerdict, verdict, Throw

LEMMA ClaimQueues ==
  ASSUME NEW m
  PROVE  claimVerdict(m).queue \in {"next", "quarantine", "blocked"}
BY DEF claimVerdict, verdict

LEMMA ProofQueues ==
  ASSUME NEW m
  PROVE  \/ proofVerdict(m) = Throw
         \/ proofVerdict(m).queue \in {"processed", "blocked"}
BY DEF proofVerdict, verdict, Throw

LEMMA GateQueues ==
  ASSUME NEW m
  PROVE  gateVerdict(m) = Throw \/ gateVerdict(m).queue \in Queues
BY ProofQueues DEF gateVerdict, verdict, Queues

(* Whatever a message says, the decision names one of the five queues or     *)
(* throws (decideRoute, lane-worker.js 646-910).                             *)
THEOREM RouteIsQueue ==
  ASSUME NEW m
  PROVE  routeOf(m) = Throw \/ routeOf(m).queue \in Queues
<1>1. ASSUME NEW r
      PROVE decideRoute(r) = Throw \/ decideRoute(r).queue \in Queues
  <2>1. CASE formVerdict(r).queue # "next"
    BY <2>1, FormQueues DEF decideRoute, Queues
  <2>2. CASE formVerdict(r).queue = "next" /\ claimVerdict(r).queue # "next"
    BY <2>2, ClaimQueues DEF decideRoute, Queues
  <2>3. CASE formVerdict(r).queue = "next" /\ claimVerdict(r).queue = "next"
    BY <2>3, GateQueues DEF decideRoute
  <2>4. QED BY <2>1, <2>2, <2>3
<1>2. QED BY <1>1 DEF routeOf

-----------------------------------------------------------------------------
LEMMA ReasonIsKnown ==
  ASSUME NEW m
  PROVE  decideRoute(m).reason \in Reasons
<1>1. evaluate(m).reason \in Reasons
  BY DEF evaluate, Reasons
<1>2. proofVerdict(m).reason \in Reasons
  BY <1>1 DEF proofVerdict, verdict, Throw, Reasons
<1>3. gateVerdict(m).reason \in Reasons
  BY <1>1, <1>2 DEF gateVerdict, verdict, Reasons
<1>4. formVerdict(m).reason \in Reasons
  BY DEF formVerdict, verdict, Throw, Reasons
<1>5. claimVerdict(m).reason \in Reasons
  BY DEF claimVerdict, verdict, Reasons
<1>6. QED BY <1>3, <1>4, <1>5 DEF decideRoute

(* Of the completion gate: it passes exactly two kinds of message.           *)
LEMMA GatePasses ==
  ASSUME NEW m, evaluate(m).pass
  PROVE  \/ requiresAction(m) /\ hasCompletionProof(m)
         \/ isTerminalInformational(m)
BY DEF evaluate
=============================================================================
