---------------------------- MODULE Verification ----------------------------
(* Verification of signed queue items (src/attestation/Verifier.js,          *)
(* VerifierWrapper.js and QuarantineManager.js): what is wrong with an item  *)
(* decides whether it is refused for good or quarantined and tried again     *)
(* until a human is called.                                                  *)
EXTENDS Integers, FiniteSets

CONSTANTS
  QItem,            \* the items
  signature,        \* signature[i]: what the item carries
  maxRetries,       \* QUARANTINE_MAX_RETRIES
  onQuarantineRetry,\* the wrapper was given a callback, which verifies again
  MaxCalls,         \* bound: calls of verify, per item, beside the retries
  MaxKeyChanges     \* bound: changes of the trust store

Signature == {"none", "not_jws", "garbled", "no_lane", "other_lane", "forged", "genuine"}

ASSUME VerificationAssumption ==
  /\ signature \in [QItem -> Signature]
  /\ maxRetries \in Nat /\ onQuarantineRetry \in BOOLEAN
  /\ MaxCalls \in Nat /\ MaxKeyChanges \in Nat

VARIABLES
  keyKnown,   \* the trust store that was loaded holds the lane's key
  retryCount, \* retryCount[i]: 0 when i is not in quarantine
  timers,     \* timers[i]: retries of i that have been scheduled
  handoff,    \* AGENT_HANDOFF_REQUIRED.md exists
  wiped,      \* the items whose signal went when another one was released
  calls,      \* calls[i]: calls of verify that no retry made
  keyChanges

verificationVars == <<keyKnown, retryCount, timers, handoff, wiped, calls, keyChanges>>

VerificationTypeOK ==
  /\ keyKnown \in BOOLEAN /\ handoff \in BOOLEAN /\ wiped \subseteq QItem
  /\ retryCount \in [QItem -> Nat] /\ timers \in [QItem -> Nat]
  /\ calls \in [QItem -> 0..MaxCalls] /\ keyChanges \in 0..MaxKeyChanges

VerificationInit ==
  /\ keyKnown = TRUE /\ retryCount = [i \in QItem |-> 0]
  /\ timers = [i \in QItem |-> 0] /\ handoff = FALSE /\ wiped = {}
  /\ calls = [i \in QItem |-> 0] /\ keyChanges = 0

(* The lane is compared before a key is looked up, the key before the        *)
(* signature is checked. Three parts that are no JSON throw.                 *)
verifyQueueItem(i) ==
  CASE signature[i] \in {"none", "not_jws"} -> "MISSING_SIGNATURE"
    [] signature[i] = "garbled" -> "throws"
    [] signature[i] = "no_lane" -> "MISSING_LANE"
    [] signature[i] = "other_lane" -> "LANE_MISMATCH"
    [] OTHER -> IF ~keyKnown THEN "KEY_NOT_FOUND"
                ELSE IF signature[i] = "forged" THEN "SIGNATURE_MISMATCH" ELSE "valid"

overLimit(count) == count > maxRetries

(* What is tried again: whatever may change with the trust store, and also   *)
(* what does not parse.                                                      *)
retryable(i) ==
  /\ signature[i] # "none"
  /\ verifyQueueItem(i) \in {"MISSING_SIGNATURE", "KEY_NOT_FOUND", "SIGNATURE_MISMATCH"}

outcome(i) ==
  CASE verifyQueueItem(i) = "valid" -> "success"
    [] verifyQueueItem(i) = "throws" -> "throws"
    [] retryable(i) /\ ~overLimit(retryCount[i] + 1) -> "defer"
    [] OTHER -> "quarantine"

(* One call of verify on i, when fired timers of i have gone off.            *)
verifyItem_KeepsTimer(i, fired) ==
  /\ retryCount' = [retryCount EXCEPT ![i] = IF retryable(i) THEN @ + 1
                                             ELSE IF verifyQueueItem(i) = "valid" THEN 0 ELSE @]
  /\ handoff' = (handoff \/ (retryable(i) /\ overLimit(retryCount[i] + 1)))
  /\ timers' = [timers EXCEPT ![i] = IF onQuarantineRetry /\ outcome(i) = "defer" THEN @ + 1 ELSE @]
  /\ UNCHANGED <<wiped, keyKnown, keyChanges>>
verifyItem(i, fired) ==
  /\ retryCount' = [retryCount EXCEPT ![i] = IF retryable(i) THEN @ + 1
                                             ELSE IF verifyQueueItem(i) = "valid" THEN 0 ELSE @]
  /\ handoff' = (handoff \/ (retryable(i) /\ overLimit(retryCount[i] + 1)))
  /\ wiped' = IF retryable(i) /\ overLimit(retryCount[i] + 1) THEN {}
              ELSE IF verifyQueueItem(i) = "valid" THEN wiped \ {i} ELSE wiped
  /\ timers' = [timers EXCEPT ![i] =
       IF onQuarantineRetry /\ outcome(i) = "defer" THEN (@ - fired) + 1 ELSE @ - fired]
  /\ UNCHANGED <<keyKnown, keyChanges>>

verify(i) ==
  /\ calls[i] < MaxCalls
  /\ calls' = [calls EXCEPT ![i] = @ + 1]
  /\ verifyItem(i, 0)

(* scheduleRetry: a timer that finds its item released does nothing; it is   *)
(* not told from one that was set for an earlier stay.                       *)
timerFires(i) ==
  /\ timers[i] > 0
  /\ IF retryCount[i] > 0
     THEN verifyItem(i, 1)
     ELSE /\ timers' = [timers EXCEPT ![i] = @ - 1]
          /\ UNCHANGED <<keyKnown, retryCount, handoff, wiped, keyChanges>>
  /\ UNCHANGED calls

(* The signal is one file for all items.                                     *)
forceRelease(i) ==
  /\ retryCount[i] > 0
  /\ handoff' = FALSE
  /\ wiped' = (wiped \cup {j \in QItem : overLimit(retryCount[j])}) \ {i}
  /\ retryCount' = [retryCount EXCEPT ![i] = 0]
  /\ UNCHANGED <<keyKnown, timers, calls, keyChanges>>

(* reloadTrustStore after a key was registered or revoked                    *)
reloadTrustStore ==
  /\ keyChanges < MaxKeyChanges
  /\ keyKnown' = ~keyKnown /\ keyChanges' = keyChanges + 1
  /\ UNCHANGED <<retryCount, timers, handoff, wiped, calls>>

VerificationNext ==
  \/ \E i \in QItem : verify(i) \/ timerFires(i) \/ forceRelease(i)
  \/ reloadTrustStore

VerificationSpec == VerificationInit /\ [][VerificationNext]_verificationVars

-----------------------------------------------------------------------------
(* "1-3 retries allowed, 4+ triggers handoff": an item over the limit is     *)
(* signalled to a human for as long as it stays, unless the release of       *)
(* another item has removed the one signal.                                  *)
HandoffIsSignalled ==
  \A i \in QItem : overLimit(retryCount[i]) => handoff \/ i \in wiped

(* However calls, retries and releases overlap, no call of verify keeps more *)
(* than one retry going: timers left over from before a release do not add   *)
(* up.                                                                       *)
OneRetryPerCall == \A i \in QItem : timers[i] <= calls[i]
=============================================================================
