------------------------------ MODULE Recovery ------------------------------
(* What a lane knows of its own failures, and the verification of its        *)
(* continuity when it starts (src/resilience/RecoveryClassifier.js and       *)
(* ContinuityVerifier.js): quarantine and degradation hold it, a change of   *)
(* its critical files is flagged.                                            *)
EXTENDS Integers

CONSTANTS
  MaxFailures,    \* bound: failures in a row
  MaxEdits,       \* bound: the versions of the critical files, beside the first
  MaxRotations    \* bound: changes of the lane's key

ASSUME RecoveryAssumption == MaxFailures \in Nat /\ MaxEdits \in Nat /\ MaxRotations \in Nat

VARIABLES
  signing,      \* signer, key and verifier are configured
  key,          \* the lane's key, in its key store and in the trust store
  memory,       \* the classifier's state
  stateFile,    \* recovery-state.json
  stateSeal,    \* "plain", "signed" or "torn": how that file was written
  fingerprint,  \* the stored fingerprint
  seal,         \* the key that it is signed with; none when it is torn or not there
  code,         \* the fingerprint of the critical files as they are
  lane,         \* "down", "up" or "held"
  action,       \* what the last verification came to
  flagged,      \* the last verification has recorded a fingerprint_drift
  lastUp        \* history: what the last start that came up has stored

recoveryVars == <<signing, key, memory, stateFile, stateSeal, fingerprint, seal, code, lane, action,
                  flagged, lastUp>>

NoFingerprint == -1
Key == 0..MaxRotations

RecoveryState ==
  [current_classification : {"transient", "persistent_dependency", "lane_degradation",
                             "recovery_required"},
   consecutive_failures : Nat, quarantined : BOOLEAN, needs_operator : BOOLEAN]
initialState == [current_classification |-> "transient", consecutive_failures |-> 0,
                  quarantined |-> FALSE, needs_operator |-> FALSE]

RecoveryTypeOK ==
  /\ signing \in BOOLEAN /\ key \in Key
  /\ memory \in RecoveryState /\ stateFile \in RecoveryState
  /\ stateSeal \in {"plain", "signed", "torn"}
  /\ fingerprint \in {NoFingerprint} \cup 0..MaxEdits /\ code \in 0..MaxEdits
  /\ seal \in SUBSET Key
  /\ lane \in {"down", "up", "held"}
  /\ action \in {"none", "QUARANTINE", "DRIFT_DETECTED", "LANE_DEGRADATION",
                 "REVIEW_NEEDED", "CONTINUE"}
  /\ flagged \in BOOLEAN /\ lastUp \in {NoFingerprint} \cup 0..MaxEdits

RecoveryInit ==
  /\ signing \in BOOLEAN /\ key = 0
  /\ memory = initialState /\ stateFile = initialState /\ stateSeal = "plain"
  /\ fingerprint = NoFingerprint /\ seal = {} /\ code = 0
  /\ lane = "down" /\ action = "none" /\ flagged = FALSE /\ lastUp = NoFingerprint

(* The verdict on a signed state goes to a variable that is not declared:    *)
(* that throws, and the state is taken for unreadable. Without a verifier it *)
(* is believed unseen.                                                       *)
stateIsRead == stateSeal = "plain" \/ (stateSeal = "signed" /\ ~signing)
loadedState == IF stateIsRead THEN stateFile ELSE initialState

saveRecovery(s) ==
  memory' = s /\ stateFile' = s /\ stateSeal' = IF signing THEN "signed" ELSE "plain"

(* A stored fingerprint counts only when it can be read, is signed, and a    *)
(* verifier finds its signature to be that of the lane's present key.        *)
isBelieved == signing /\ seal = {key}
prevFp == IF isBelieved THEN fingerprint ELSE NoFingerprint

drift == prevFp # NoFingerprint /\ code # prevFp

verdict(s) ==
  CASE s.quarantined -> "QUARANTINE"
    [] ~s.quarantined /\ s.current_classification = "lane_degradation" -> "LANE_DEGRADATION"
    [] ~s.quarantined /\ s.current_classification = "recovery_required" -> "REVIEW_NEEDED"
    [] OTHER -> IF drift THEN "DRIFT_DETECTED" ELSE "CONTINUE"

-----------------------------------------------------------------------------
saveCurrentData ==
  /\ fingerprint' = code /\ lastUp' = code
  /\ seal' = IF signing THEN {key} ELSE {}

(* A start: what holds the lane leaves the stored fingerprint as it was. A   *)
(* death in the save leaves a file that does not parse.                      *)
Held == {"QUARANTINE", "LANE_DEGRADATION"}

verifyContinuity_SavesFirst ==
  /\ lane = "down"
  /\ memory' = loadedState
  /\ action' = verdict(loadedState)
  /\ flagged' = (drift /\ ~loadedState.quarantined)
  /\ fingerprint' = code /\ seal' = (IF signing THEN {key} ELSE {})
  /\ IF action' \in Held THEN lane' = "held" /\ UNCHANGED lastUp ELSE lane' = "up" /\ lastUp' = code
  /\ UNCHANGED <<signing, key, stateFile, stateSeal, code>>
verifyContinuity ==
  /\ lane = "down"
  /\ memory' = loadedState
  /\ action' = verdict(loadedState)
  /\ flagged' = (drift /\ ~loadedState.quarantined)
  /\ \/ /\ action' \in Held
        /\ lane' = "held" /\ UNCHANGED <<fingerprint, seal, lastUp>>
     \/ /\ action' \notin Held
        /\ saveCurrentData /\ lane' = "up"
     \/ /\ action' \notin Held
        /\ seal' = {} /\ UNCHANGED <<lane, fingerprint, lastUp>>
  /\ UNCHANGED <<signing, key, stateFile, stateSeal, code>>

(* The classification of what a retry has ended with.                        *)
classified(denied, exhausted) ==
  LET failures == memory.consecutive_failures + 1
      review == failures >= 3 /\ ~denied
  IN [current_classification |-> IF denied THEN "lane_degradation"
                                 ELSE IF review THEN "recovery_required"
                                 ELSE "persistent_dependency",
      consecutive_failures |-> failures,
      quarantined |-> memory.quarantined \/ denied \/ exhausted,
      needs_operator |-> denied \/ exhausted \/ review]

classify(denied, exhausted) ==
  /\ lane = "up" /\ memory.consecutive_failures < MaxFailures
  /\ saveRecovery(classified(denied, exhausted))
  /\ UNCHANGED <<signing, key, fingerprint, seal, code, lane, action, flagged, lastUp>>

recordSuccess ==
  /\ lane = "up"
  /\ saveRecovery([memory EXCEPT !.consecutive_failures = 0, !.current_classification = "transient"])
  /\ UNCHANGED <<signing, key, fingerprint, seal, code, lane, action, flagged, lastUp>>

clearQuarantine ==
  /\ lane # "down"
  /\ saveRecovery([memory EXCEPT !.quarantined = FALSE, !.needs_operator = FALSE,
                               !.consecutive_failures = 0])
  /\ UNCHANGED <<signing, key, fingerprint, seal, code, lane, action, flagged, lastUp>>

(* An hour passes: quarantine_until is over in every copy of the state.      *)
QuarantineExpires ==
  /\ memory.quarantined \/ stateFile.quarantined
  /\ memory' = [memory EXCEPT !.quarantined = FALSE]
  /\ stateFile' = [stateFile EXCEPT !.quarantined = FALSE]
  /\ UNCHANGED <<signing, key, stateSeal, fingerprint, seal, code, lane, action, flagged, lastUp>>

(* The lane stops, in the middle of a save of its state or not; it may be    *)
(* started again with other options.                                         *)
Stop ==
  /\ lane # "down"
  /\ lane' = "down" /\ signing' \in BOOLEAN /\ stateSeal' \in {stateSeal, "torn"}
  /\ UNCHANGED <<key, memory, stateFile, fingerprint, seal, code, action, flagged, lastUp>>

EditCode ==
  /\ code' \in 0..MaxEdits \ {code}
  /\ UNCHANGED <<signing, key, memory, stateFile, stateSeal, fingerprint, seal, lane, action,
                 flagged, lastUp>>

RotateKey ==
  /\ key < MaxRotations
  /\ key' = key + 1
  /\ UNCHANGED <<signing, memory, stateFile, stateSeal, fingerprint, seal, code, lane, action,
                 flagged, lastUp>>

RecoveryNext ==
  \/ verifyContinuity
  \/ \E denied, exhausted \in BOOLEAN : classify(denied, exhausted)
  \/ recordSuccess \/ clearQuarantine \/ QuarantineExpires \/ Stop \/ EditCode \/ RotateKey

RecoverySpec == RecoveryInit /\ [][RecoveryNext]_recoveryVars

-----------------------------------------------------------------------------
(* "Immediate containment required": a lane that is quarantined does not     *)
(* come up, however often it is started, until the hour is over or it is     *)
(* cleared - where the state can be read.                                    *)
QuarantineHolds ==
  [][stateIsRead /\ stateFile.quarantined /\ lane = "down" => lane' # "up"]_recoveryVars

comesUp == lane = "down" /\ lane' = "up"

(* A lane that comes up over other critical files than when it last came up  *)
(* has recorded a drift, whatever denials, holds, deaths and stops lie       *)
(* between the two - unless the stored fingerprint was lost to it: it is not *)
(* configured to verify, or what is stored is torn, not signed or signed     *)
(* with a key that is no longer the lane's.                                  *)
DriftIsFlagged ==
  [][comesUp /\ lastUp # NoFingerprint /\ code # lastUp => flagged' \/ ~isBelieved]_recoveryVars
=============================================================================
