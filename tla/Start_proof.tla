----------------------------- MODULE Start_proof ------------------------------
(* Theorems on what survives the restart of a process: the recovery state of *)
(* a lane, the alarm of the act daemon, the cooldown of an alert.            *)
EXTENDS Recovery, ActDaemon, CpuAlerts, FiniteSetTheorems, SequenceTheorems, TLAPS

-----------------------------------------------------------------------------
(* Recovery: the state of a lane is well formed.                             *)
LEMMA InitialState == initialState \in RecoveryState
BY SMT DEF initialState, RecoveryState

LEMMA VerdictIsAnAction ==
  ASSUME NEW s \in RecoveryState
  PROVE  verdict(s) \in {"QUARANTINE", "DRIFT_DETECTED", "LANE_DEGRADATION", "REVIEW_NEEDED", "CONTINUE"}
BY DEF verdict, RecoveryState

LEMMA RecoveryTypeStep ==
  ASSUME RecoveryTypeOK, [RecoveryNext]_recoveryVars
  PROVE  RecoveryTypeOK'
<1> USE RecoveryAssumption DEF RecoveryTypeOK, NoFingerprint, Key
<1>1. CASE verifyContinuity
  <2>1. loadedState \in RecoveryState
    BY InitialState DEF loadedState
  <2>2. /\ memory' \in RecoveryState
        /\ action' \in {"QUARANTINE", "DRIFT_DETECTED", "LANE_DEGRADATION", "REVIEW_NEEDED", "CONTINUE"}
    BY <1>1, <2>1, VerdictIsAnAction DEF verifyContinuity
  <2>3. flagged' \in BOOLEAN
    <3>1. loadedState.quarantined \in BOOLEAN
      BY <2>1 DEF RecoveryState
    <3>2. (drift /\ ~loadedState.quarantined) \in BOOLEAN
      OBVIOUS
    <3>3. flagged' = (drift /\ ~loadedState.quarantined)
      BY <1>1 DEF verifyContinuity
    <3> QED BY <3>2, <3>3, Zenon
  <2>4. /\ UNCHANGED <<signing, key, stateFile, stateSeal, code>>
        /\ lane' \in {"down", "up", "held"}
        /\ fingerprint' \in {fingerprint, code} /\ lastUp' \in {lastUp, code}
        /\ seal' \in {seal, {key}, {}}
    BY <1>1 DEF verifyContinuity, saveCurrentData
  <2>5. seal' \in SUBSET (0..MaxRotations)
    BY <2>4
  <2> QED BY <2>2, <2>3, <2>4, <2>5
<1>2. CASE \E denied, exhausted \in BOOLEAN : classify(denied, exhausted)
  <2>1. PICK denied, exhausted \in BOOLEAN : classify(denied, exhausted)
    BY <1>2
  <2>2. classified(denied, exhausted) \in RecoveryState
    <3>1. memory.consecutive_failures + 1 \in Nat
      BY SMT DEF RecoveryState
    <3> QED BY <3>1, Zenon DEF classified, RecoveryState
  <2> QED BY <2>1, <2>2 DEF classify, saveRecovery
<1>3. CASE recordSuccess
  BY <1>3 DEF recordSuccess, saveRecovery, RecoveryState
<1>4. CASE clearQuarantine
  BY <1>4 DEF clearQuarantine, saveRecovery, RecoveryState
<1>5. CASE QuarantineExpires
  BY <1>5 DEF QuarantineExpires, RecoveryState
<1>6. CASE Stop
  BY <1>6 DEF Stop
<1>7. CASE EditCode
  BY <1>7 DEF EditCode
<1>8. CASE RotateKey
  BY <1>8 DEF RotateKey
<1>9. CASE UNCHANGED recoveryVars
  BY <1>9 DEF recoveryVars
<1> QED BY <1>1, <1>2, <1>3, <1>4, <1>5, <1>6, <1>7, <1>8, <1>9 DEF RecoveryNext

THEOREM RecoveryTypeCorrect == RecoverySpec => []RecoveryTypeOK
<1>1. RecoveryInit => RecoveryTypeOK
  <2>1. 0 \in 0..MaxRotations /\ 0 \in 0..MaxEdits
    BY RecoveryAssumption
  <2> QED BY <2>1, InitialState DEF RecoveryInit, RecoveryTypeOK, Key
<1> QED BY <1>1, RecoveryTypeStep, PTL DEF RecoverySpec

(* As long as its state can be read, a lane that is quarantined does not     *)
(* come up, however often it is started, for every sequence of failures.     *)
THEOREM QuarantineHoldsAlways == RecoverySpec => QuarantineHolds
<1>1. RecoveryTypeOK /\ [RecoveryNext]_recoveryVars
        => (stateIsRead /\ stateFile.quarantined /\ lane = "down" => lane' # "up")
  <2> SUFFICES ASSUME RecoveryTypeOK, [RecoveryNext]_recoveryVars, stateIsRead,
                      stateFile.quarantined, lane = "down"
               PROVE  lane' # "up"
    OBVIOUS
  <2>1. verdict(loadedState) = "QUARANTINE"
    BY DEF verdict, loadedState
  <2>2. CASE verifyContinuity
    BY <2>1, <2>2 DEF verifyContinuity, Held
  <2>3. CASE ~verifyContinuity
    BY <2>3 DEF RecoveryNext, recoveryVars, classify, recordSuccess, clearQuarantine,
                QuarantineExpires, Stop, EditCode, RotateKey
  <2> QED BY <2>2, <2>3
<1> QED BY <1>1, RecoveryTypeCorrect, PTL DEF QuarantineHolds, RecoverySpec

(* Between two starts that come up, whatever signs the stored fingerprint    *)
(* signs the one that the first of them has stored.                          *)
StoredIsLastUp == seal # {} => fingerprint = lastUp

LEMMA StoredIsLastUpStep ==
  ASSUME StoredIsLastUp, [RecoveryNext]_recoveryVars
  PROVE  StoredIsLastUp'
<1>1. CASE verifyContinuity
  <2>1. \/ UNCHANGED <<fingerprint, seal, lastUp>>
        \/ fingerprint' = code /\ lastUp' = code
        \/ seal' = {}
    BY <1>1 DEF verifyContinuity, saveCurrentData
  <2> QED BY <2>1 DEF StoredIsLastUp
<1>2. CASE ~verifyContinuity
  <2>1. UNCHANGED <<fingerprint, seal, lastUp>>
    BY <1>2 DEF RecoveryNext, recoveryVars, classify, recordSuccess, clearQuarantine,
                QuarantineExpires, Stop, EditCode, RotateKey
  <2> QED BY <2>1 DEF StoredIsLastUp
<1> QED BY <1>1, <1>2

(* A lane that comes up over changed critical files has recorded the drift,  *)
(* unless it could not believe the stored fingerprint, for every sequence of *)
(* changes, failures, deaths, key rotations and ways to be started.          *)
THEOREM DriftIsAlwaysFlagged == RecoverySpec => DriftIsFlagged
<1>1. RecoveryInit => StoredIsLastUp
  BY DEF RecoveryInit, StoredIsLastUp
<1>2. StoredIsLastUp /\ [RecoveryNext]_recoveryVars => StoredIsLastUp'
  BY StoredIsLastUpStep
<1>3. RecoveryTypeOK /\ StoredIsLastUp /\ [RecoveryNext]_recoveryVars
        => (comesUp /\ lastUp # NoFingerprint /\ code # lastUp => flagged' \/ ~isBelieved)
  <2> SUFFICES ASSUME RecoveryTypeOK, StoredIsLastUp, [RecoveryNext]_recoveryVars, comesUp,
                      lastUp # NoFingerprint, code # lastUp, isBelieved
               PROVE  flagged'
    OBVIOUS
  <2>1. verifyContinuity
    BY DEF comesUp, RecoveryNext, recoveryVars, classify, recordSuccess, clearQuarantine,
           QuarantineExpires, Stop, EditCode, RotateKey
  <2>2. drift
    BY DEF drift, prevFp, isBelieved, StoredIsLastUp
  <2>3. ~loadedState.quarantined
    <3>1. CASE loadedState.quarantined
      <4>1. verdict(loadedState) = "QUARANTINE"
        BY <3>1 DEF verdict
      <4> QED BY <2>1, <4>1 DEF verifyContinuity, Held, comesUp
    <3> QED BY <3>1
  <2> QED BY <2>1, <2>2, <2>3 DEF verifyContinuity
<1> QED BY <1>1, <1>2, <1>3, RecoveryTypeCorrect, PTL DEF DriftIsFlagged, RecoverySpec

-----------------------------------------------------------------------------
(* The act daemon: the state file and the copy of it are well formed.        *)
ActSaved ==
  /\ disk \in Saved /\ state \in Saved /\ intact \in BOOLEAN
  /\ mail \subseteq ActMessage \X {"inbox", "processed", "expired"}
  /\ found \subseteq ActMessage \X {"inbox", "processed", "expired"}
  /\ current \subseteq ActMessage

(* A daemon that runs knows of the alarm that is on the disk.                *)
AlarmIsKnown == intact /\ disk.human /\ phase # "off" => state.human

LEMMA FirstStateIsSaved == FirstState \in Saved
BY SMT DEF FirstState, Saved

LEMMA AlarmInvariantStep ==
  ASSUME ActSaved, AlarmIsKnown, [ActNext]_actVars
  PROVE  ActSaved' /\ AlarmIsKnown'
<1> USE ActAssumption DEF ActSaved, AlarmIsKnown, goto
<1>0. loadState \in Saved
  BY FirstStateIsSaved DEF loadState
<1>1. ASSUME NEW m \in ActMessage, Arrive(m)
      PROVE  ActSaved' /\ AlarmIsKnown'
  BY <1>1 DEF Arrive, actMemory
<1>2. ASSUME NEW m \in ActMessage, NEW d \in {"processed", "expired"}, FileAway(m, d)
      PROVE  ActSaved' /\ AlarmIsKnown'
  BY <1>2 DEF FileAway, actMemory
<1>3. CASE TimePasses
  BY <1>3 DEF TimePasses
<1>4. CASE Start
  BY <1>0, <1>4 DEF Start, loadState, Saved
<1>5. CASE Kill
  BY <1>5 DEF Kill, actMemory
<1>6. CASE Signal
  BY <1>0, <1>6 DEF Signal, saveState, actMemory, Saved
<1>7. CASE Save
  BY <1>7 DEF Save, saveState, actMemory, saving
<1>8. CASE runLoop
  BY <1>8 DEF runLoop
<1>9. CASE scanDirForActMessages
  BY <1>9 DEF scanDirForActMessages
<1>10. CASE filterNew
  <2>1. found' \subseteq found /\ UNCHANGED <<mail, disk, intact, current>> /\ phase # "off"
    BY <1>10 DEF filterNew, newMessages
  <2>2. state' \in Saved /\ (state.human => state'.human)
    <3>1. \/ UNCHANGED state
          \/ state' = [state EXCEPT !.status = "paused", !.human = TRUE]
      BY <1>10 DEF filterNew
    <3> QED BY <3>1 DEF Saved
  <2> QED BY <2>1, <2>2
<1>11. ASSUME NEW x \in found, invokeSession(x)
       PROVE  ActSaved' /\ AlarmIsKnown'
  BY <1>11 DEF invokeSession
<1>12. ASSUME NEW ok \in BOOLEAN, updateRoundState(ok)
       PROVE  ActSaved' /\ AlarmIsKnown'
  <2> DEFINE round == state.current_round + 1
             errors == IF ok THEN 0 ELSE state.errors + 1
             paused == errors >= maxConsecutiveErrors
             complete == round >= maxRounds
  <2>1. round \in Nat /\ errors \in Nat
    BY DEF Saved
  <2>2. state' = [state EXCEPT !.current_round = round, !.errors = errors,
                    !.processed = @ \cup current,
                    !.human = @ \/ paused \/ complete,
                    !.status = IF complete THEN "completed" ELSE IF paused THEN "paused" ELSE @]
    BY <1>12, Zenon DEF updateRoundState
  <2> HIDE DEF round, errors, paused, complete
  <2>3. state' \in Saved /\ (state.human => state'.human)
    BY <2>1, <2>2, Zenon DEF Saved
  <2>4. UNCHANGED <<mail, disk, intact, found>> /\ current' = {} /\ phase # "off"
    BY <1>12 DEF updateRoundState
  <2> QED BY <2>3, <2>4
<1>13. CASE endBatch
  BY <1>13 DEF endBatch, actMemory
<1>14. CASE nextPoll
  BY <1>14 DEF nextPoll, actMemory
<1>15. CASE UNCHANGED actVars
  BY <1>15 DEF actVars, actMemory
<1> QED
  BY <1>1, <1>2, <1>3, <1>4, <1>5, <1>6, <1>7, <1>8, <1>9, <1>10, <1>11, <1>12, <1>13, <1>14, <1>15
  DEF ActNext, daemonStep

(* However often the daemon is restarted and dies, no session starts while   *)
(* the state file holds an alarm.                                            *)
THEOREM AlarmIsAlwaysFinal == ActSpec => AlarmIsFinal
<1>1. ActInit => ActSaved /\ AlarmIsKnown
  BY FirstStateIsSaved DEF ActInit, ActSaved, AlarmIsKnown
<1>2. ActSaved /\ AlarmIsKnown /\ [ActNext]_actVars
        => (intact /\ disk.human => UNCHANGED sessions)
  BY DEF AlarmIsKnown, ActNext, daemonStep, actVars, actCounts, Arrive, FileAway, TimePasses, Start,
         Kill, Signal, Save, runLoop, scanDirForActMessages, filterNew, invokeSession,
         updateRoundState, endBatch, nextPoll
<1> QED BY <1>1, <1>2, AlarmInvariantStep, PTL DEF ActSpec, AlarmIsFinal

-----------------------------------------------------------------------------
(* What the act daemon has in memory is on the disk but while it is saving,  *)
(* and a session is forgotten only by a daemon that dies.                    *)
DiskFollows ==
  /\ phase \in {"loop", "scan", "weigh", "batch", "session", "idle"} => intact /\ disk = state
  /\ phase \in {"boot", "stall"} => state.processed = loadState.processed
  /\ phase \notin {"off", "session"} => current = {}

Batching == {"batch", "session", "record"}
filesOf(m) == {x \in found : x[1] = m}

(* The messages that get no further session once their files are dealt with. *)
known == IF phase = "off" THEN loadState.processed ELSE state.processed \cup current

(* The sessions that may still start for m, if the daemon does not die.      *)
mayStart(m) ==
  IF phase \in Batching /\ filesOf(m) # {} THEN Cardinality(filesOf(m)) ELSE IF m \in known THEN 0 ELSE 1

InBudget(m) == sessions[m] + mayStart(m) <= 1 + doubled[m] + kills

ActCounted ==
  /\ phase \in {"off", "boot", "loop", "scan", "weigh", "batch", "session", "record", "stall", "idle"}
  /\ sessions \in [ActMessage -> Nat] /\ doubled \in [ActMessage -> Nat] /\ kills \in Nat

RepeatInv ==
  /\ ActSaved /\ AlarmIsKnown /\ ActCounted /\ DiskFollows
  /\ \A m \in ActMessage : InBudget(m)

(* A message lies in three directories at most.                              *)
LEMMA FilesAreFew ==
  ASSUME NEW m, NEW S \in SUBSET (ActMessage \X {"inbox", "processed", "expired"})
  PROVE  /\ IsFiniteSet({x \in S : x[1] = m})
         /\ Cardinality({x \in S : x[1] = m}) \in Nat
         /\ {x \in S : x[1] = m} # {} => Cardinality({x \in S : x[1] = m}) >= 1
<1> DEFINE F == {x \in S : x[1] = m}
           T == {<<m, "inbox">>, <<m, "processed">>, <<m, "expired">>}
<1>1. F \subseteq T
  OBVIOUS
<1>2. IsFiniteSet({<<m, "inbox">>})
  BY FS_Singleton
<1>3. IsFiniteSet({<<m, "inbox">>} \cup {<<m, "processed">>})
  BY <1>2, FS_AddElement
<1>4. IsFiniteSet(({<<m, "inbox">>} \cup {<<m, "processed">>}) \cup {<<m, "expired">>})
  BY <1>3, FS_AddElement
<1>5. T = ({<<m, "inbox">>} \cup {<<m, "processed">>}) \cup {<<m, "expired">>}
  OBVIOUS
<1>6. IsFiniteSet(F)
  BY <1>1, <1>4, <1>5, FS_Subset
<1> HIDE DEF F
<1>7. Cardinality(F) \in Nat
  BY <1>6, FS_CardinalityType
<1>8. F # {} => Cardinality(F) # 0
  BY <1>6, FS_EmptySet
<1>9. F # {} => Cardinality(F) >= 1
  BY <1>7, <1>8
<1> QED BY <1>6, <1>7, <1>9 DEF F

LEMMA MayStartType ==
  ASSUME ActSaved, NEW m \in ActMessage
  PROVE  mayStart(m) \in Nat /\ (phase \in Batching /\ filesOf(m) # {} => mayStart(m) >= 1)
<1>1. Cardinality(filesOf(m)) \in Nat /\ (filesOf(m) # {} => Cardinality(filesOf(m)) >= 1)
  BY FilesAreFew DEF ActSaved, filesOf
<1> QED BY <1>1 DEF mayStart

(* What may start does not grow as long as the batch stays as it is or ends  *)
(* and nothing is forgotten.                                                 *)
LEMMA QuietStarts ==
  ASSUME RepeatInv, UNCHANGED <<sessions, doubled, kills>>,
         phase' \in Batching => phase \in Batching /\ found' = found, known \subseteq known',
         NEW m \in ActMessage
  PROVE  InBudget(m)'
<1>1. mayStart(m) \in Nat /\ (phase \in Batching /\ filesOf(m) # {} => mayStart(m) >= 1)
  BY MayStartType DEF RepeatInv
<1>2. mayStart(m)' \in Nat /\ mayStart(m)' <= mayStart(m)
  <2>1. CASE phase' \in Batching /\ filesOf(m)' # {}
    <3>1. filesOf(m)' = filesOf(m) /\ phase \in Batching
      BY <2>1 DEF filesOf
    <3>2. mayStart(m)' = mayStart(m)
      BY <2>1, <3>1 DEF mayStart
    <3> QED BY <1>1, <3>2
  <2>2. CASE ~(phase' \in Batching /\ filesOf(m)' # {})
    <3>1. mayStart(m)' = IF m \in known' THEN 0 ELSE 1
      BY <2>2 DEF mayStart
    <3>2. CASE phase \in Batching /\ filesOf(m) # {}
      BY <1>1, <3>1, <3>2
    <3>3. CASE ~(phase \in Batching /\ filesOf(m) # {})
      <4>1. mayStart(m) = IF m \in known THEN 0 ELSE 1
        BY <3>3 DEF mayStart
      <4> QED BY <3>1, <4>1
    <3> QED BY <3>2, <3>3
  <2> QED BY <2>1, <2>2
<1>3. InBudget(m) /\ sessions[m] \in Nat /\ doubled[m] \in Nat /\ kills \in Nat
  BY DEF RepeatInv, ActCounted
<1> QED BY <1>1, <1>2, <1>3 DEF InBudget

LEMMA DiskFollowsStep ==
  ASSUME ActSaved, ActCounted, DiskFollows, [ActNext]_actVars
  PROVE  DiskFollows'
<1> USE DEF DiskFollows, goto, ActSaved, ActCounted
<1>1. ASSUME NEW m \in ActMessage, NEW d \in {"processed", "expired"}, Arrive(m) \/ FileAway(m, d)
      PROVE  DiskFollows'
  BY <1>1 DEF Arrive, FileAway, actMemory, loadState
<1>2. CASE TimePasses \/ Kill
  BY <1>2 DEF TimePasses, Kill, actMemory, loadState
<1>3. CASE Start
  <2>1. loadState \in Saved
    BY FirstStateIsSaved DEF loadState
  <2>2. state'.processed = loadState.processed
    BY <1>3, <2>1 DEF Start, Saved
  <2> QED BY <1>3, <2>2 DEF Start, loadState
<1>4. CASE Signal
  BY <1>4 DEF Signal
<1>5. CASE Save
  BY <1>5 DEF Save, saveState, actMemory, saving
<1>6. CASE runLoop \/ scanDirForActMessages \/ endBatch \/ nextPoll
  BY <1>6 DEF runLoop, scanDirForActMessages, endBatch, nextPoll, actMemory
<1>7. CASE filterNew
  <2>1. CASE state' = state /\ phase' \in {"batch", "idle"}
    BY <1>7, <2>1 DEF filterNew
  <2>2. CASE state' = [state EXCEPT !.status = "paused", !.human = TRUE] /\ phase' = "stall"
    <3>1. state'.processed = state.processed
      BY <2>2 DEF Saved
    <3> QED BY <1>7, <2>2, <3>1 DEF filterNew, loadState
  <2> QED BY <1>7, <2>1, <2>2 DEF filterNew
<1>8. ASSUME NEW x \in found, invokeSession(x)
      PROVE  DiskFollows'
  BY <1>8 DEF invokeSession
<1>9. ASSUME NEW ok \in BOOLEAN, updateRoundState(ok)
      PROVE  DiskFollows'
  BY <1>9 DEF updateRoundState
<1>10. CASE UNCHANGED actVars
  BY <1>10 DEF actVars, actMemory, loadState
<1> QED
  BY <1>1, <1>2, <1>3, <1>4, <1>5, <1>6, <1>7, <1>8, <1>9, <1>10 DEF ActNext, daemonStep

(* A batch begins: of a message found k times, k - 1 files are too many.     *)
LEMMA BatchBegins ==
  ASSUME RepeatInv, filterNew, phase' = "batch", NEW m \in ActMessage
  PROVE  InBudget(m)'
<1> DEFINE F == {x \in newMessages : x[1] = m}
<1>1. /\ phase = "weigh" /\ found' = newMessages /\ state' = state /\ current' = current
      /\ UNCHANGED <<sessions, kills>> /\ newMessages \subseteq found
      /\ doubled'[m] = IF Cardinality(F) > 1 THEN doubled[m] + (Cardinality(F) - 1) ELSE doubled[m]
  <2>1. newMessages # {}
    BY DEF filterNew, goto
  <2>2. doubled' = [n \in ActMessage |->
                      LET k == Cardinality({x \in newMessages : x[1] = n})
                      IN IF k > 1 THEN doubled[n] + (k - 1) ELSE doubled[n]]
    BY <2>1, Zenon DEF filterNew
  <2>3. newMessages \subseteq found
    BY DEF newMessages
  <2> HIDE DEF newMessages
  <2> QED BY <2>1, <2>2, <2>3 DEF filterNew
<1>2. current = {} /\ InBudget(m) /\ sessions[m] \in Nat /\ doubled[m] \in Nat /\ kills \in Nat
  BY <1>1 DEF RepeatInv, DiskFollows, ActCounted
<1>3. known = state.processed /\ known' = known
  BY <1>1, <1>2 DEF known
<1>4. mayStart(m) = IF m \in known THEN 0 ELSE 1
  BY <1>1 DEF mayStart, Batching
<1>5. filesOf(m)' = F /\ phase' \in Batching
  BY <1>1 DEF filesOf, Batching
<1>6. Cardinality(F) \in Nat /\ (F # {} => Cardinality(F) >= 1)
  BY <1>1, FilesAreFew DEF RepeatInv, ActSaved
<1>7. m \in known => F = {}
  BY <1>3 DEF newMessages
<1> HIDE DEF F
<1>8. mayStart(m)' = IF F # {} THEN Cardinality(F) ELSE IF m \in known THEN 0 ELSE 1
  BY <1>3, <1>5 DEF mayStart
<1>9. CASE F = {}
  <2>1. mayStart(m)' = mayStart(m)
    BY <1>4, <1>8, <1>9
  <2>2. doubled'[m] \in Nat /\ doubled'[m] >= doubled[m]
    BY <1>1, <1>2, <1>6
  <2>3. mayStart(m) \in Nat
    BY <1>4
  <2> QED BY <1>1, <1>2, <2>1, <2>2, <2>3 DEF InBudget
<1>10. CASE F # {}
  <2>1. mayStart(m) = 1 /\ mayStart(m)' = Cardinality(F)
    BY <1>4, <1>7, <1>8, <1>10
  <2>2. doubled'[m] = doubled[m] + (Cardinality(F) - 1)
    BY <1>1, <1>2, <1>6, <1>10
  <2> QED BY <1>1, <1>2, <1>6, <2>1, <2>2 DEF InBudget
<1> QED BY <1>9, <1>10

(* A session uses up a file of its message; with the last one, the message   *)
(* is the one the session runs for.                                          *)
LEMMA SessionStarts ==
  ASSUME RepeatInv, NEW x \in found, invokeSession(x), NEW m \in ActMessage
  PROVE  InBudget(m)'
<1>1. /\ phase = "batch" /\ phase' = "session" /\ found' = found \ {x} /\ current' = {x[1]}
      /\ sessions' = [sessions EXCEPT ![x[1]] = @ + 1] /\ UNCHANGED <<state, doubled, kills>>
  BY DEF invokeSession, goto
<1>2. /\ current = {} /\ InBudget(m) /\ doubled[m] \in Nat /\ kills \in Nat
      /\ sessions \in [ActMessage -> Nat] /\ x[1] \in ActMessage
  BY <1>1 DEF RepeatInv, DiskFollows, ActCounted, ActSaved
<1>3. known = state.processed /\ known' = state.processed \cup {x[1]}
  BY <1>1, <1>2 DEF known
<1>4. phase \in Batching /\ phase' \in Batching
  BY <1>1 DEF Batching
<1>5. CASE m # x[1]
  <2>1. filesOf(m)' = filesOf(m) /\ sessions'[m] = sessions[m]
    BY <1>1, <1>2, <1>5 DEF filesOf
  <2>2. mayStart(m)' = mayStart(m)
    BY <1>3, <1>4, <1>5, <2>1 DEF mayStart
  <2> QED BY <1>1, <1>2, <2>1, <2>2 DEF InBudget
<1>6. CASE m = x[1]
  <2>1. IsFiniteSet(filesOf(m)) /\ Cardinality(filesOf(m)) \in Nat
    BY FilesAreFew DEF RepeatInv, ActSaved, filesOf
  <2>2. x \in filesOf(m) /\ filesOf(m)' = filesOf(m) \ {x}
    BY <1>1, <1>6 DEF filesOf
  <2>3. Cardinality(filesOf(m) \ {x}) = Cardinality(filesOf(m)) - 1
    BY <2>1, <2>2, FS_RemoveElement
  <2>4. mayStart(m) = Cardinality(filesOf(m))
    BY <1>4, <2>2 DEF mayStart
  <2>5. mayStart(m)' = Cardinality(filesOf(m)) - 1
    <3>1. CASE filesOf(m) \ {x} # {}
      BY <1>4, <2>2, <2>3, <3>1 DEF mayStart
    <3>2. CASE filesOf(m) \ {x} = {}
      <4>1. Cardinality(filesOf(m)) - 1 = 0
        BY <2>1, <2>3, <3>2, FS_EmptySet
      <4>2. mayStart(m)' = 0
        BY <1>3, <1>6, <2>2, <3>2 DEF mayStart
      <4> QED BY <4>1, <4>2
    <3> QED BY <3>1, <3>2
  <2>6. sessions'[m] = sessions[m] + 1 /\ sessions[m] \in Nat
    BY <1>1, <1>2, <1>6
  <2> QED BY <1>1, <1>2, <2>1, <2>4, <2>5, <2>6 DEF InBudget
<1> QED BY <1>5, <1>6

(* A death may make the daemon forget one session of a message, or all that  *)
(* the state file held: one further session of each.                         *)
LEMMA KillPays ==
  ASSUME RepeatInv, Kill, NEW m \in ActMessage
  PROVE  InBudget(m)'
<1>1. phase' = "off" /\ kills' = kills + 1 /\ UNCHANGED <<sessions, doubled>>
  BY DEF Kill, goto
<1>2. mayStart(m)' \in {0, 1}
  BY <1>1 DEF mayStart, Batching
<1>3. InBudget(m) /\ sessions[m] \in Nat /\ doubled[m] \in Nat /\ kills \in Nat /\ mayStart(m) \in Nat
  BY MayStartType DEF RepeatInv, ActCounted
<1> QED BY <1>1, <1>2, <1>3 DEF InBudget

LEMMA ActCountedStep ==
  ASSUME ActSaved, ActCounted, [ActNext]_actVars
  PROVE  ActCounted'
<1> USE DEF ActCounted, goto, actCounts
<1>1. CASE filterNew
  <2>1. doubled' \in [ActMessage -> Nat]
    <3>1. CASE newMessages # {}
      <4>1. doubled' = [m \in ActMessage |->
                          LET k == Cardinality({x \in newMessages : x[1] = m})
                          IN IF k > 1 THEN doubled[m] + (k - 1) ELSE doubled[m]]
        BY <1>1, <3>1, Zenon DEF filterNew
      <4>2. newMessages \subseteq found
        BY DEF newMessages
      <4>3. \A m \in ActMessage : Cardinality({x \in newMessages : x[1] = m}) \in Nat
        BY <4>2, FilesAreFew DEF ActSaved
      <4> HIDE DEF newMessages
      <4> QED BY <4>1, <4>3
    <3>2. CASE newMessages = {}
      BY <1>1, <3>2, Zenon DEF filterNew
    <3> QED BY <3>1, <3>2
  <2>2. phase' \in {"batch", "stall", "idle"} /\ UNCHANGED <<sessions, kills>>
    BY <1>1 DEF filterNew
  <2> QED BY <2>1, <2>2
<1>2. ASSUME NEW x \in found, invokeSession(x)
      PROVE  ActCounted'
  <2>1. x[1] \in ActMessage
    BY DEF ActSaved
  <2>2. sessions' \in [ActMessage -> Nat]
    BY <1>2, <2>1 DEF invokeSession
  <2> QED BY <1>2, <2>2 DEF invokeSession
<1>3. CASE Kill
  BY <1>3 DEF Kill
<1>4. CASE Save
  BY <1>4 DEF Save, saving
<1>5. CASE runLoop \/ scanDirForActMessages \/ endBatch \/ nextPoll
  BY <1>5 DEF runLoop, scanDirForActMessages, endBatch, nextPoll
<1>6. ASSUME NEW ok \in BOOLEAN, updateRoundState(ok)
      PROVE  ActCounted'
  BY <1>6 DEF updateRoundState
<1>7. CASE Start \/ Signal \/ TimePasses
  BY <1>7 DEF Start, Signal, TimePasses
<1>8. ASSUME NEW m \in ActMessage, NEW d \in {"processed", "expired"}, Arrive(m) \/ FileAway(m, d)
      PROVE  ActCounted'
  BY <1>8 DEF Arrive, FileAway
<1>9. CASE UNCHANGED actVars
  BY <1>9 DEF actVars
<1> QED BY <1>1, <1>2, <1>3, <1>4, <1>5, <1>6, <1>7, <1>8, <1>9 DEF ActNext, daemonStep

(* Every other step leaves the batch alone or ends it and forgets nothing:   *)
(* the state file holds what the daemon knew.                                *)
LEMMA BudgetStep ==
  ASSUME RepeatInv, [ActNext]_actVars, NEW m \in ActMessage
  PROVE  InBudget(m)'
<1> USE DEF goto
<1>0. DiskFollows /\ ActSaved /\ InBudget(m)
  BY DEF RepeatInv
<1>1. CASE filterNew
  <2>1. CASE phase' = "batch"
    BY <1>1, <2>1, BatchBegins
  <2>2. CASE phase' # "batch"
    <3>1. newMessages = {} /\ phase' \in {"stall", "idle"}
      BY <1>1, <2>2 DEF filterNew
    <3>2. UNCHANGED <<sessions, doubled, kills, current>> /\ phase = "weigh"
      BY <1>1, <3>1 DEF filterNew
    <3>3. state' = state \/ state' = [state EXCEPT !.status = "paused", !.human = TRUE]
      BY <1>1, <3>1 DEF filterNew
    <3>4. state'.processed = state.processed
      BY <1>0, <3>3 DEF ActSaved, Saved
    <3>5. known \subseteq known'
      BY <3>1, <3>2, <3>4 DEF known
    <3>6. phase' \notin Batching
      BY <3>1 DEF Batching
    <3> QED BY <3>2, <3>5, <3>6, QuietStarts
  <2> QED BY <2>1, <2>2
<1>2. ASSUME NEW x \in found, invokeSession(x)
      PROVE  InBudget(m)'
  BY <1>2, SessionStarts
<1>3. CASE Kill
  BY <1>3, KillPays
<1>4. CASE Save
  <2>1. UNCHANGED <<found, state, current, sessions, doubled, kills>> /\ phase' # "off"
    BY <1>4 DEF Save, actMemory, actCounts, saving
  <2>2. phase # "off" /\ (phase' \in Batching => phase \in Batching)
    BY <1>4 DEF Save, saving, Batching
  <2>3. known \subseteq known'
    BY <2>1, <2>2 DEF known
  <2> QED BY <2>1, <2>2, <2>3, QuietStarts
<1>5. CASE runLoop \/ scanDirForActMessages
  <2>1. /\ UNCHANGED <<state, disk, intact, current, sessions, doubled, kills>>
        /\ phase \in {"loop", "scan"} /\ phase' \in {"off", "scan", "weigh"}
    BY <1>5 DEF runLoop, scanDirForActMessages, actCounts
  <2>2. intact /\ disk = state /\ current = {}
    BY <1>0, <2>1 DEF DiskFollows
  <2>3. known \subseteq known' /\ phase' \notin Batching
    BY <2>1, <2>2 DEF known, loadState, Batching
  <2> QED BY <2>1, <2>3, QuietStarts
<1>6. CASE endBatch \/ nextPoll
  <2>1. known \subseteq known' /\ phase' \notin Batching
    BY <1>6 DEF endBatch, nextPoll, actMemory, known, Batching
  <2> QED BY <1>6, <2>1, QuietStarts DEF endBatch, nextPoll, actCounts
<1>7. ASSUME NEW ok \in BOOLEAN, updateRoundState(ok)
      PROVE  InBudget(m)'
  <2>1. /\ phase = "session" /\ phase' = "record" /\ current' = {}
        /\ UNCHANGED <<found, sessions, doubled, kills>>
    BY <1>7 DEF updateRoundState, actCounts
  <2>2. state'.processed = state.processed \cup current
    BY <1>0, <1>7 DEF updateRoundState, ActSaved, Saved
  <2>3. known \subseteq known' /\ phase \in Batching /\ phase' \in Batching
    BY <2>1, <2>2 DEF known, Batching
  <2> QED BY <2>1, <2>3, QuietStarts
<1>8. CASE Start
  <2>1. state'.processed = loadState.processed
    <3>1. loadState \in Saved
      BY <1>0, FirstStateIsSaved DEF loadState, ActSaved
    <3> QED BY <1>8, <3>1 DEF Start, Saved
  <2>2. known \subseteq known' /\ phase' \notin Batching
    BY <1>8, <2>1 DEF Start, known, Batching
  <2>3. UNCHANGED <<sessions, doubled, kills>>
    BY <1>8 DEF Start
  <2> QED BY <2>2, <2>3, QuietStarts
<1>9. CASE Signal
  <2>1. disk' = [state EXCEPT !.status = "shutdown"] /\ intact' /\ current = {} /\ phase = "idle"
    BY <1>0, <1>9 DEF Signal, saveState, loadState, DiskFollows
  <2>2. loadState'.processed = state.processed
    BY <1>0, <2>1 DEF loadState, ActSaved, Saved
  <2>3. known \subseteq known' /\ phase' \notin Batching
    <3>1. phase' = "off" /\ known = state.processed
      BY <1>9, <2>1 DEF Signal, known
    <3>2. known' = loadState'.processed
      BY <3>1 DEF known
    <3> QED BY <2>2, <3>1, <3>2 DEF Batching
  <2>4. UNCHANGED <<sessions, doubled, kills>>
    BY <1>9 DEF Signal, actCounts
  <2> QED BY <2>3, <2>4, QuietStarts
<1>10. CASE TimePasses
  BY <1>10, QuietStarts DEF TimePasses, actCounts, loadState, known, Batching
<1>11. ASSUME NEW n \in ActMessage, NEW d \in {"processed", "expired"}, Arrive(n) \/ FileAway(n, d)
       PROVE  InBudget(m)'
  BY <1>11, QuietStarts DEF Arrive, FileAway, actMemory, actCounts, loadState, known, Batching
<1>12. CASE UNCHANGED actVars
  BY <1>12, QuietStarts DEF actVars, actMemory, actCounts, loadState, known, Batching
<1> QED BY <1>1, <1>2, <1>3, <1>4, <1>5, <1>6, <1>7, <1>8, <1>9, <1>10, <1>11, <1>12
        DEF ActNext, daemonStep

(* However often the daemon is restarted, a message gets one session, and    *)
(* one more for each double found in a batch and each death, for any number  *)
(* of messages and lanes.                                                    *)
THEOREM RepeatsAreAlwaysExplained == ActSpec => []RepeatsAreExplained
<1>1. ActInit => RepeatInv
  <2> SUFFICES ASSUME ActInit PROVE RepeatInv
    OBVIOUS
  <2>1. ActSaved /\ AlarmIsKnown
    BY FirstStateIsSaved DEF ActInit, ActSaved, AlarmIsKnown
  <2>2. ActCounted /\ DiskFollows
    BY DEF ActInit, ActCounted, DiskFollows
  <2>3. ASSUME NEW m \in ActMessage PROVE InBudget(m)
    <3>1. mayStart(m) \in {0, 1} /\ sessions[m] = 0 /\ doubled[m] = 0 /\ kills = 0
      BY DEF ActInit, mayStart, Batching
    <3> QED BY <3>1 DEF InBudget
  <2> QED BY <2>1, <2>2, <2>3 DEF RepeatInv
<1>2. RepeatInv /\ [ActNext]_actVars => RepeatInv'
  BY AlarmInvariantStep, ActCountedStep, DiskFollowsStep, BudgetStep DEF RepeatInv
<1>3. RepeatInv => RepeatsAreExplained
  <2> SUFFICES ASSUME RepeatInv, NEW m \in ActMessage
               PROVE  sessions[m] <= 1 + doubled[m] + kills
    BY DEF RepeatsAreExplained
  <2>1. InBudget(m) /\ mayStart(m) \in Nat /\ sessions[m] \in Nat /\ doubled[m] \in Nat
          /\ kills \in Nat
    BY MayStartType DEF RepeatInv, ActCounted
  <2> QED BY <2>1 DEF InBudget
<1> QED BY <1>1, <1>2, <1>3, PTL DEF ActSpec

-----------------------------------------------------------------------------
(* The alerts: the counts run ahead of what this worker has seen in a row,   *)
(* and the end of a cooldown is that of the last report, or it is lost.      *)
Counting ==
  \A v \in Level : /\ inARow[v] <= consecutive[v]
                   /\ inARow[v] <= IF fresh THEN 0 ELSE alertState.counts[v]
Cooling ==
  \A v \in Level :
    \/ lastAlert[v] > 0 /\ alertState.until[v] = (lastAlert[v] - 1) + cooldown[v]
    \/ alertState.until[v] = 0 /\ (lastAlert[v] = 0 \/ losses > 0)
AlertInvariant == AlertTypeOK /\ Counting /\ Cooling

LEMMA AlertStart == AlertInit => AlertInvariant
BY AlertAssumption DEF AlertInit, AlertInvariant, AlertTypeOK, Counting, Cooling, FirstAlertState, NoCounts

LEMMA SampleStep ==
  ASSUME AlertInvariant, NEW level \in Level \cup {"normal"}, evaluateLoad(level)
  PROVE  /\ AlertInvariant'
         /\ \A v \in Level :
              /\ inARow'[v] >= consecutive[v] => lastAlert[v] > 0 /\ now < (lastAlert[v] - 1) + cooldown[v]
              /\ losses = 0 /\ lastAlert'[v] # lastAlert[v] /\ lastAlert[v] > 0
                   => now >= (lastAlert[v] - 1) + cooldown[v]
<1> DEFINE alerts == reported(level)
           count == counted(level)
<1> USE AlertAssumption
<1>1. count \in [Level -> Nat] /\ alerts \subseteq Level
  BY DEF counted, reported, AlertInvariant, AlertTypeOK
<1>2. \A v \in Level : v \in alerts <=> v = level /\ count[v] >= consecutive[v] /\ now >= alertState.until[v]
  BY <1>1 DEF reported, isCooldownActive, AlertInvariant, AlertTypeOK
<1>3. \A v \in Level : count[v] = IF v = level THEN (IF fresh THEN 0 ELSE alertState.counts[v]) + 1 ELSE 0
  BY DEF counted
<1>4. /\ alertState' =
           [counts |-> [v \in Level |-> IF v \in alerts THEN 0 ELSE
                          IF count[v] > consecutive[v] THEN consecutive[v] ELSE count[v]],
            until |-> [v \in Level |-> IF v \in alerts THEN now + cooldown[v] ELSE alertState.until[v]]]
      /\ fresh' = FALSE
      /\ lastAlert' = [v \in Level |-> IF v \in alerts THEN now + 1 ELSE lastAlert[v]]
      /\ inARow' = [v \in Level |-> IF v # level \/ v \in alerts THEN 0
                      ELSE IF inARow[v] = consecutive[v] THEN inARow[v] ELSE inARow[v] + 1]
      /\ UNCHANGED <<now, losses>>
  BY DEF evaluateLoad
<1> HIDE DEF alerts, count
<1>5. AlertTypeOK'
  <2> USE DEF AlertInvariant, AlertTypeOK
  <2>1. [v \in Level |-> IF v \in alerts THEN 0 ELSE
           IF count[v] > consecutive[v] THEN consecutive[v] ELSE count[v]] \in [Level -> Nat]
    BY <1>1
  <2>2. [v \in Level |-> IF v \in alerts THEN now + cooldown[v] ELSE alertState.until[v]]
          \in [Level -> Nat]
    BY <1>1
  <2>3. alertState' \in [counts : [Level -> Nat], until : [Level -> Nat]]
    BY <1>4, <2>1, <2>2, Zenon
  <2>4. lastAlert' \in [Level -> 0..MaxClock + 1]
    BY <1>1, <1>4
  <2>5. inARow' \in [Level -> Nat]
    BY <1>1, <1>4
  <2> QED BY <1>4, <2>3, <2>4, <2>5
<1>6. Counting'
  BY <1>1, <1>3, <1>4 DEF AlertInvariant, AlertTypeOK, Counting
<1>7. Cooling'
  <2> SUFFICES ASSUME NEW v \in Level
               PROVE  \/ lastAlert'[v] > 0 /\ alertState'.until[v] = (lastAlert'[v] - 1) + cooldown[v]
                      \/ alertState'.until[v] = 0 /\ (lastAlert'[v] = 0 \/ losses' > 0)
    BY <1>4 DEF Cooling
  <2>1. /\ now \in Nat /\ cooldown[v] \in Nat
        /\ alertState'.until[v] = IF v \in alerts THEN now + cooldown[v] ELSE alertState.until[v]
        /\ lastAlert'[v] = IF v \in alerts THEN now + 1 ELSE lastAlert[v]
    BY <1>4 DEF AlertInvariant, AlertTypeOK
  <2>2. CASE v \in alerts
    BY <2>1, <2>2
  <2>3. CASE v \notin alerts
    BY <1>4, <2>1, <2>3 DEF AlertInvariant, Cooling
  <2> QED BY <2>2, <2>3
<1>8. ASSUME NEW v \in Level
      PROVE  /\ inARow'[v] >= consecutive[v] => lastAlert[v] > 0 /\ now < (lastAlert[v] - 1) + cooldown[v]
             /\ losses = 0 /\ lastAlert'[v] # lastAlert[v] /\ lastAlert[v] > 0
                   => now >= (lastAlert[v] - 1) + cooldown[v]
  BY <1>1, <1>2, <1>3, <1>4 DEF AlertInvariant, AlertTypeOK, Counting, Cooling
<1> QED BY <1>5, <1>6, <1>7, <1>8 DEF AlertInvariant

LEMMA AlertStep ==
  ASSUME AlertInvariant, [AlertNext]_alertVars
  PROVE  AlertInvariant'
<1> USE AlertAssumption DEF AlertInvariant, AlertTypeOK, Counting, Cooling
<1>1. ASSUME NEW level \in Level \cup {"normal"}, evaluateLoad(level)
      PROVE  AlertInvariant'
  BY <1>1, SampleStep
<1>2. CASE restartWorker
  BY <1>2 DEF restartWorker, NoCounts
<1>3. CASE LoseState
  BY <1>3 DEF LoseState, NoCounts, FirstAlertState
<1>4. CASE ClockTicks
  BY <1>4 DEF ClockTicks
<1>5. CASE UNCHANGED alertVars
  BY <1>5 DEF alertVars
<1> QED BY <1>1, <1>2, <1>3, <1>4, <1>5 DEF AlertNext

(* Sustained load is reported but within a cooldown, for all thresholds,     *)
(* cooldowns, restarts and losses of the state file.                         *)
THEOREM SustainedLoadIsAlwaysReported == AlertSpec => SustainedLoadIsReported
<1>1. AlertInvariant /\ [AlertNext]_alertVars
        => (now' = now => \A v \in Level : inARow'[v] >= consecutive[v] =>
              lastAlert[v] > 0 /\ now < (lastAlert[v] - 1) + cooldown[v]) \/ UNCHANGED alertVars
  <2> SUFFICES ASSUME AlertInvariant, AlertNext, now' = now, NEW v \in Level,
                      inARow'[v] >= consecutive[v]
               PROVE  lastAlert[v] > 0 /\ now < (lastAlert[v] - 1) + cooldown[v]
    OBVIOUS
  <2>1. ASSUME NEW level \in Level \cup {"normal"}, evaluateLoad(level)
        PROVE  lastAlert[v] > 0 /\ now < (lastAlert[v] - 1) + cooldown[v]
    BY <2>1, SampleStep
  <2>2. CASE restartWorker \/ LoseState
    BY <2>2, AlertAssumption DEF restartWorker, LoseState, NoCounts
  <2>3. CASE ClockTicks
    BY <2>3 DEF ClockTicks, AlertInvariant, AlertTypeOK
  <2> QED BY <2>1, <2>2, <2>3 DEF AlertNext
<1> QED BY <1>1, AlertStart, AlertStep, PTL DEF AlertSpec, SustainedLoadIsReported

(* Two reports of a level are a cooldown apart unless the state file is      *)
(* lost, for all thresholds, cooldowns and restarts.                         *)
THEOREM AlertsAreAlwaysSpaced == AlertSpec => AlertsAreSpaced
<1>1. AlertInvariant /\ [AlertNext]_alertVars
        => (losses = 0 => \A v \in Level : lastAlert'[v] # lastAlert[v] /\ lastAlert[v] > 0
              => now >= (lastAlert[v] - 1) + cooldown[v])
  <2> SUFFICES ASSUME AlertInvariant, [AlertNext]_alertVars, losses = 0, NEW v \in Level,
                      lastAlert'[v] # lastAlert[v], lastAlert[v] > 0
               PROVE  now >= (lastAlert[v] - 1) + cooldown[v]
    OBVIOUS
  <2>1. PICK level \in Level \cup {"normal"} : evaluateLoad(level)
    BY DEF AlertNext, alertVars, restartWorker, LoseState, ClockTicks
  <2> QED BY <2>1, SampleStep
<1> QED BY <1>1, AlertStart, AlertStep, PTL DEF AlertSpec, AlertsAreSpaced

-----------------------------------------------------------------------------
(* The types of the act daemon                                               *)

(* A scan that goes on has a directory left.                                 *)
ScanGoesOn == phase = "scan" => scanAt < 3 * Len(actLanes)

SessionHasOne == Cardinality(current) <= 1 /\ (phase = "session" => current # {})

ActTypes == ActSaved /\ AlarmIsKnown /\ ActCounted /\ ActTypeOK /\ ScanGoesOn

LEMMA ActTypesStart == ActInit => ActTypes
<1> SUFFICES ASSUME ActInit PROVE ActTypes
  OBVIOUS
<1>1. Cardinality({}) = 0
  BY FS_EmptySet
<1>2. Len(actLanes) \in Nat
  BY ActAssumption, LenProperties
<1>3. scanAt \in 0..(3 * Len(actLanes)) /\ ScanGoesOn
  BY <1>2 DEF ActInit, ScanGoesOn
<1>4. ActSaved /\ AlarmIsKnown /\ ActCounted
  BY FirstStateIsSaved DEF ActInit, ActSaved, AlarmIsKnown, ActCounted
<1>5. Cardinality(current) <= 1 /\ current \subseteq ActMessage /\ quiet \in BOOLEAN /\ starts \in Nat
      /\ (phase = "session" => current # {})
  <2>1. current = {} /\ quiet = FALSE /\ starts = 0 /\ phase = "off"
    BY DEF ActInit
  <2>2. Cardinality(current) = 0
    BY <1>1, <2>1, Zenon
  <2>3. quiet \in BOOLEAN /\ starts \in Nat /\ (phase = "session" => current # {})
        /\ current \subseteq ActMessage
    BY <2>1
  <2> QED BY <2>2, <2>3
<1> QED BY <1>3, <1>4, <1>5 DEF ActTypes, ActTypeOK, ActSaved, ActCounted

LEMMA ActTypesStep == ActTypes /\ [ActNext]_actVars => ActTypes'
<1> SUFFICES ASSUME ActTypes, [ActNext]_actVars PROVE ActTypes'
  OBVIOUS
<1> USE DEF ActTypes, goto, actCounts, actMemory
<1>1. ActSaved' /\ AlarmIsKnown' /\ ActCounted'
  BY AlarmInvariantStep, ActCountedStep
<1>2. Len(actLanes) \in Nat /\ Len(actLanes) > 0
  BY ActAssumption, EmptySeq, LenProperties
<1>3. scanAt' \in 0..(3 * Len(actLanes)) /\ ScanGoesOn'
  <2> USE <1>2 DEF ActTypeOK, ScanGoesOn
  <2>1. CASE runLoop
    BY <2>1 DEF runLoop
  <2>2. CASE scanDirForActMessages
    BY <2>2 DEF scanDirForActMessages
  <2>3. CASE Start
    BY <2>3 DEF Start
  <2>4. CASE ~(runLoop \/ scanDirForActMessages \/ Start)
    <3>1. scanAt' = scanAt /\ (phase' # "scan" \/ phase' = phase)
      BY <2>4 DEF ActNext, daemonStep, actVars, Arrive, FileAway, TimePasses, Kill, Signal, Save,
                  saving, filterNew, invokeSession, updateRoundState, endBatch, nextPoll
    <3> QED BY <3>1
  <2> QED BY <2>1, <2>2, <2>3, <2>4
<1>4. SessionHasOne'
  <2> USE DEF SessionHasOne
  <2>1. Cardinality({}) = 0 /\ \A m \in ActMessage : Cardinality({m}) = 1
    BY FS_EmptySet, FS_Singleton
  <2>2. ASSUME NEW x \in found, invokeSession(x) PROVE SessionHasOne'
    <3>1. x[1] \in ActMessage
      BY DEF ActTypeOK
    <3> QED BY <2>1, <2>2, <3>1 DEF invokeSession
  <2>3. ASSUME NEW ok \in BOOLEAN, updateRoundState(ok) PROVE SessionHasOne'
    BY <2>1, <2>3 DEF updateRoundState
  <2>4. CASE Start
    BY <2>1, <2>4 DEF Start
  <2>5. CASE ~((\E x \in found : invokeSession(x)) \/ (\E ok \in BOOLEAN : updateRoundState(ok)) \/ Start)
    <3>1. current' = current /\ (phase' # "session" \/ phase' = phase)
      BY <2>5 DEF ActNext, daemonStep, actVars, Arrive, FileAway, TimePasses, Kill, Signal, Save,
                  saving, filterNew, runLoop, scanDirForActMessages, endBatch, nextPoll
    <3> QED BY <3>1 DEF ActTypeOK
  <2> QED BY <2>2, <2>3, <2>4, <2>5
<1>5. quiet' \in BOOLEAN /\ starts' \in Nat
  <2>1. CASE Start
    <3>1. starts' = starts + 1 /\ quiet' = FALSE
      BY <2>1, Zenon DEF Start
    <3>2. starts \in Nat
      BY Zenon DEF ActTypeOK
    <3>3. starts' \in Nat
      BY ONLY <3>1, <3>2, SMT
    <3> QED BY <3>1, <3>3
  <2>2. CASE TimePasses
    BY <2>2 DEF ActTypeOK, TimePasses
  <2>3. CASE filterNew
    <3>1. starts' = starts /\ (quiet' = FALSE \/ quiet' = quiet)
      BY <2>3, Zenon DEF filterNew
    <3> QED BY <3>1 DEF ActTypeOK
  <2>4. CASE ~(Start \/ TimePasses \/ filterNew)
    <3>1. starts' = starts /\ quiet' = quiet
      BY <2>4 DEF ActNext, daemonStep, actVars, Arrive, FileAway, Kill, Signal, Save,
                  runLoop, scanDirForActMessages, invokeSession, updateRoundState, endBatch, nextPoll
    <3> QED BY <3>1 DEF ActTypeOK
  <2> QED BY <2>1, <2>2, <2>3, <2>4
<1> QED BY <1>1, <1>3, <1>4, <1>5 DEF ActTypeOK, ActSaved, ActCounted, SessionHasOne

LEMMA ActTypesAlways == ActSpec => []ActTypeOK
<1>1. ActTypes => ActTypeOK
  BY DEF ActTypes
<1> QED BY <1>1, ActTypesStart, ActTypesStep, PTL DEF ActSpec
LEMMA AlertTypesAlways == AlertSpec => []AlertTypeOK
<1>1. AlertInvariant => AlertTypeOK
  BY DEF AlertInvariant
<1>2. AlertInvariant /\ [AlertNext]_alertVars => AlertInvariant'
  BY AlertStep
<1> QED BY <1>1, <1>2, AlertStart, PTL DEF AlertSpec
=============================================================================
