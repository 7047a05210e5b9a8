----------------------------- MODULE ActDaemon -----------------------------
(* The daemon of the autonomous cycle test (scripts/act-daemon.js): it scans *)
(* the directories of every lane, starts one blocking session per message it *)
(* has not seen, and keeps what it has done in a file that outlives it.      *)
EXTENDS Integers, FiniteSets, Sequences

CONSTANTS
  ActMessage,    \* the keys task_id@lane of the messages
  actLanes,      \* the sequence of the lanes, as LANE_CONFIG lists them
  actLane,       \* actLane[m]: the lane that m is for
  actPriority,   \* actPriority[m]: "P0" ... "P3"
  maxRounds, maxConsecutiveErrors,
  MaxStarts,     \* bound: starts of the daemon
  MaxKills       \* bound: deaths of the daemon

ASSUME ActAssumption ==
  /\ actLanes \in Seq(STRING) /\ actLanes # <<>>
  /\ actLane \in [ActMessage -> STRING]
  /\ \A m \in ActMessage : \E i \in 1..Len(actLanes) : actLanes[i] = actLane[m]
  /\ actPriority \in [ActMessage -> {"P0", "P1", "P2", "P3"}]
  /\ maxRounds \in Nat \ {0} /\ maxConsecutiveErrors \in Nat \ {0}
  /\ MaxStarts \in Nat /\ MaxKills \in Nat

VARIABLES
  mail,       \* the pairs <<m, d>> such that a file of m lies in directory d
  disk,       \* the state file, as last written
  intact,     \* FALSE: the daemon died while it wrote the state file
  state,      \* the daemon's copy of it
  phase,      \* what the daemon is doing
  scanAt,     \* how many directories it has scanned
  found,      \* what the scan has found; then, what is left of the batch
  current,    \* the messages a session runs for: one at most
  quiet,      \* longer than the stall timeout since it last found a message
  sessions,   \* sessions[m]: the sessions ever started for m
  doubled,    \* doubled[m]: the times a batch held one file of m too many
  starts, kills

actMemory == <<state, scanAt, found, current, quiet>>
actCounts == <<sessions, doubled, starts, kills>>
actVars == <<mail, disk, intact, phase, actMemory, actCounts>>

Directories == <<"inbox", "processed", "expired">>

Saved == [status : {"initialized", "running", "paused", "completed", "shutdown"},
          current_round : Nat, processed : SUBSET ActMessage,
          errors : Nat, human : BOOLEAN]
FirstState == [status |-> "initialized", current_round |-> 0, processed |-> {},
               errors |-> 0, human |-> FALSE]

saving == {"boot", "record", "stall"}

ActTypeOK ==
  /\ mail \subseteq ActMessage \X {"inbox", "processed", "expired"}
  /\ disk \in Saved /\ intact \in BOOLEAN /\ state \in Saved
  /\ phase \in {"off", "boot", "loop", "scan", "weigh", "batch", "session",
                "record", "stall", "idle"}
  /\ scanAt \in 0..(3 * Len(actLanes))
  /\ found \subseteq ActMessage \X {"inbox", "processed", "expired"}
  /\ current \subseteq ActMessage /\ Cardinality(current) <= 1
  /\ (phase = "session") => (current # {})
  /\ quiet \in BOOLEAN
  /\ sessions \in [ActMessage -> Nat] /\ doubled \in [ActMessage -> Nat]
  /\ starts \in Nat /\ kills \in Nat

ActInit ==
  /\ mail = {} /\ disk = FirstState /\ intact = TRUE /\ state = FirstState
  /\ phase = "off" /\ scanAt = 0 /\ found = {} /\ current = {}
  /\ quiet = FALSE
  /\ sessions = [m \in ActMessage |-> 0] /\ doubled = [m \in ActMessage |-> 0]
  /\ starts = 0 /\ kills = 0

(* An absent file and one that does not parse give the same first state.     *)
loadState_Fresh == FirstState
loadState == IF intact THEN disk ELSE FirstState

saveState(s) == disk' = s /\ intact' = TRUE

goto(p) == phase' = p

-----------------------------------------------------------------------------
(* The surroundings: a message arrives; the lane's watcher files it.         *)
Arrive(m) ==
  /\ \A d \in {"inbox", "processed", "expired"} : <<m, d>> \notin mail
  /\ mail' = mail \cup {<<m, "inbox">>}
  /\ UNCHANGED <<disk, intact, phase, actMemory, actCounts>>

FileAway(m, d) ==
  /\ <<m, "inbox">> \in mail
  /\ mail' = (mail \ {<<m, "inbox">>}) \cup {<<m, d>>}
  /\ UNCHANGED <<disk, intact, phase, actMemory, actCounts>>

(* Only sleeping and waiting for a session take time.                        *)
TimePasses ==
  /\ phase \in {"idle", "session"} /\ ~quiet
  /\ quiet' = TRUE
  /\ UNCHANGED <<mail, disk, intact, phase, state, scanAt, found, current, actCounts>>

Start ==
  /\ phase = "off" /\ starts < MaxStarts
  /\ state' = [loadState EXCEPT !.status = "running"]
  /\ starts' = starts + 1 /\ quiet' = FALSE
  /\ scanAt' = 0 /\ found' = {} /\ current' = {}
  /\ goto("boot")
  /\ UNCHANGED <<mail, disk, intact, sessions, doubled, kills>>

(* Death in the middle of a write leaves the state file cut off.             *)
Kill ==
  /\ phase # "off" /\ kills < MaxKills
  /\ intact' \in IF phase \in saving THEN {intact, FALSE} ELSE {intact}
  /\ kills' = kills + 1
  /\ goto("off")
  /\ UNCHANGED <<mail, disk, actMemory, sessions, doubled, starts>>

(* SIGINT and SIGTERM are handled when the loop waits for its timer.         *)
Signal ==
  /\ phase = "idle"
  /\ saveState([loadState EXCEPT !.status = "shutdown"])
  /\ goto("off")
  /\ UNCHANGED <<mail, actMemory, actCounts>>

-----------------------------------------------------------------------------
(* The daemon.                                                               *)
Save ==
  /\ phase \in saving
  /\ saveState(state)
  /\ goto(CASE phase = "boot" -> "loop" [] phase = "record" -> "batch" [] phase = "stall" -> "idle")
  /\ UNCHANGED <<mail, actMemory, actCounts>>

(* runLoop: an alarm ends the process, anything else starts a scan.          *)
runLoop ==
  /\ phase = "loop"
  /\ IF state.human \/ state.status = "completed"
     THEN goto("off") /\ UNCHANGED <<scanAt, found>>
     ELSE goto("scan") /\ scanAt' = 0 /\ found' = {}
  /\ UNCHANGED <<mail, disk, intact, state, current, quiet, actCounts>>

(* One directory at a time, the three of a lane in this order.               *)
scanDirForActMessages ==
  /\ phase = "scan"
  /\ LET lane == actLanes[(scanAt \div 3) + 1]
         dir == Directories[(scanAt % 3) + 1]
     IN found' = found \cup {x \in mail : actLane[x[1]] = lane /\ x[2] = dir}
  /\ scanAt' = scanAt + 1
  /\ IF scanAt + 1 = 3 * Len(actLanes) THEN goto("weigh") ELSE UNCHANGED phase
  /\ UNCHANGED <<mail, disk, intact, state, current, quiet, actCounts>>

(* A message found in two directories is new twice.                          *)
newMessages_InboxOnly == {x \in found : x[1] \notin state.processed /\ x[2] = "inbox"}
newMessages == {x \in found : x[1] \notin state.processed}

filterNew ==
  /\ phase = "weigh"
  /\ found' = newMessages
  /\ IF newMessages # {}
     THEN /\ quiet' = FALSE
          /\ doubled' = [m \in ActMessage |->
               LET k == Cardinality({x \in newMessages : x[1] = m})
               IN IF k > 1 THEN doubled[m] + (k - 1) ELSE doubled[m]]
          /\ goto("batch") /\ UNCHANGED state
     ELSE /\ IF quiet /\ state.current_round > 0
             THEN state' = [state EXCEPT !.status = "paused", !.human = TRUE] /\ goto("stall")
             ELSE goto("idle") /\ UNCHANGED state
          /\ UNCHANGED <<quiet, doubled>>
  /\ UNCHANGED <<mail, disk, intact, scanAt, current, sessions, starts, kills>>

(* priorityOrder[p] || 4: the 0 of P0 counts as no number.                   *)
priorityOrder(m) ==
  CASE actPriority[m] = "P1" -> 1 [] actPriority[m] = "P2" -> 2
    [] actPriority[m] = "P3" -> 3 [] actPriority[m] = "P0" -> 4

invokeSession(x) ==
  /\ phase = "batch" /\ ~state.human
  /\ x \in found
  /\ \A y \in found : priorityOrder(x[1]) <= priorityOrder(y[1])
  /\ sessions' = [sessions EXCEPT ![x[1]] = @ + 1]
  /\ found' = found \ {x} /\ current' = {x[1]}
  /\ goto("session")
  /\ UNCHANGED <<mail, disk, intact, state, scanAt, quiet, doubled, starts, kills>>

(* No round number is ever recognised (the patterns hold a doubled           *)
(* backslash), so that each session is a round. A failure counts as done.    *)
updateRoundState(ok) ==
  /\ phase = "session"
  /\ LET round == state.current_round + 1
         errors == IF ok THEN 0 ELSE state.errors + 1
         paused == errors >= maxConsecutiveErrors
         complete == round >= maxRounds
     IN state' = [state EXCEPT !.current_round = round, !.errors = errors,
                    !.processed = @ \cup current,
                    !.human = @ \/ paused \/ complete,
                    !.status = IF complete THEN "completed" ELSE IF paused THEN "paused" ELSE @]
  /\ current' = {}
  /\ goto("record")
  /\ UNCHANGED <<mail, disk, intact, scanAt, found, quiet, actCounts>>

endBatch ==
  /\ phase = "batch" /\ (state.human \/ found = {})
  /\ goto("idle")
  /\ UNCHANGED <<mail, disk, intact, actMemory, actCounts>>

nextPoll ==
  /\ phase = "idle"
  /\ goto("loop")
  /\ UNCHANGED <<mail, disk, intact, actMemory, actCounts>>

daemonStep ==
  \/ Save \/ runLoop \/ scanDirForActMessages \/ filterNew
  \/ \E x \in found : invokeSession(x)
  \/ \E ok \in BOOLEAN : updateRoundState(ok)
  \/ endBatch \/ nextPoll

ActNext ==
  \/ \E m \in ActMessage : Arrive(m) \/ FileAway(m, "processed") \/ FileAway(m, "expired")
  \/ TimePasses \/ Start \/ Kill \/ Signal
  \/ daemonStep

ActSpec == ActInit /\ [][ActNext]_actVars

-----------------------------------------------------------------------------
(* A message gets no session beyond the first that its double finds in a     *)
(* batch and the deaths of the daemon do not account for: what a restart     *)
(* reloads keeps the messages of earlier runs from being run again.          *)
RepeatsAreExplained ==
  \A m \in ActMessage : sessions[m] <= 1 + doubled[m] + kills

(* Once an alarm is on the disk no session starts, whoever restarts the      *)
(* daemon how often, unless the file is lost.                                *)
AlarmIsFinal == [][intact /\ disk.human => UNCHANGED sessions]_actVars

(* A message that lies in any of the directories is found, although it is    *)
(* moved while they are scanned, and gets its session, unless the daemon     *)
(* stops.                                                                    *)
MailIsHandled ==
  \A m \in ActMessage :
    (\E x \in mail : x[1] = m) ~> (sessions[m] > 0 \/ phase = "off")
=============================================================================
