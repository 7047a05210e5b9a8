----------------------------- MODULE CpuAlerts -----------------------------
(* The alerts on the load of a lane worker (scripts/adaptive-cpu-alerts.js): *)
(* a level that is reached often enough in a row is reported, and then not   *)
(* again before its cooldown is over, also when the worker is restarted.     *)
(* (The thresholds that make a level of a load are left out, and memory,     *)
(* which has the same cooldown and no count.)                                *)
EXTENDS Naturals, FiniteSets

CONSTANTS
  consecutive,  \* consecutive[v]: how many samples in a row level v needs
  cooldown,     \* cooldown[v]: in ticks of the clock
  MaxClock,     \* bound: ticks
  MaxLosses     \* bound: writes of the state file that are cut off

Level == {"warning", "critical", "emergency"}

ASSUME AlertAssumption ==
  /\ consecutive \in [Level -> Nat \ {0}] /\ cooldown \in [Level -> Nat]
  /\ MaxClock \in Nat /\ MaxLosses \in Nat

VARIABLES
  alertState,  \* the state file: the counts and the ends of the cooldowns
  fresh,       \* this worker has taken no sample yet
  now,
  lastAlert,   \* lastAlert[v]: when v was last reported plus one, or 0
  inARow,      \* inARow[v]: the last samples of this worker that were all v
  losses

alertVars == <<alertState, fresh, now, lastAlert, inARow, losses>>

NoCounts == [v \in Level |-> 0]
FirstAlertState == [counts |-> NoCounts, until |-> NoCounts]

AlertTypeOK ==
  /\ alertState \in [counts : [Level -> Nat], until : [Level -> Nat]]
  /\ fresh \in BOOLEAN /\ now \in 0..MaxClock /\ losses \in 0..MaxLosses
  /\ lastAlert \in [Level -> 0..MaxClock + 1] /\ inARow \in [Level -> Nat]

AlertInit ==
  /\ alertState = FirstAlertState /\ fresh = TRUE /\ now = 0
  /\ lastAlert = NoCounts /\ inARow = NoCounts /\ losses = 0

isCooldownActive(v) == now < alertState.until[v]

(* _checkThresholds: a level counts for itself alone and sets the others to  *)
(* none; a count that is not reported goes on.                               *)
counted(level) ==
  [v \in Level |-> IF v = level THEN (IF fresh THEN 0 ELSE alertState.counts[v]) + 1 ELSE 0]

reported_OffByOne(level) ==
  {v \in Level : v = level /\ counted(level)[v] > consecutive[v] /\ ~isCooldownActive(v)}
reported(level) ==
  {v \in Level : v = level /\ counted(level)[v] >= consecutive[v] /\ ~isCooldownActive(v)}

(* A sample whose level is "normal" or one of the three. Counting stops at   *)
(* what the level needs (the bound of the model).                            *)
evaluateLoad(level) ==
  LET alerts == reported(level)
  IN /\ alertState' =
          [counts |-> [v \in Level |-> IF v \in alerts THEN 0 ELSE
                         IF counted(level)[v] > consecutive[v] THEN consecutive[v] ELSE counted(level)[v]],
           until |-> [v \in Level |-> IF v \in alerts THEN now + cooldown[v] ELSE alertState.until[v]]]
     /\ fresh' = FALSE
     /\ lastAlert' = [v \in Level |-> IF v \in alerts THEN now + 1 ELSE lastAlert[v]]
     /\ inARow' = [v \in Level |-> IF v # level \/ v \in alerts THEN 0
                     ELSE IF inARow[v] = consecutive[v] THEN inARow[v] ELSE inARow[v] + 1]
     /\ UNCHANGED <<now, losses>>

(* A new worker starts its counts anew with its first sample.                *)
restartWorker ==
  /\ ~fresh
  /\ fresh' = TRUE /\ inARow' = NoCounts
  /\ UNCHANGED <<alertState, now, lastAlert, losses>>

(* The worker dies while it writes: the next one begins with nothing.        *)
LoseState ==
  /\ losses < MaxLosses
  /\ losses' = losses + 1
  /\ alertState' = FirstAlertState /\ fresh' = TRUE /\ inARow' = NoCounts
  /\ UNCHANGED <<now, lastAlert>>

ClockTicks == now < MaxClock /\ now' = now + 1 /\ UNCHANGED <<alertState, fresh, lastAlert, inARow, losses>>

AlertNext ==
  \/ \E level \in Level \cup {"normal"} : evaluateLoad(level)
  \/ restartWorker \/ LoseState \/ ClockTicks

AlertSpec == AlertInit /\ [][AlertNext]_alertVars

-----------------------------------------------------------------------------
(* "cooldown suppresses alert storm": whatever the load does and however     *)
(* often the worker is restarted, a level is not reported twice within its   *)
(* cooldown, as long as the state file is not cut off.                       *)
AlertsAreSpaced ==
  [][losses = 0 => \A v \in Level :
       lastAlert'[v] # lastAlert[v] /\ lastAlert[v] > 0 => now >= (lastAlert[v] - 1) + cooldown[v]]_alertVars

(* "sustained high CPU triggers": a sample that makes enough of one level in *)
(* a row, in one worker, is reported unless the level is within its cooldown.*)
SustainedLoadIsReported ==
  [][now' = now => \A v \in Level :
       inARow'[v] >= consecutive[v] =>
         lastAlert[v] > 0 /\ now < (lastAlert[v] - 1) + cooldown[v]]_alertVars
=============================================================================
