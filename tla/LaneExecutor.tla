----------------------------- MODULE LaneExecutor -----------------------------
(* The programs that execute the tasks in action-required:                   *)
(*   "generic"     scripts/generic-task-executor.js run by itself,           *)
(*   "watcher"     scripts/executor-watcher.js, which calls the generic      *)
(*                 executor once for each file it lists,                     *)
(*   "autonomous"  scripts/autonomous-executor.js, which moves a file to     *)
(*                 in-progress and then runs the generic executor as a child.*)
(* All of them claim a task by renaming its file to in-progress.             *)
EXTENDS LaneFiles, FiniteSets

CONSTANTS
  Executor,      \* the executor processes of the lane
  kindOf,        \* kindOf[x]: which program x is
  MaxFaults      \* bound: crashes and exceptions of executors

ASSUME LaneExecutorAssumption ==
  /\ IsFiniteSet(Executor)
  /\ kindOf \in [Executor -> {"generic", "watcher", "autonomous"}]
  /\ MaxFaults \in Nat

VARIABLES
  phase,      \* phase[x]: where x stands
  own,        \* own[x]: the file the wrapping program runs the executor for
  cur,        \* cur[x]: the file the generic executor works on
  todo,       \* todo[x]: the files the generic executor has listed
  executed,   \* executed[m]: how often executeTask has run for m
  answered,   \* the messages whose response was delivered
  faults      \* how many executors have crashed or thrown

executorVars == <<phase, own, cur, todo, executed, answered, faults>>

Phase == {"idle", "hold", "scan", "execute", "deliver", "finish", "close"}

ExecutorTypeOK ==
  /\ phase \in [Executor -> Phase]
  /\ own \in [Executor -> Name \cup {NoName}]
  /\ cur \in [Executor -> Name \cup {NoName}]
  /\ todo \in [Executor -> SUBSET Name]
  /\ executed \in [Msg -> Nat]
  /\ answered \subseteq Msg
  /\ faults \in 0..MaxFaults

ExecutorInit ==
  /\ phase = [x \in Executor |-> "idle"]
  /\ own = [x \in Executor |-> NoName]
  /\ cur = [x \in Executor |-> NoName]
  /\ todo = [x \in Executor |-> {}]
  /\ executed = [m \in Msg |-> 0]
  /\ answered = {}
  /\ faults = 0

-----------------------------------------------------------------------------
(* A fault for the model checker: the wrapper's own file is not listed.      *)
StartRun_SkipsOwn(x, n) ==
  /\ todo' = [todo EXCEPT ![x] = files("action-required") \ {n}]
  /\ own' = [own EXCEPT ![x] = n]
  /\ phase' = [phase EXCEPT ![x] = "scan"]

(* GenericTaskExecutor.run lists action-required once and takes the files in *)
(* turn. The wrapping program, if there is one, holds a file of its own.     *)
StartRun(x, n) ==
  /\ todo' = [todo EXCEPT ![x] = files("action-required")]
  /\ own' = [own EXCEPT ![x] = n]
  /\ phase' = [phase EXCEPT ![x] = "scan"]

RunGeneric(x) ==
  /\ kindOf[x] = "generic" /\ phase[x] = "idle"
  /\ files("action-required") # {}
  /\ StartRun(x, NoName)
  /\ UNCHANGED <<box, cur, executed, answered, faults, journal>>

(* executor-watcher.js: a file it can read is logged as started, then the    *)
(* executor runs on the whole directory. Where the preflight says BLOCK it   *)
(* exits with 1, which the watcher takes for a preflight it may skip.        *)
WatcherRun(x, n) ==
  /\ kindOf[x] = "watcher" /\ phase[x] = "idle"
  /\ exists("action-required", n)
  /\ StartRun(x, n)
  /\ log("work_started", n, {})
  /\ UNCHANGED <<box, cur, executed, answered, faults>>

(* The preflight's verdict is WARN, because someone has reported a change of *)
(* the file today: the watcher moves it to blocked.                          *)
WatcherBlock(x, n) ==
  /\ kindOf[x] = "watcher" /\ phase[x] = "idle"
  /\ rename("action-required", n, "blocked", n)
  /\ UNCHANGED <<executorVars, journal>>

(* A fault for the model checker: the file is copied, not renamed.           *)
AutonomousHold_Copies(x, n) ==
  /\ kindOf[x] = "autonomous" /\ phase[x] = "idle"
  /\ exists("action-required", n)
  /\ write("in-progress", n, box[<<"action-required", n>>])
  /\ own' = [own EXCEPT ![x] = n]
  /\ phase' = [phase EXCEPT ![x] = "hold"]
  /\ UNCHANGED <<cur, todo, executed, answered, faults, journal>>

(* autonomous-executor.js claims the file itself ... *)
AutonomousHold(x, n) ==
  /\ kindOf[x] = "autonomous" /\ phase[x] = "idle"
  /\ rename("action-required", n, "in-progress", n)
  /\ own' = [own EXCEPT ![x] = n]
  /\ phase' = [phase EXCEPT ![x] = "hold"]
  /\ UNCHANGED <<cur, todo, executed, answered, faults, journal>>

(* ... puts it back when it would write a guarded file ... *)
AutonomousReturn(x) ==
  /\ phase[x] = "hold"
  /\ Content[messageOf(own[x])].guarded_write
  /\ IF exists("in-progress", own[x])
     THEN rename("in-progress", own[x], "action-required", own[x])
     ELSE UNCHANGED box
  /\ own' = [own EXCEPT ![x] = NoName]
  /\ phase' = [phase EXCEPT ![x] = "idle"]
  /\ UNCHANGED <<cur, todo, executed, answered, faults, journal>>

(* ... or runs the generic executor, which looks in action-required only. *)
AutonomousRun(x) ==
  /\ phase[x] = "hold"
  /\ ~Content[messageOf(own[x])].guarded_write
  /\ StartRun(x, own[x])
  /\ UNCHANGED <<box, cur, executed, answered, faults, journal>>

(* A fault for the model checker: the claim is a copy.                       *)
Take_Copies(x, n) ==
  /\ phase[x] = "scan" /\ n \in todo[x]
  /\ todo' = [todo EXCEPT ![x] = @ \ {n}]
  /\ IF exists("action-required", n)
     THEN /\ write("in-progress", n, box[<<"action-required", n>>])
          /\ cur' = [cur EXCEPT ![x] = n]
          /\ phase' = [phase EXCEPT ![x] = "execute"]
     ELSE UNCHANGED <<box, cur, phase>>
  /\ UNCHANGED <<own, executed, answered, faults, journal>>

(* The rename that claims a listed file; it fails when the file has gone. *)
Take(x, n) ==
  /\ phase[x] = "scan" /\ n \in todo[x]
  /\ todo' = [todo EXCEPT ![x] = @ \ {n}]
  /\ IF exists("action-required", n)
     THEN /\ rename("action-required", n, "in-progress", n)
          /\ cur' = [cur EXCEPT ![x] = n]
          /\ phase' = [phase EXCEPT ![x] = "execute"]
     ELSE UNCHANGED <<box, cur, phase>>
  /\ UNCHANGED <<own, executed, answered, faults, journal>>

Execute(x) ==
  /\ phase[x] = "execute"
  /\ executed' = [executed EXCEPT ![messageOf(cur[x])] = @ + 1]
  /\ phase' = [phase EXCEPT ![x] = "deliver"]
  /\ UNCHANGED <<box, own, cur, todo, answered, faults, journal>>

(* signAndDeliver: the response is written to the outbox and to the sender. *)
DeliverResponse(x) ==
  /\ phase[x] = "deliver"
  /\ answered' = answered \cup {messageOf(cur[x])}
  /\ phase' = [phase EXCEPT ![x] = "finish"]
  /\ UNCHANGED <<box, own, cur, todo, executed, faults, journal>>

FinishTask(x) ==
  /\ phase[x] = "finish"
  /\ IF exists("in-progress", cur[x])
     THEN rename("in-progress", cur[x], "processed", cur[x])
     ELSE UNCHANGED box
  /\ cur' = [cur EXCEPT ![x] = NoName]
  /\ phase' = [phase EXCEPT ![x] = "scan"]
  /\ UNCHANGED <<own, todo, executed, answered, faults, journal>>

(* The run is over: a plain run ends, a wrapped one returns to its wrapper. *)
EndRun(x) ==
  /\ phase[x] = "scan" /\ todo[x] = {}
  /\ phase' = [phase EXCEPT ![x] =
                 IF kindOf[x] = "generic" THEN "idle" ELSE "close"]
  /\ UNCHANGED <<box, own, cur, todo, executed, answered, faults, journal>>

(* The watcher logs completion of its file, whichever files the run took,    *)
(* and without a handoff.                                                    *)
WatcherClose(x) ==
  /\ kindOf[x] = "watcher" /\ phase[x] = "close"
  /\ log("work_completed", own[x], {})
  /\ own' = [own EXCEPT ![x] = NoName]
  /\ phase' = [phase EXCEPT ![x] = "idle"]
  /\ UNCHANGED <<box, cur, todo, executed, answered, faults>>

(* A fault for the model checker: what the gate refuses is logged as done.   *)
AutonomousReject_Completes(x) ==
  /\ kindOf[x] = "autonomous" /\ phase[x] = "close"
  /\ IF exists("in-progress", own[x])
     THEN rename("in-progress", own[x], "quarantine", own[x])
     ELSE UNCHANGED box
  /\ log("work_completed", own[x], {"handoff"})
  /\ own' = [own EXCEPT ![x] = NoName]
  /\ phase' = [phase EXCEPT ![x] = "idle"]
  /\ UNCHANGED <<cur, todo, executed, answered, faults>>

(* verifyTaskOutput refuses: the declared output is not there. *)
AutonomousReject(x) ==
  /\ kindOf[x] = "autonomous" /\ phase[x] = "close"
  /\ IF exists("in-progress", own[x])
     THEN rename("in-progress", own[x], "quarantine", own[x])
     ELSE UNCHANGED box
  /\ log("output_gate_rejection", own[x], {"handoff"})
  /\ own' = [own EXCEPT ![x] = NoName]
  /\ phase' = [phase EXCEPT ![x] = "idle"]
  /\ UNCHANGED <<cur, todo, executed, answered, faults>>

(* The held file is filed as processed and logged as completed. *)
AutonomousClose(x) ==
  /\ kindOf[x] = "autonomous" /\ phase[x] = "close"
  /\ \E k \in uniquePath("processed", own[x]) :
       IF exists("in-progress", own[x])
       THEN rename("in-progress", own[x], "processed", k)
       ELSE UNCHANGED box
  /\ log("work_completed", own[x], {"handoff"})
  /\ own' = [own EXCEPT ![x] = NoName]
  /\ phase' = [phase EXCEPT ![x] = "idle"]
  /\ UNCHANGED <<cur, todo, executed, answered, faults>>

(* handleStaleTasks: a task that waited for an hour is filed as processed. *)
AutonomousExpire(x, n) ==
  /\ kindOf[x] = "autonomous" /\ phase[x] = "idle"
  /\ \E k \in uniquePath("processed", n) :
       rename("action-required", n, "processed", k)
  /\ log("quarantine_event", n, {})
  /\ UNCHANGED executorVars

(* A fault for the model checker: a task that threw is put back for a retry. *)
Throws_PutsBack(x) ==
  /\ phase[x] \in {"execute", "deliver"} /\ faults < MaxFaults
  /\ faults' = faults + 1
  /\ IF exists("in-progress", cur[x])
     THEN rename("in-progress", cur[x], "action-required", cur[x])
     ELSE UNCHANGED box
  /\ cur' = [cur EXCEPT ![x] = NoName]
  /\ todo' = [todo EXCEPT ![x] = {}]
  /\ own' = [own EXCEPT ![x] = NoName]
  /\ phase' = [phase EXCEPT ![x] = "idle"]
  /\ UNCHANGED <<executed, answered, journal>>

(* executeTask or the delivery throws: the run is abandoned with the file in *)
(* in-progress. The watcher catches and logs it. The autonomous executor,    *)
(* which also kills a child after 30 s, sees only that the child failed and  *)
(* goes on to its output gate.                                               *)
Throws(x) ==
  /\ \/ phase[x] \in {"execute", "deliver"}
     \/ kindOf[x] = "autonomous" /\ phase[x] \in {"scan", "finish"}
  /\ faults < MaxFaults
  /\ faults' = faults + 1
  /\ cur' = [cur EXCEPT ![x] = NoName]
  /\ todo' = [todo EXCEPT ![x] = {}]
  /\ IF kindOf[x] = "autonomous"
     THEN phase' = [phase EXCEPT ![x] = "close"] /\ UNCHANGED own
     ELSE phase' = [phase EXCEPT ![x] = "idle"] /\ own' = [own EXCEPT ![x] = NoName]
  /\ IF kindOf[x] = "watcher" THEN log("work_failed", own[x], {})
                              ELSE UNCHANGED journal
  /\ UNCHANGED <<box, executed, answered>>

(* The process dies at any point; its successor starts with nothing. *)
Crash(x) ==
  /\ phase[x] # "idle" /\ faults < MaxFaults
  /\ faults' = faults + 1
  /\ phase' = [phase EXCEPT ![x] = "idle"]
  /\ own' = [own EXCEPT ![x] = NoName]
  /\ cur' = [cur EXCEPT ![x] = NoName]
  /\ todo' = [todo EXCEPT ![x] = {}]
  /\ UNCHANGED <<box, executed, answered, journal>>

ExecutorProgress(x) ==
  \/ RunGeneric(x) \/ AutonomousReturn(x) \/ AutonomousRun(x)
  \/ Execute(x) \/ DeliverResponse(x) \/ FinishTask(x) \/ EndRun(x)
  \/ WatcherClose(x) \/ AutonomousReject(x) \/ AutonomousClose(x)
  \/ \E n \in Name : WatcherRun(x, n) \/ AutonomousHold(x, n) \/ Take(x, n)
=============================================================================
