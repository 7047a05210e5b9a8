------------------------------ MODULE Presence ------------------------------
(* How an agent that works in a lane keeps the lane's watcher off            *)
(* (scripts/agent-presence.js): a lock file and a mode file, which every     *)
(* command writes one after the other without looking at what they hold.     *)
(* (No caller gives a lock an expiry; an operator's modes are left out.)     *)
EXTENDS FiniteSets

CONSTANTS
  Visitor,      \* the agents that come to the lane
  NoLock        \* no agent

ASSUME PresenceAssumption == NoLock \notin Visitor

VARIABLES
  lock,       \* agent-active.lock: the agent it names, or NoLock
  mode,       \* watcher-mode.json
  present,    \* the agents whose acquire has begun and whose release has not ended
  command,    \* command[v]: the write that v's command has still to do
  settled,    \* the agents whose acquire had ended when the watcher began its check
  check,      \* the watcher: "rest", "mode", "lock" or "pass"
  foreign     \* an agent undid what another one had written

presenceVars == <<lock, mode, present, command, settled, check, foreign>>

PresenceTypeOK ==
  /\ lock \in Visitor \cup {NoLock}
  /\ mode \in {"auto", "agent-assist"}
  /\ present \subseteq Visitor /\ settled \subseteq Visitor
  /\ command \in [Visitor -> {"none", "assist", "auto"}]
  /\ check \in {"rest", "mode", "lock", "pass"} /\ foreign \in BOOLEAN

PresenceInit ==
  /\ lock = NoLock /\ mode = "auto" /\ present = {} /\ settled = {}
  /\ command = [v \in Visitor |-> "none"]
  /\ check = "rest" /\ foreign = FALSE

others(v) == present \ {v}

(* acquire: the lock file is written over, then the mode.                    *)
acquire(v) ==
  /\ v \notin present /\ command[v] = "none"
  /\ lock' = v
  /\ present' = present \cup {v}
  /\ command' = [command EXCEPT ![v] = "assist"]
  /\ UNCHANGED <<mode, settled, check, foreign>>

(* release: whoever's lock it is, it is removed; then the mode.              *)
releasePresence(v) ==
  /\ v \in present /\ command[v] = "none"
  /\ lock' = NoLock
  /\ foreign' = (foreign \/ others(v) # {})
  /\ settled' = settled \ {v}
  /\ command' = [command EXCEPT ![v] = "auto"]
  /\ present' = present \ {v}
  /\ UNCHANGED <<mode, check>>

setWatcherMode(v) ==
  /\ command[v] # "none"
  /\ mode' = IF command[v] = "assist" THEN "agent-assist" ELSE "auto"
  /\ foreign' = (foreign \/ (command[v] = "auto" /\ others(v) # {}))
  /\ command' = [command EXCEPT ![v] = "none"]
  /\ UNCHANGED <<lock, present, settled, check>>

(* The watcher asks before each pass: the mode first, then the lock.         *)
beginCheck ==
  /\ check = "rest"
  /\ check' = "mode"
  /\ settled' = {v \in present : command[v] = "none"}
  /\ UNCHANGED <<lock, mode, present, command, foreign>>

readWatcherMode ==
  /\ check = "mode"
  /\ check' = IF mode = "auto" THEN "lock" ELSE "rest"
  /\ UNCHANGED <<lock, mode, present, command, settled, foreign>>

isAgentActive ==
  /\ check = "lock"
  /\ check' = IF lock = NoLock THEN "pass" ELSE "rest"
  /\ UNCHANGED <<lock, mode, present, command, settled, foreign>>

endPass ==
  /\ check = "pass"
  /\ check' = "rest"
  /\ settled' = {}
  /\ UNCHANGED <<lock, mode, present, command, foreign>>

watcherStep == beginCheck \/ readWatcherMode \/ isAgentActive \/ endPass

PresenceNext ==
  \/ \E v \in Visitor : acquire(v) \/ releasePresence(v) \/ setWatcherMode(v)
  \/ watcherStep

PresenceSpec == PresenceInit /\ [][PresenceNext]_presenceVars

-----------------------------------------------------------------------------
(* "When an agent is active on a lane, the watcher skips that lane": a pass  *)
(* begins beside an agent that had come before the watcher asked only if     *)
(* another agent's release has wiped out its traces.                         *)
WatcherKeepsOff == (check = "pass" /\ settled # {}) => foreign

(* A lane that its agents have left is watched again: neither of the two     *)
(* files is left behind, however their commands overlap.                     *)
WatcherComesBack ==
  (present = {} /\ (lock # NoLock \/ mode # "auto")) ~> (check = "pass" \/ present # {})
=============================================================================
