----------------------------- MODULE TaskChain -----------------------------
(* The engine that follows up finished tasks (scripts/task-chain-engine.js,  *)
(* run with --apply): each run loads the chains, goes over the inbox up to   *)
(* maxIterations times, posts the follow-ups of each task and saves the      *)
(* chains at the end. A task that names a chain nobody knows is blocked.     *)
EXTENDS Integers, FiniteSets

CONSTANTS
  Chain,            \* the tasks that start a chain, by their ids
  chainKind,        \* chainKind[c]: what the task that starts c is
  ownConsensus,     \* the lane is archivist, which consensus goes to
  maxChainDepth, maxIterations,
  MaxOrigins,       \* bound: times that a task which starts a chain is posted
  MaxForeign,       \* bound: messages from elsewhere that name a chain
  MaxCrashes        \* bound: deaths of the engine

(* What type and task_kind make of a message; "reviewed_amendment" is a      *)
(* review by its type and an amendment by its task_kind.                     *)
TaskKinds == {"task", "task_review", "review", "reviewed_amendment", "ratification", "status"}

ASSUME ChainAssumption ==
  /\ chainKind \in [Chain -> TaskKinds] /\ ownConsensus \in BOOLEAN
  /\ maxChainDepth \in Nat \ {0} /\ maxIterations \in Nat \ {0}
  /\ MaxOrigins \in Nat /\ MaxForeign \in Nat /\ MaxCrashes \in Nat

VARIABLES
  tasks,        \* the tasks in the inbox
  blocked,      \* the tasks in blocked
  depths,       \* the engine's active chains: their depth, or 0
  savedDepths,  \* the chains in the state file
  engine,       \* "off", "scan", "next", "write" or "move"
  iteration,
  listing,      \* the tasks of this scan, not yet processed
  done,         \* _processedThisRun
  task,         \* the task that is being moved, and whether to blocked
  followup,     \* the follow-ups of the task that are still to be written
  origins, followups, foreigners, crashes,
  closed        \* the chains that were completed at the maximal depth

chainMemory == <<depths, engine, iteration, listing, done, task, followup>>
chainVars == <<tasks, blocked, savedDepths, chainMemory, origins, followups, foreigners,
               crashes, closed>>

(* A task file: it starts its chain, or names it by chain_id or              *)
(* parent_task_id; then it is a follow-up of this engine or comes from       *)
(* elsewhere, as another lane's consensus does. The number makes its name    *)
(* unique.                                                                   *)
Task == [chain : Chain, kind : TaskKinds, as : {"start", "followup", "foreign"}, number : Nat]

ChainTypeOK ==
  /\ tasks \subseteq Task /\ blocked \subseteq Task
  /\ depths \in [Chain -> 0..maxChainDepth] /\ savedDepths \in [Chain -> 0..maxChainDepth]
  /\ engine \in {"off", "scan", "next", "write", "move"}
  /\ iteration \in 0..maxIterations
  /\ listing \subseteq Task /\ done \subseteq Task
  /\ task \subseteq [moved : Task, orphan : BOOLEAN] /\ Cardinality(task) <= 1
  /\ followup \subseteq Task
  /\ origins \in [Chain -> 0..MaxOrigins] /\ followups \in [Chain -> Nat]
  /\ foreigners \in 0..MaxForeign /\ crashes \in 0..MaxCrashes /\ closed \subseteq Chain

NoChains == [c \in Chain |-> 0]

ChainInit ==
  /\ tasks = {} /\ blocked = {} /\ depths = NoChains /\ savedDepths = NoChains
  /\ engine = "off" /\ iteration = 0 /\ listing = {} /\ done = {} /\ task = {} /\ followup = {}
  /\ origins = NoChains /\ followups = NoChains /\ foreigners = 0 /\ crashes = 0
  /\ closed = {}

PostTask(c) ==
  /\ origins[c] < MaxOrigins
  /\ origins' = [origins EXCEPT ![c] = @ + 1]
  /\ tasks' = tasks \cup {[chain |-> c, kind |-> chainKind[c], as |-> "start", number |-> origins[c]]}
  /\ UNCHANGED <<blocked, savedDepths, chainMemory, followups, foreigners, crashes, closed>>

(* A message of another lane, whose chain this lane may know or not.         *)
PostForeign(c, kind) ==
  /\ foreigners < MaxForeign
  /\ foreigners' = foreigners + 1
  /\ tasks' = tasks \cup {[chain |-> c, kind |-> kind, as |-> "foreign", number |-> foreigners]}
  /\ UNCHANGED <<blocked, savedDepths, chainMemory, origins, followups, crashes, closed>>

startEngine ==
  /\ engine = "off" /\ tasks # {}
  /\ depths' = savedDepths /\ engine' = "scan" /\ iteration' = 0 /\ done' = {}
  /\ UNCHANGED <<tasks, blocked, savedDepths, listing, task, followup, origins, followups,
                 foreigners, crashes, closed>>

(* A fault for the model checker: only an empty inbox saves.                 *)
scanInbox_SavesOnlyWhenIdle ==
  /\ engine = "scan"
  /\ IF tasks = {} \/ iteration = maxIterations
     THEN /\ engine' = "off" /\ UNCHANGED <<iteration, listing>>
          /\ savedDepths' = IF tasks = {} THEN depths ELSE savedDepths
     ELSE /\ engine' = "next" /\ iteration' = iteration + 1 /\ listing' = tasks \ done
          /\ UNCHANGED savedDepths
  /\ UNCHANGED <<tasks, blocked, depths, done, task, followup, origins, followups, foreigners, crashes, closed>>

(* An empty inbox or the last iteration ends the run, and saves.             *)
scanInbox ==
  /\ engine = "scan"
  /\ IF tasks = {} \/ iteration = maxIterations
     THEN engine' = "off" /\ savedDepths' = depths /\ UNCHANGED <<iteration, listing>>
     ELSE /\ engine' = "next" /\ iteration' = iteration + 1 /\ listing' = tasks \ done
          /\ UNCHANGED savedDepths
  /\ UNCHANGED <<tasks, blocked, depths, done, task, followup, origins, followups, foreigners, crashes, closed>>

(* What follows on a task of a kind: verification in the same lane and       *)
(* consensus in the lane archivist.                                          *)
generated(kind) ==
  (IF kind \in {"task", "reviewed_amendment"} THEN {"task_review"} ELSE {})
  \cup (IF kind \in {"review", "reviewed_amendment", "ratification"} THEN {"ratification"} ELSE {})

staysHere(f) == f.kind # "ratification" \/ ownConsensus

(* _startChain: the depth that the task brings its chain to; 0: none.        *)
depthOf(t) ==
  IF depths[t.chain] = 0 THEN IF t.as = "start" THEN 1 ELSE 0
  ELSE IF depths[t.chain] + 1 > maxChainDepth THEN 0 ELSE depths[t.chain] + 1

(* A chain that reaches the maximal depth is completed and forgotten.        *)
processTask(t) ==
  LET depth == depthOf(t)
      full == depth = maxChainDepth \/ (depth = 0 /\ depths[t.chain] # 0)
      next == IF depth = 0 \/ full THEN {} ELSE generated(t.kind)
  IN /\ engine = "next" /\ t \in listing
     /\ listing' = listing \ {t} /\ done' = done \cup {t}
     /\ task' = {[moved |-> t, orphan |-> depth = 0]}
     /\ depths' = [depths EXCEPT ![t.chain] = IF full THEN 0 ELSE depth]
     /\ closed' = IF full THEN closed \cup {t.chain} ELSE closed
     /\ followup' = {[chain |-> t.chain, kind |-> k, as |-> "followup",
                      number |-> followups[t.chain]] : k \in next}
     /\ engine' = IF next = {} THEN "move" ELSE "write"
     /\ UNCHANGED <<tasks, blocked, savedDepths, iteration, origins, followups, foreigners, crashes>>

(* One after the other, verification first.                                  *)
writeFollowup(f) ==
  /\ engine = "write" /\ f \in followup
  /\ \A g \in followup : g.kind = "task_review" => g = f
  /\ tasks' = tasks \cup {g \in {f} : staysHere(g)}
  /\ followups' = [followups EXCEPT ![f.chain] = @ + 1]
  /\ followup' = followup \ {f}
  /\ engine' = IF followup = {f} THEN "move" ELSE "write"
  /\ UNCHANGED <<blocked, savedDepths, depths, iteration, listing, done, task, origins, foreigners,
                 crashes, closed>>

(* To processed, or to blocked.                                              *)
moveTask ==
  /\ engine = "move"
  /\ tasks' = tasks \ {m.moved : m \in task}
  /\ blocked' = blocked \cup {m.moved : m \in {x \in task : x.orphan}}
  /\ task' = {} /\ engine' = "next"
  /\ UNCHANGED <<savedDepths, depths, iteration, listing, done, followup, origins,
                 followups, foreigners, crashes, closed>>

endIteration ==
  /\ engine = "next" /\ listing = {}
  /\ engine' = "scan"
  /\ UNCHANGED <<tasks, blocked, savedDepths, depths, iteration, listing, done, task, followup,
                 origins, followups, foreigners, crashes, closed>>

(* The chains that were not saved are lost, all of them if it dies while it  *)
(* saves; the follow-ups that were written are not.                          *)
CrashEngine ==
  /\ engine # "off" /\ crashes < MaxCrashes
  /\ crashes' = crashes + 1
  /\ savedDepths' \in {savedDepths} \cup {d \in {NoChains} : engine = "scan"}
  /\ engine' = "off" /\ listing' = {} /\ task' = {} /\ followup' = {}
  /\ UNCHANGED <<tasks, blocked, depths, iteration, done, origins, followups, foreigners, closed>>

engineStep ==
  \/ startEngine \/ scanInbox \/ moveTask \/ endIteration
  \/ \E t \in listing : processTask(t)
  \/ \E f \in followup : writeFollowup(f)

ChainNext ==
  \/ \E c \in Chain : PostTask(c) \/ \E kind \in TaskKinds : PostForeign(c, kind)
  \/ engineStep \/ CrashEngine

ChainSpec == ChainInit /\ [][ChainNext]_chainVars

-----------------------------------------------------------------------------
(* A follow-up of this engine is blocked as an orphan only after a death of  *)
(* the engine, or when its chain has been completed at the maximal depth: no *)
(* run forgets a chain that a task of it is still waiting for. (What comes   *)
(* from elsewhere, another lane's consensus too, is blocked whenever it      *)
(* names a chain that this lane does not know.)                              *)
OrphansAreExplained ==
  \A t \in blocked : t.as = "foreign" \/ crashes > 0 \/ t.chain \in closed
=============================================================================
