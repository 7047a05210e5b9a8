----------------------------- MODULE LanePipeline -----------------------------
(* One lane: messages arrive in its inbox, lane workers route them, executors*)
(* carry out what asks for action, and the reaper sends quarantined files    *)
(* back. The processes run concurrently and meet only in the files.          *)
EXTENDS LaneWorker, LaneExecutor

CONSTANTS
  MaxDeliver,   \* bound: how often the relay delivers the same message
  MaxStops,     \* bound: how many workers are stopped or crash
  MaxRequeue    \* bound: how often the reaper puts a message back

ASSUME LanePipelineAssumption ==
  /\ MaxDeliver \in Nat
  /\ MaxStops \in Nat
  /\ MaxRequeue \in Nat

VARIABLES
  delivered,    \* delivered[m]: how often m arrived
  stops,        \* how many workers have been stopped
  requeued      \* requeued[m]: how often the reaper has put m back

laneVars == <<delivered, stops, requeued>>
vars == <<box, journal, workerVars, executorVars, laneVars>>

TypeOK ==
  /\ FilesTypeOK /\ WorkerTypeOK /\ ExecutorTypeOK
  /\ delivered \in [Msg -> 0..MaxDeliver]
  /\ stops \in 0..MaxStops
  /\ requeued \in [Msg -> 0..MaxRequeue]

Init ==
  /\ box = [f \in Dirs \X Name |-> NoFile]
  /\ journal = {}
  /\ WorkerInit /\ ExecutorInit
  /\ delivered = [m \in Msg |-> 0]
  /\ stops = 0
  /\ requeued = [m \in Msg |-> 0]

-----------------------------------------------------------------------------
(* A relay or another lane writes the message; a second delivery of the same *)
(* message replaces the file when it is still there.                         *)
Deliver(m) ==
  /\ delivered[m] < MaxDeliver
  /\ delivered' = [delivered EXCEPT ![m] = @ + 1]
  /\ write("inbox", <<m, 0>>, 0)
  /\ UNCHANGED <<journal, workerVars, executorVars, stops, requeued>>

(* A fault for the model checker: what is put back skips the worker.         *)
Reap_ToActionRequired(n) ==
  /\ requeued[messageOf(n)] < MaxRequeue
  /\ rename("quarantine", n, "action-required", n)
  /\ requeued' = [requeued EXCEPT ![messageOf(n)] = @ + 1]
  /\ UNCHANGED <<journal, workerVars, executorVars, delivered, stops>>

(* quarantine-reaper.js: back to the inbox, or away after 30 days. *)
Reap(n) ==
  /\ \/ /\ requeued[messageOf(n)] < MaxRequeue
        /\ rename("quarantine", n, "inbox", n)
        /\ requeued' = [requeued EXCEPT ![messageOf(n)] = @ + 1]
     \/ /\ rename("quarantine", n, "archive", n)
        /\ UNCHANGED requeued
  /\ UNCHANGED <<journal, workerVars, executorVars, delivered, stops>>

Stop(w) ==
  /\ stops < MaxStops /\ StopWorker(w)
  /\ stops' = stops + 1
  /\ UNCHANGED <<executorVars, delivered, requeued>>

WorkerNext ==
  \E w \in Worker :
    (StartWorker(w) \/ WorkerStep(w)) /\ UNCHANGED <<executorVars, laneVars>>

OwnerAges == OwnerClaimAges /\ UNCHANGED <<executorVars, laneVars>>

ExecutorNext ==
  \E x \in Executor :
    /\ \/ ExecutorProgress(x) \/ Throws(x) \/ Crash(x)
       \/ \E n \in Name : WatcherBlock(x, n) \/ AutonomousExpire(x, n)
    /\ UNCHANGED <<workerVars, laneVars>>

Next ==
  \/ \E m \in Msg : Deliver(m)
  \/ \E n \in Name : Reap(n)
  \/ \E w \in Worker : Stop(w)
  \/ WorkerNext \/ OwnerAges \/ ExecutorNext

Spec == Init /\ [][Next]_vars

(* systemd keeps the processes running: a worker that is down is started, a  *)
(* worker or an executor that can go on does.                                *)
Fairness ==
  /\ \A w \in Worker :
       WF_vars((StartWorker(w) \/ WorkerStep(w))
               /\ UNCHANGED <<executorVars, laneVars>>)
  /\ \A x \in Executor :
       WF_vars(ExecutorProgress(x) /\ UNCHANGED <<workerVars, laneVars>>)

FairSpec == Spec /\ Fairness

-----------------------------------------------------------------------------
(* Properties *)

queueOf(m) == routeOf(Content[m]).queue

locations(m) == {f \in Dirs \X Name : messageOf(f[2]) = m /\ box[f] # NoFile}

(* Whatever crashes, restarts, races or overwrites, a message that arrived   *)
(* is in some directory: workers write the copy before they unlink the       *)
(* source (lane-worker.js 1067-1072), everybody else renames. The one        *)
(* exception are messages the reaper has put back, see RequeuedIsKept.       *)
NoMessageLost ==
  \A m \in Msg :
    delivered[m] > 0 /\ requeued[m] = 0 => locations(m) # {}

(* Only what the gate sent to action-required is ever executed, although     *)
(* executors, the reaper and the guards move files on their own (and an      *)
(* auto-started task, which is put in in-progress, is executed by nobody).   *)
OnlyAdmittedExecuted ==
  \A m \in Msg : executed[m] > 0 => queueOf(m) = "actionRequired"

(* Each execution uses up one copy a worker has put into action-required,    *)
(* counting the copies still waiting there and those being taken: executors  *)
(* that fail, crash or put tasks back never multiply a task.                 *)
waiting(m) == {n \in files("action-required") : messageOf(n) = m}
atWork(m) == {x \in Executor : phase[x] = "execute" /\ messageOf(cur[x]) = m}
ExecutionsWereAdmitted ==
  \A m \in Msg :
    executed[m] + Cardinality(waiting(m)) + Cardinality(atWork(m)) <= admitted[m]

(* One worker that never stops and one delivery: no task runs twice, however *)
(* many executors compete for it and however often they fail                 *)
(* (generic-task-executor.js 1833: the rename decides who takes a task).     *)
ExecutedAtMostOnce == \A m \in Msg : executed[m] <= 1

(* In the same setting a message is in one place, two only while its worker  *)
(* has written the copy and not yet unlinked the source.                     *)
InOnePlace ==
  \A m \in Msg :
    Cardinality(locations(m)) <=
      1 + Cardinality({w \in Worker : job[w].step = "unlink"
                                      /\ messageOf(job[w].name) = m})

(* While no worker has been stopped, a message that a worker refused rests   *)
(* in blocked or quarantine only if its sender has been told, or will be by  *)
(* the worker that is on it (lane-worker.js 1078). Another worker can move   *)
(* the source away before the refusing one unlinks it, because it is not the *)
(* owner or because the reaper has put a stamped copy over the source: such  *)
(* a message is in needs-review or stale-foreign as well.                    *)
RefusalIsReported ==
  stops = 0 =>
    \A m \in Msg :
      /\ Content[m].nackable /\ Content[m].json
      /\ queueOf(m) \in {"blocked", "quarantine"}
      /\ \E n \in files("blocked") \cup files("quarantine") : messageOf(n) = m
      /\ \A n \in files("needs-review") \cup files("stale-foreign") : messageOf(n) # m
      => m \in nacked \/ \E w \in Worker : job[w].step \in {"unlink", "report"}
                                           /\ messageOf(job[w].name) = m

(* stale-foreign holds only what the reaper has put back: a file in the      *)
(* inbox carries another session's stamp only after that session has judged  *)
(* it (lane-worker.js 995-1018), and nothing ever leaves stale-foreign. And  *)
(* a lane's first worker process defers nothing: needs-review fills only     *)
(* when a later session finds the claim of an earlier one, dead or alive     *)
(* (lane-worker.js 494-502, 974).                                            *)
ParkedForItsReason ==
  /\ \A n \in files("stale-foreign") : requeued[messageOf(n)] > 0
  /\ files("needs-review") # {} => started > 1

(* What the journal says is completed has been filed as processed. With one  *)
(* autonomous executor at most, whatever else runs in the lane: what it      *)
(* holds can be carried on to processed by another program, but not taken    *)
(* elsewhere (autonomous-executor.js 309-328), and the completions of all    *)
(* the others, which come without a handoff, are refused.                    *)
CompletedIsFiled ==
  \A m \in Msg :
    <<"work_completed", m>> \in journal =>
      \E n \in files("processed") : messageOf(n) = m

(* A message the gate can decide on does not stay in the inbox unless those  *)
(* that make it throw fill a whole pass (lane-worker.js 643): a pass takes   *)
(* maxFiles files and leaves those that throw where they are.                *)
InboxDrains ==
  \A n \in Name :
    (exists("inbox", n) /\ queueOf(messageOf(n)) # "inbox")
      ~> \/ ~exists("inbox", n)
         \/ Cardinality({k \in files("inbox") : queueOf(messageOf(k)) = "inbox"}) >= maxFiles

(* A task that waits in action-required is answered, or the preflight blocks *)
(* it.                                                                       *)
TasksAreAnswered ==
  \A n \in Name :
    exists("action-required", n)
      ~> messageOf(n) \in answered \/ exists("blocked", n)

-----------------------------------------------------------------------------
(* What the repository's documents say and the code does not do. *)

(* quarantine-reaper.js 64: "Move back to inbox for reprocessing". A worker  *)
(* that has just written the quarantined copy unlinks the file the reaper    *)
(* has renamed over its source.                                              *)
RequeuedIsKept == \A m \in Msg : requeued[m] > 0 => locations(m) # {}

(* autonomous-executor.js 325-327 journals work_completed with the intent    *)
(* "executed action-required task".                                          *)
CompletedWasExecuted ==
  \A m \in Msg : <<"work_completed", m>> \in journal => executed[m] > 0
=============================================================================
