-------------------------- MODULE LanePipeline_proof --------------------------
(* The safety of one lane for every set of messages, workers and executors.  *)
EXTENDS LanePipeline, RoutingGate_proof, FiniteSetTheorems

-----------------------------------------------------------------------------
(* The three operations on files. *)

LEMMA NameType ==
  ASSUME NEW n \in Name
  PROVE  messageOf(n) \in Msg
BY DEF Name, messageOf

LEMMA WriteFile ==
  ASSUME FilesTypeOK, NEW d \in Dirs, NEW n \in Name, NEW s \in Stamp,
         write(d, n, s)
  PROVE  box' \in [Dirs \X Name -> Stamp \cup {NoFile}]
BY DEF write, FilesTypeOK

LEMMA UnlinkFile ==
  ASSUME FilesTypeOK, NEW d \in Dirs, NEW n \in Name, unlink(d, n)
  PROVE  box' \in [Dirs \X Name -> Stamp \cup {NoFile}]
BY DEF unlink, FilesTypeOK

LEMMA RenameFile ==
  ASSUME FilesTypeOK, NEW d \in Dirs, NEW n \in Name, NEW e \in Dirs,
         NEW k \in Name, rename(d, n, e, k)
  PROVE  box' \in [Dirs \X Name -> Stamp \cup {NoFile}]
BY DEF rename, FilesTypeOK

(* The renames whose source may have gone. *)
LEMMA RenameIfThere ==
  ASSUME FilesTypeOK, NEW d \in Dirs, NEW n \in Name, NEW e \in Dirs,
         NEW k \in Name,
         IF exists(d, n) THEN rename(d, n, e, k) ELSE UNCHANGED box
  PROVE  box' \in [Dirs \X Name -> Stamp \cup {NoFile}]
BY RenameFile DEF FilesTypeOK

LEMMA FilesType ==
  ASSUME NEW d
  PROVE  files(d) \subseteq Name
BY DEF files

LEMMA UniquePath ==
  ASSUME NEW d \in Dirs, NEW n \in Name, NEW k \in uniquePath(d, n)
  PROVE  k \in Name /\ messageOf(k) = messageOf(n)
BY DEF uniquePath

LEMMA LogType ==
  ASSUME NEW ev, NEW n \in Name, NEW h, log(ev, n, h),
         journal \subseteq validEvents \X Msg
  PROVE  journal' \subseteq validEvents \X Msg
BY NameType DEF log

-----------------------------------------------------------------------------
(* Type correctness of the executors, with what their phases say of the      *)
(* files they hold: an executor in the middle of a task has the task's name. *)

ExecOK ==
  \A x \in Executor :
    /\ phase[x] = "hold" => own[x] \in Name
    /\ kindOf[x] # "generic" /\ phase[x] # "idle" => own[x] \in Name
    /\ phase[x] \in {"execute", "deliver", "finish"} => cur[x] \in Name

ExecInv == FilesTypeOK /\ ExecutorTypeOK /\ ExecOK

LEMMA ExecRun ==
  ASSUME ExecInv, NEW x \in Executor,
         \/ RunGeneric(x) \/ AutonomousRun(x) \/ EndRun(x)
         \/ \E n \in Name : WatcherRun(x, n)
  PROVE  ExecInv'
<1>1. CASE RunGeneric(x)
  BY <1>1, FilesType DEF RunGeneric, StartRun, ExecInv, FilesTypeOK,
     ExecutorTypeOK, ExecOK, Phase
<1>2. CASE AutonomousRun(x)
  BY <1>2, FilesType DEF AutonomousRun, StartRun, ExecInv, FilesTypeOK,
     ExecutorTypeOK, ExecOK, Phase
<1>3. CASE EndRun(x)
  BY <1>3 DEF EndRun, ExecInv, FilesTypeOK, ExecutorTypeOK, ExecOK, Phase
<1>4. CASE \E n \in Name : WatcherRun(x, n)
  <2>1. PICK n \in Name : WatcherRun(x, n)
    BY <1>4
  <2>2. journal' \subseteq validEvents \X Msg
    BY <2>1, LogType DEF WatcherRun, ExecInv, FilesTypeOK
  <2>3. QED BY <2>1, <2>2, FilesType DEF WatcherRun, StartRun, ExecInv,
               FilesTypeOK, ExecutorTypeOK, ExecOK, Phase
<1>5. QED BY <1>1, <1>2, <1>3, <1>4

LEMMA ExecTask ==
  ASSUME ExecInv, NEW x \in Executor,
         \/ Execute(x) \/ DeliverResponse(x) \/ FinishTask(x)
         \/ \E n \in Name : Take(x, n)
  PROVE  ExecInv'
<1>1. CASE Execute(x)
  BY <1>1, NameType DEF Execute, ExecInv, FilesTypeOK, ExecutorTypeOK, ExecOK, Phase
<1>2. CASE DeliverResponse(x)
  BY <1>2, NameType DEF DeliverResponse, ExecInv, FilesTypeOK, ExecutorTypeOK,
     ExecOK, Phase
<1>3. CASE FinishTask(x)
  <2>1. box' \in [Dirs \X Name -> Stamp \cup {NoFile}]
    BY <1>3, RenameIfThere DEF FinishTask, ExecInv, ExecOK, Dirs
  <2>2. QED BY <1>3, <2>1 DEF FinishTask, ExecInv, FilesTypeOK, ExecutorTypeOK,
               ExecOK, Phase
<1>4. CASE \E n \in Name : Take(x, n)
  <2>1. PICK n \in Name : Take(x, n)
    BY <1>4
  <2>2. box' \in [Dirs \X Name -> Stamp \cup {NoFile}]
    BY <2>1, RenameIfThere DEF Take, ExecInv, Dirs
  <2>3. QED BY <2>1, <2>2 DEF Take, ExecInv, FilesTypeOK, ExecutorTypeOK, ExecOK, Phase
<1>5. QED BY <1>1, <1>2, <1>3, <1>4

LEMMA ExecClose ==
  ASSUME ExecInv, NEW x \in Executor,
         WatcherClose(x) \/ AutonomousReject(x) \/ AutonomousClose(x)
  PROVE  ExecInv'
<1>1. own[x] \in Name
  BY DEF ExecInv, ExecOK, WatcherClose, AutonomousReject, AutonomousClose
<1>2. CASE WatcherClose(x)
  <2>1. journal' \subseteq validEvents \X Msg
    BY <1>1, <1>2, LogType DEF WatcherClose, ExecInv, FilesTypeOK
  <2>2. QED BY <1>2, <2>1 DEF WatcherClose, ExecInv, FilesTypeOK, ExecutorTypeOK,
               ExecOK, Phase
<1>3. CASE AutonomousReject(x)
  <2>1. box' \in [Dirs \X Name -> Stamp \cup {NoFile}]
    BY <1>1, <1>3, RenameIfThere DEF AutonomousReject, ExecInv, Dirs
  <2>2. journal' \subseteq validEvents \X Msg
    BY <1>1, <1>3, LogType DEF AutonomousReject, ExecInv, FilesTypeOK
  <2>3. QED BY <1>3, <2>1, <2>2 DEF AutonomousReject, ExecInv, FilesTypeOK,
               ExecutorTypeOK, ExecOK, Phase
<1>4. CASE AutonomousClose(x)
  <2>1. PICK k \in uniquePath("processed", own[x]) :
          IF exists("in-progress", own[x])
          THEN rename("in-progress", own[x], "processed", k)
          ELSE UNCHANGED box
    BY <1>4 DEF AutonomousClose
  <2>2. box' \in [Dirs \X Name -> Stamp \cup {NoFile}]
    BY <1>1, <2>1, RenameIfThere, UniquePath DEF ExecInv, Dirs
  <2>3. journal' \subseteq validEvents \X Msg
    BY <1>1, <1>4, LogType DEF AutonomousClose, ExecInv, FilesTypeOK
  <2>4. QED BY <1>4, <2>2, <2>3 DEF AutonomousClose, ExecInv, FilesTypeOK,
               ExecutorTypeOK, ExecOK, Phase
<1>5. QED BY <1>2, <1>3, <1>4

LEMMA ExecMove ==
  ASSUME ExecInv, NEW x \in Executor,
         \/ AutonomousReturn(x)
         \/ \E n \in Name : \/ WatcherBlock(x, n)
                             \/ AutonomousHold(x, n)
                             \/ AutonomousExpire(x, n)
  PROVE  ExecInv'
<1>1. CASE AutonomousReturn(x)
  <2>1. box' \in [Dirs \X Name -> Stamp \cup {NoFile}]
    BY <1>1, RenameIfThere DEF AutonomousReturn, ExecInv, ExecOK, Dirs
  <2>2. QED BY <1>1, <2>1 DEF AutonomousReturn, ExecInv, FilesTypeOK,
               ExecutorTypeOK, ExecOK, Phase
<1>2. CASE \E n \in Name : WatcherBlock(x, n)
  <2>1. PICK n \in Name : WatcherBlock(x, n)
    BY <1>2
  <2>2. box' \in [Dirs \X Name -> Stamp \cup {NoFile}]
    BY <2>1, RenameFile DEF WatcherBlock, ExecInv, Dirs
  <2>3. QED BY <2>1, <2>2 DEF WatcherBlock, ExecInv, FilesTypeOK,
               ExecutorTypeOK, ExecOK, executorVars
<1>3. CASE \E n \in Name : AutonomousHold(x, n)
  <2>1. PICK n \in Name : AutonomousHold(x, n)
    BY <1>3
  <2>2. box' \in [Dirs \X Name -> Stamp \cup {NoFile}]
    BY <2>1, RenameFile DEF AutonomousHold, ExecInv, Dirs
  <2>3. QED BY <2>1, <2>2 DEF AutonomousHold, ExecInv, FilesTypeOK,
               ExecutorTypeOK, ExecOK, Phase
<1>4. CASE \E n \in Name : AutonomousExpire(x, n)
  <2>1. PICK n \in Name : AutonomousExpire(x, n)
    BY <1>4
  <2>2. PICK k \in uniquePath("processed", n) :
          rename("action-required", n, "processed", k)
    BY <2>1 DEF AutonomousExpire
  <2>3. box' \in [Dirs \X Name -> Stamp \cup {NoFile}]
    BY <2>2, RenameFile, UniquePath DEF ExecInv, Dirs
  <2>4. journal' \subseteq validEvents \X Msg
    BY <2>1, LogType DEF AutonomousExpire, ExecInv, FilesTypeOK
  <2>5. QED BY <2>1, <2>3, <2>4 DEF AutonomousExpire, ExecInv, FilesTypeOK,
               ExecutorTypeOK, ExecOK, executorVars
<1>5. QED BY <1>1, <1>2, <1>3, <1>4

LEMMA ExecFault ==
  ASSUME ExecInv, NEW x \in Executor, Throws(x) \/ Crash(x)
  PROVE  ExecInv'
<1>1. faults + 1 \in 0..MaxFaults
  BY LaneExecutorAssumption DEF Throws, Crash, ExecInv, ExecutorTypeOK
<1>2. CASE Throws(x)
  <2>1. journal' \subseteq validEvents \X Msg
    BY <1>2, LogType DEF Throws, ExecInv, FilesTypeOK, ExecOK
  <2>2. QED BY <1>1, <1>2, <2>1 DEF Throws, ExecInv, FilesTypeOK, ExecutorTypeOK,
               ExecOK, Phase
<1>3. CASE Crash(x)
  BY <1>1, <1>3 DEF Crash, ExecInv, FilesTypeOK, ExecutorTypeOK, ExecOK, Phase
<1>4. QED BY <1>2, <1>3

LEMMA ExecStep == ExecInv /\ ExecutorNext => ExecInv'
BY ExecRun, ExecTask, ExecClose, ExecMove, ExecFault
   DEF ExecutorNext, ExecutorProgress

-----------------------------------------------------------------------------
(* Type correctness of the workers, with what a job says of its file: it is  *)
(* on its way out of the inbox, under a name of the same message, and into   *)
(* action-required only as decideRoute says.                                 *)

Moving == {"write", "move", "unlink", "report"}

JobOK ==
  \A w \in Worker :
    job[w].step \in Moving =>
      /\ job[w].name \in Name /\ job[w].to \in Name
      /\ messageOf(job[w].to) = messageOf(job[w].name)
      /\ job[w].dir # "inbox"
      /\ job[w].dir = "action-required"
           => queueOf(messageOf(job[w].name)) = "actionRequired"

WorkInv == FilesTypeOK /\ WorkerTypeOK /\ JobOK

LEMMA DirOfQueue ==
  ASSUME NEW q \in Queues
  PROVE  /\ DirOf(q) \in Dirs \ {"inbox"}
         /\ DirOf(q) = "action-required" => q = "actionRequired"
BY DEF Queues, DirOf, Dirs

LEMMA DispositionType ==
  ASSUME NEW w, NEW n \in Name, Disposition(w, n).step # "leave"
  PROVE  /\ Disposition(w, n).step \in {"move", "write"}
         /\ Disposition(w, n).dir \in Dirs \ {"inbox"}
         /\ Disposition(w, n).dir = "action-required"
              => queueOf(messageOf(n)) = "actionRequired"
<1> DEFINE m == Content[messageOf(n)]
<1>1. CASE routeOf(m) # Throw
  <2>1. routeOf(m).queue \in Queues
    BY <1>1, RouteIsQueue
  <2>2. /\ DirOf(routeOf(m).queue) \in Dirs \ {"inbox"}
        /\ DirOf(routeOf(m).queue) = "action-required"
             => routeOf(m).queue = "actionRequired"
    BY <2>1, DirOfQueue
  <2>3. QED BY <1>1, <2>2 DEF Disposition, queueOf, Dirs
<1>2. CASE routeOf(m) = Throw
  BY <1>2 DEF Disposition, Dirs
<1>3. QED BY <1>1, <1>2

LEMMA WorkOwner ==
  ASSUME WorkInv, NEW w \in Worker,
         StartWorker(w) \/ ClaimActiveOwner(w) \/ StopWorker(w)
  PROVE  WorkInv'
<1>1. CASE StartWorker(w)
  <2>1. started + 1 \in Stamp
    BY <1>1, LaneFilesAssumption DEF StartWorker, WorkInv, WorkerTypeOK, Stamp
  <2>2. PICK s \in {"claim", "idle"} : job' = [job EXCEPT ![w] = [Idle EXCEPT !.step = s]]
    BY <1>1 DEF StartWorker
  <2>3. [Idle EXCEPT !.step = s] = [step |-> s, name |-> NoName, dir |-> "inbox", to |-> NoName]
    BY DEF Idle
  <2>4. job' \in [Worker -> Job]
    BY <2>2, <2>3 DEF WorkInv, WorkerTypeOK, Job, Step, Dirs
  <2>5. JobOK'
    BY <2>2, <2>3, <2>4 DEF WorkInv, WorkerTypeOK, JobOK, Moving
  <2>6. QED BY <1>1, <2>1, <2>4, <2>5 DEF StartWorker, WorkInv, FilesTypeOK,
               WorkerTypeOK
<1>2. CASE ClaimActiveOwner(w)
  <2>1. job' \in [Worker -> Job] /\ JobOK'
    BY <1>2 DEF ClaimActiveOwner, WorkInv, WorkerTypeOK, JobOK, Moving, Idle,
       Job, Step, Dirs
  <2>2. QED BY <1>2, <2>1 DEF ClaimActiveOwner, WorkInv, FilesTypeOK, WorkerTypeOK
<1>3. CASE StopWorker(w)
  <2>1. job' \in [Worker -> Job] /\ JobOK'
    BY <1>3 DEF StopWorker, WorkInv, WorkerTypeOK, JobOK, Moving, Idle,
       Job, Step, Dirs
  <2>2. 0 \in Stamp
    BY LaneFilesAssumption DEF Stamp
  <2>3. QED BY <1>3, <2>1, <2>2 DEF StopWorker, WorkInv, FilesTypeOK, WorkerTypeOK
<1>4. QED BY <1>1, <1>2, <1>3

LEMMA WorkRead ==
  ASSUME WorkInv, NEW w \in Worker,
         ListInbox(w) \/ \E n \in Name : ReadFile(w, n)
  PROVE  WorkInv'
<1>1. CASE ListInbox(w)
  BY <1>1, FilesType DEF ListInbox, WorkInv, FilesTypeOK, WorkerTypeOK, JobOK,
     ownerVars
<1>2. CASE \E n \in Name : ReadFile(w, n)
  <2>1. PICK n \in Name : ReadFile(w, n)
    BY <1>2
  <2> DEFINE d == Disposition(w, n)
  <2>2. CASE exists("inbox", n) /\ d.step # "leave"
    <3>1. PICK k \in uniquePath(d.dir, n) :
            job' = [job EXCEPT ![w] = [step |-> d.step, name |-> n,
                                       dir |-> d.dir, to |-> k]]
      BY <2>1, <2>2 DEF ReadFile
    <3>2. /\ d.step \in {"move", "write"} /\ d.dir \in Dirs \ {"inbox"}
          /\ d.dir = "action-required" => queueOf(messageOf(n)) = "actionRequired"
      BY <2>2, DispositionType
    <3>3. k \in Name /\ messageOf(k) = messageOf(n)
      BY <3>2, UniquePath
    <3> HIDE DEF d
    <3>4. job' \in [Worker -> Job]
      BY <3>1, <3>2, <3>3 DEF WorkInv, WorkerTypeOK, Job, Step
    <3>5. JobOK'
      BY <3>1, <3>2, <3>3 DEF WorkInv, WorkerTypeOK, JobOK, Moving
    <3>6. QED BY <2>1, <3>4, <3>5 DEF ReadFile, WorkInv, FilesTypeOK,
                 WorkerTypeOK, ownerVars
  <2>3. CASE ~(exists("inbox", n) /\ d.step # "leave")
    BY <2>1, <2>3 DEF ReadFile, WorkInv, FilesTypeOK, WorkerTypeOK, JobOK,
       ownerVars
  <2>4. QED BY <2>2, <2>3
<1>3. QED BY <1>1, <1>2

LEMMA WorkMove ==
  ASSUME WorkInv, NEW w \in Worker,
         WriteCopy(w) \/ UnlinkSource(w) \/ Report(w) \/ MoveFile(w)
  PROVE  WorkInv'
<1> DEFINE j == job[w]
<1>1. /\ j \in Job /\ j.name \in Name /\ j.to \in Name
      /\ j.dir \in Dirs /\ session[w] \in Stamp
      /\ messageOf(j.name) \in Msg
  BY NameType DEF WriteCopy, UnlinkSource, Report, MoveFile, WorkInv, WorkerTypeOK,
     JobOK, Moving, Job
<1>2. Idle \in Job
  BY DEF Idle, Job, Step, Dirs
<1>3. CASE WriteCopy(w)
  <2>1. box' \in [Dirs \X Name -> Stamp \cup {NoFile}]
    BY <1>1, <1>3, WriteFile DEF WriteCopy, WorkInv
  <2>2. job' = [job EXCEPT ![w] = [j EXCEPT !.step = "unlink"]]
    BY <1>3 DEF WriteCopy
  <2>3. [j EXCEPT !.step = "unlink"] \in Job
    BY <1>1 DEF Job, Step
  <2>4. job' \in [Worker -> Job]
    BY <2>2, <2>3 DEF WorkInv, WorkerTypeOK
  <2>5. JobOK'
    BY <1>1, <1>3, <2>2, <2>4 DEF WriteCopy, WorkInv, WorkerTypeOK, JobOK, Moving, Job
  <2>6. admitted' \in [Msg -> Nat]
    BY <1>1, <1>3 DEF WriteCopy, WorkInv, WorkerTypeOK
  <2>7. QED BY <1>3, <2>1, <2>4, <2>5, <2>6 DEF WriteCopy, WorkInv, FilesTypeOK,
               WorkerTypeOK, ownerVars
<1>4. CASE UnlinkSource(w)
  <2>1. box' \in [Dirs \X Name -> Stamp \cup {NoFile}]
    BY <1>1, <1>4, UnlinkFile DEF UnlinkSource, WorkInv, FilesTypeOK, Dirs
  <2>2. \/ job' = [job EXCEPT ![w] = [j EXCEPT !.step = "report"]]
        \/ job' = [job EXCEPT ![w] = Idle]
    BY <1>4 DEF UnlinkSource
  <2>3. [j EXCEPT !.step = "report"] \in Job
    BY <1>1 DEF Job, Step
  <2>4. job' \in [Worker -> Job]
    BY <1>2, <2>2, <2>3 DEF WorkInv, WorkerTypeOK
  <2>5. JobOK'
    BY <1>1, <1>4, <2>2, <2>4 DEF UnlinkSource, WorkInv, WorkerTypeOK, JobOK,
       Moving, Job, Idle
  <2>6. QED BY <1>4, <2>1, <2>4, <2>5 DEF UnlinkSource, WorkInv, FilesTypeOK,
               WorkerTypeOK, ownerVars
<1>5. CASE Report(w)
  <2>1. log(EventOf(j.dir), j.name, {})
    BY <1>5 DEF Report
  <2>2. journal' \subseteq validEvents \X Msg
    BY <1>1, <2>1, LogType DEF WorkInv, FilesTypeOK
  <2>3. job' \in [Worker -> Job] /\ JobOK'
    BY <1>2, <1>5 DEF Report, WorkInv, WorkerTypeOK, JobOK, Moving, Idle
  <2>4. nacked' \subseteq Msg
    BY <1>1, <1>5 DEF Report, WorkInv, WorkerTypeOK
  <2>5. QED BY <1>5, <2>2, <2>3, <2>4 DEF Report, WorkInv, FilesTypeOK,
               WorkerTypeOK, ownerVars
<1>6. CASE MoveFile(w)
  <2>1. box' \in [Dirs \X Name -> Stamp \cup {NoFile}]
    BY <1>1, <1>6, RenameIfThere DEF MoveFile, WorkInv, Dirs
  <2>2. job' \in [Worker -> Job] /\ JobOK'
    BY <1>2, <1>6 DEF MoveFile, WorkInv, WorkerTypeOK, JobOK, Moving, Idle
  <2>3. QED BY <1>6, <2>1, <2>2 DEF MoveFile, WorkInv, FilesTypeOK,
               WorkerTypeOK, ownerVars
<1>7. QED BY <1>3, <1>4, <1>5, <1>6

LEMMA WorkStep == WorkInv /\ (WorkerNext \/ OwnerAges) => WorkInv'
<1>1. WorkInv /\ OwnerAges => WorkInv'
  BY DEF OwnerAges, OwnerClaimAges, WorkInv, FilesTypeOK, WorkerTypeOK, JobOK
<1>2. WorkInv /\ WorkerNext => WorkInv'
  BY WorkOwner, WorkRead, WorkMove DEF WorkerNext, WorkerStep
<1>3. QED BY <1>1, <1>2

-----------------------------------------------------------------------------
(* Type correctness of the lane. *)

LaneInv == TypeOK /\ JobOK /\ ExecOK

LEMMA LaneInit == Init => LaneInv
<1> SUFFICES ASSUME Init PROVE LaneInv
  OBVIOUS
<1>1. FilesTypeOK
  BY DEF Init, FilesTypeOK
<1>2. WorkerTypeOK /\ JobOK
  <2>1. 0 \in Stamp
    BY LaneFilesAssumption DEF Stamp
  <2>2. Idle \in Job
    BY DEF Idle, Job, Step, Dirs
  <2>3. job = [w \in Worker |-> Idle]
    BY DEF Init, WorkerInit
  <2>4. JobOK
    BY <2>3 DEF JobOK, Moving, Idle
  <2>5. WorkerTypeOK
    BY <2>1, <2>2 DEF Init, WorkerInit, WorkerTypeOK
  <2>6. QED BY <2>4, <2>5
<1>3. ExecutorTypeOK /\ ExecOK
  BY LaneExecutorAssumption DEF Init, ExecutorInit, ExecutorTypeOK, ExecOK, Phase
<1>4. QED BY <1>1, <1>2, <1>3, LanePipelineAssumption DEF Init, LaneInv, TypeOK

LEMMA LaneStep == LaneInv /\ [Next]_vars => LaneInv'
<1> SUFFICES ASSUME LaneInv, [Next]_vars PROVE LaneInv'
  OBVIOUS
<1> USE DEF LaneInv, TypeOK
<1>1. CASE \E m \in Msg : Deliver(m)
  <2>1. PICK m \in Msg : Deliver(m)
    BY <1>1
  <2>2. <<m, 0>> \in Name /\ 0 \in Stamp
    BY LaneFilesAssumption DEF Name, Stamp
  <2>3. box' \in [Dirs \X Name -> Stamp \cup {NoFile}]
    BY <2>1, <2>2, WriteFile DEF Deliver, Dirs
  <2>4. delivered' \in [Msg -> 0..MaxDeliver]
    BY <2>1, LanePipelineAssumption DEF Deliver
  <2>5. QED BY <2>1, <2>3, <2>4 DEF Deliver, FilesTypeOK, WorkerTypeOK,
               ExecutorTypeOK, JobOK, ExecOK, workerVars, ownerVars, executorVars
<1>2. CASE \E n \in Name : Reap(n)
  <2>1. PICK n \in Name : Reap(n)
    BY <1>2
  <2>2. box' \in [Dirs \X Name -> Stamp \cup {NoFile}]
    BY <2>1, RenameFile DEF Reap, Dirs
  <2>3. requeued' \in [Msg -> 0..MaxRequeue]
    BY <2>1, NameType, LanePipelineAssumption DEF Reap
  <2>4. QED BY <2>1, <2>2, <2>3 DEF Reap, FilesTypeOK, WorkerTypeOK,
               ExecutorTypeOK, JobOK, ExecOK, workerVars, ownerVars, executorVars
<1>3. CASE \E w \in Worker : Stop(w)
  <2>1. PICK w \in Worker : Stop(w)
    BY <1>3
  <2>2. WorkInv'
    BY <2>1, WorkOwner DEF Stop, WorkInv
  <2>3. stops' \in 0..MaxStops
    BY <2>1, LanePipelineAssumption DEF Stop
  <2>4. QED BY <2>1, <2>2, <2>3 DEF Stop, WorkInv, ExecutorTypeOK, ExecOK,
               executorVars
<1>4. CASE WorkerNext \/ OwnerAges
  <2>1. WorkInv'
    BY <1>4, WorkStep DEF WorkInv
  <2>2. UNCHANGED <<executorVars, laneVars>>
    BY <1>4 DEF WorkerNext, OwnerAges
  <2>3. QED BY <2>1, <2>2 DEF WorkInv, ExecutorTypeOK, ExecOK, executorVars, laneVars
<1>5. CASE ExecutorNext
  <2>1. ExecInv'
    BY <1>5, ExecStep DEF ExecInv
  <2>2. UNCHANGED <<workerVars, laneVars>>
    BY <1>5 DEF ExecutorNext
  <2>3. QED BY <2>1, <2>2 DEF ExecInv, WorkerTypeOK, JobOK, workerVars, ownerVars,
               laneVars
<1>6. CASE UNCHANGED vars
  BY <1>6 DEF vars, FilesTypeOK, WorkerTypeOK, ExecutorTypeOK, JobOK, ExecOK,
     workerVars, ownerVars, executorVars, laneVars
<1>7. QED BY <1>1, <1>2, <1>3, <1>4, <1>5, <1>6 DEF Next

(* The variables keep their types however many processes run and fail.       *)
THEOREM TypeCorrect == Spec => []TypeOK
<1>1. LaneInv => TypeOK
  BY DEF LaneInv
<1>2. QED BY <1>1, LaneInit, LaneStep, PTL DEF Spec

-----------------------------------------------------------------------------
(* No message is lost. A message is somewhere outside the inbox as soon as   *)
(* one copy of it is written there, and nobody but the reaper takes it back: *)
(* so the worker that unlinks its source leaves a copy behind.               *)

Elsewhere(m) ==
  \E d \in Dirs \ {"inbox"}, n \in Name : messageOf(n) = m /\ exists(d, n)

Present(m) ==
  Elsewhere(m) \/ \E n \in Name : messageOf(n) = m /\ exists("inbox", n)

(* The step moves files out of the inbox or adds files, and removes none.    *)
Keeps ==
  \A m \in Msg : (Elsewhere(m) => Elsewhere(m)') /\ (Present(m) => Present(m)')

LEMMA PresentHasLocation ==
  ASSUME NEW m, Present(m)
  PROVE  locations(m) # {}
<1>1. PICK d \in Dirs, n \in Name : messageOf(n) = m /\ exists(d, n)
  BY DEF Present, Elsewhere, Dirs
<1>2. <<d, n>> \in locations(m)
  BY <1>1 DEF locations, exists
<1>3. QED BY <1>2

LEMMA RenameKeeps ==
  ASSUME FilesTypeOK, NEW d \in Dirs, NEW n \in Name,
         NEW e \in Dirs \ {"inbox"}, NEW k \in Name, messageOf(k) = messageOf(n),
         rename(d, n, e, k)
  PROVE  Keeps
<1>1. \A c \in Dirs, i \in Name :
        box'[<<c, i>>] = IF c = e /\ i = k THEN box[<<d, n>>]
                         ELSE IF c = d /\ i = n THEN NoFile
                         ELSE box[<<c, i>>]
  BY DEF rename, FilesTypeOK
<1>2. exists(e, k)' /\ exists(d, n)
  BY <1>1 DEF exists, rename
<1>3. \A c \in Dirs, i \in Name :
        exists(c, i) /\ ~(c = d /\ i = n) => exists(c, i)'
  BY <1>1, <1>2 DEF exists
<1>4. Elsewhere(messageOf(n))'
  BY <1>2 DEF Elsewhere
<1>5. ASSUME NEW m \in Msg, Elsewhere(m) PROVE Elsewhere(m)'
  <2>1. CASE m = messageOf(n)
    BY <1>4, <2>1
  <2>2. CASE m # messageOf(n)
    BY <1>3, <1>5, <2>2 DEF Elsewhere
  <2>3. QED BY <2>1, <2>2
<1>6. ASSUME NEW m \in Msg, Present(m) PROVE Present(m)'
  <2>1. CASE m = messageOf(n)
    BY <1>4, <2>1 DEF Present
  <2>2. CASE m # messageOf(n)
    <3>1. "inbox" \in Dirs
      BY DEF Dirs
    <3>2. QED BY <1>3, <1>5, <1>6, <2>2, <3>1 DEF Present
  <2>3. QED BY <2>1, <2>2
<1>7. QED BY <1>5, <1>6 DEF Keeps

LEMMA WriteKeeps ==
  ASSUME FilesTypeOK, NEW d \in Dirs, NEW n \in Name, NEW s \in Stamp,
         write(d, n, s)
  PROVE  Keeps /\ exists(d, n)' /\ Present(messageOf(n))'
<1>1. \A e \in Dirs, k \in Name :
        box'[<<e, k>>] = IF e = d /\ k = n THEN s ELSE box[<<e, k>>]
  BY DEF write, FilesTypeOK
<1>2. s # NoFile
  BY LaneFilesAssumption DEF Stamp, NoFile
<1>3. exists(d, n)'
  BY <1>1, <1>2 DEF exists
<1>4. \A e \in Dirs, k \in Name : exists(e, k) => exists(e, k)'
  BY <1>1, <1>2 DEF exists
<1>5. "inbox" \in Dirs
  BY DEF Dirs
<1>6. Keeps
  BY <1>4, <1>5 DEF Keeps, Elsewhere, Present
<1>7. Present(messageOf(n))'
  BY <1>3 DEF Present, Elsewhere
<1>8. QED BY <1>3, <1>6, <1>7

LEMMA SameBoxKeeps ==
  ASSUME UNCHANGED box
  PROVE  Keeps
BY DEF Keeps, Elsewhere, Present, exists

(* Executors rename within the lane and never into the inbox. *)
LEMMA ExecutorKeeps ==
  ASSUME ExecInv, ExecutorNext
  PROVE  Keeps
<1>1. PICK x \in Executor :
        \/ ExecutorProgress(x) \/ Throws(x) \/ Crash(x)
        \/ \E n \in Name : WatcherBlock(x, n) \/ AutonomousExpire(x, n)
  BY DEF ExecutorNext
<1>2. ASSUME NEW n \in Name,
             Take(x, n) \/ WatcherBlock(x, n) \/ AutonomousHold(x, n)
      PROVE  Keeps
  <2>1. PICK e \in {"in-progress", "blocked"} :
          rename("action-required", n, e, n) \/ UNCHANGED box
    BY <1>2 DEF Take, WatcherBlock, AutonomousHold
  <2>2. QED BY <2>1, RenameKeeps, SameBoxKeeps DEF ExecInv, Dirs
<1>3. CASE AutonomousReturn(x) \/ AutonomousReject(x)
  <2>1. own[x] \in Name
    BY <1>3 DEF ExecInv, ExecOK, AutonomousReturn, AutonomousReject
  <2>2. PICK e \in {"action-required", "quarantine"} :
          rename("in-progress", own[x], e, own[x]) \/ UNCHANGED box
    BY <1>3 DEF AutonomousReturn, AutonomousReject
  <2>3. QED BY <2>1, <2>2, RenameKeeps, SameBoxKeeps DEF ExecInv, Dirs
<1>4. CASE FinishTask(x)
  <2>1. cur[x] \in Name
    BY <1>4 DEF ExecInv, ExecOK, FinishTask
  <2>2. rename("in-progress", cur[x], "processed", cur[x]) \/ UNCHANGED box
    BY <1>4 DEF FinishTask
  <2>3. QED BY <2>1, <2>2, RenameKeeps, SameBoxKeeps DEF ExecInv, Dirs
<1>5. CASE AutonomousClose(x)
  <2>1. own[x] \in Name
    BY <1>5 DEF ExecInv, ExecOK, AutonomousClose
  <2>2. PICK k \in uniquePath("processed", own[x]) :
          rename("in-progress", own[x], "processed", k) \/ UNCHANGED box
    BY <1>5 DEF AutonomousClose
  <2>3. QED BY <2>1, <2>2, UniquePath, RenameKeeps, SameBoxKeeps DEF ExecInv, Dirs
<1>6. ASSUME NEW n \in Name, AutonomousExpire(x, n) PROVE Keeps
  <2>1. PICK k \in uniquePath("processed", n) :
          rename("action-required", n, "processed", k)
    BY <1>6 DEF AutonomousExpire
  <2>2. QED BY <2>1, UniquePath, RenameKeeps DEF ExecInv, Dirs
<1>7. CASE UNCHANGED box
  BY <1>7, SameBoxKeeps
<1>8. QED BY <1>1, <1>2, <1>3, <1>4, <1>5, <1>6, <1>7 DEF ExecutorProgress,
             RunGeneric, AutonomousRun, StartRun, Execute, DeliverResponse, EndRun,
             WatcherClose, WatcherRun, Throws, Crash

(* The copy of a file whose source is about to be unlinked. *)
CopyKept ==
  \A w \in Worker, m \in Msg :
    /\ job[w].step = "unlink" /\ messageOf(job[w].name) = m
    /\ requeued[m] = 0
    => Elsewhere(m)

Kept ==
  \A m \in Msg : delivered[m] > 0 /\ requeued[m] = 0 => Present(m)

KeepInv == CopyKept /\ Kept

(* A step that keeps the files and brings no worker to its unlink.           *)
LEMMA KeepsMeans ==
  ASSUME KeepInv, Keeps, UNCHANGED laneVars,
         \A w \in Worker : job'[w].step = "unlink" => job'[w] = job[w]
  PROVE  KeepInv'
<1>1. Kept'
  BY DEF KeepInv, Kept, Keeps, laneVars
<1>2. ASSUME NEW w \in Worker, NEW m \in Msg, job'[w].step = "unlink",
             messageOf(job'[w].name) = m, requeued'[m] = 0
      PROVE  Elsewhere(m)'
  <2>1. /\ job[w].step = "unlink" /\ messageOf(job[w].name) = m
        /\ requeued[m] = 0
    BY <1>2 DEF laneVars
  <2>2. QED BY <2>1 DEF KeepInv, CopyKept, Keeps
<1>3. QED BY <1>1, <1>2 DEF KeepInv, CopyKept

LEMMA WriteCopyKeeps ==
  ASSUME LaneInv, KeepInv, NEW w \in Worker, UNCHANGED laneVars, WriteCopy(w)
  PROVE  KeepInv'
<1>1. PICK j \in Job : j = job[w]
  BY DEF LaneInv, TypeOK, WorkerTypeOK
<1>2. /\ j.dir \in Dirs \ {"inbox"} /\ j.to \in Name /\ j.name \in Name
      /\ messageOf(j.to) = messageOf(j.name)
  BY <1>1 DEF WriteCopy, LaneInv, JobOK, Moving, Job
<1>3. PICK s \in Stamp : s = session[w]
  BY DEF LaneInv, TypeOK, WorkerTypeOK
<1>4. write(j.dir, j.to, s)
  BY <1>1, <1>3 DEF WriteCopy, write
<1>5. Keeps /\ exists(j.dir, j.to)'
  BY <1>2, <1>4, WriteKeeps DEF LaneInv, TypeOK
<1>6. Elsewhere(messageOf(j.name))'
  BY <1>2, <1>5 DEF Elsewhere
<1>7. job' = [job EXCEPT ![w] = [j EXCEPT !.step = "unlink"]]
  BY <1>1 DEF WriteCopy
<1>8. Kept'
  BY <1>5 DEF KeepInv, Kept, Keeps, laneVars
<1>9. ASSUME NEW v \in Worker, NEW m \in Msg, job'[v].step = "unlink",
             messageOf(job'[v].name) = m, requeued'[m] = 0
      PROVE  Elsewhere(m)'
  <2>1. CASE v = w
    <3>1. m = messageOf(j.name)
      BY <1>7, <1>9, <2>1 DEF LaneInv, TypeOK, WorkerTypeOK, Job
    <3>2. QED BY <1>6, <3>1
  <2>2. CASE v # w
    <3>1. job'[v] = job[v]
      BY <1>7, <2>2 DEF LaneInv, TypeOK, WorkerTypeOK
    <3>2. Elsewhere(m)
      BY <1>9, <3>1 DEF KeepInv, CopyKept, laneVars
    <3>3. QED BY <1>5, <3>2 DEF Keeps
  <2>3. QED BY <2>1, <2>2
<1>10. QED BY <1>8, <1>9 DEF KeepInv, CopyKept

(* The unlink takes the message from the inbox only, and it has a copy.      *)
LEMMA UnlinkSourceKeeps ==
  ASSUME LaneInv, KeepInv, NEW w \in Worker, UNCHANGED laneVars, UnlinkSource(w)
  PROVE  KeepInv'
<1>1. PICK j \in Job : j = job[w]
  BY DEF LaneInv, TypeOK, WorkerTypeOK
<1>2. j.step = "unlink" /\ j.name \in Name /\ messageOf(j.name) \in Msg
  BY <1>1, NameType DEF UnlinkSource, LaneInv, JobOK, Moving
<1>3. unlink("inbox", j.name) \/ UNCHANGED box
  BY <1>1 DEF UnlinkSource, unlink
<1>4. \A d \in Dirs, n \in Name :
        ~(d = "inbox" /\ n = j.name) /\ exists(d, n) => exists(d, n)'
  BY <1>3 DEF unlink, exists, LaneInv, TypeOK, FilesTypeOK
<1>5. \A m \in Msg : Elsewhere(m) => Elsewhere(m)'
  BY <1>4 DEF Elsewhere
<1>6. ASSUME NEW m \in Msg, delivered[m] > 0, requeued[m] = 0
      PROVE  Present(m)'
  <2>1. Present(m)
    BY <1>6 DEF KeepInv, Kept
  <2>2. CASE m = messageOf(j.name)
    <3>1. Elsewhere(m)
      BY <1>1, <1>2, <1>6, <2>2 DEF KeepInv, CopyKept
    <3>2. QED BY <1>5, <3>1 DEF Present
  <2>3. CASE m # messageOf(j.name)
    <3>1. "inbox" \in Dirs
      BY DEF Dirs
    <3>2. QED BY <1>4, <1>5, <2>1, <2>3, <3>1 DEF Present
  <2>4. QED BY <2>2, <2>3
<1>7. Kept'
  BY <1>6 DEF Kept, laneVars
<1>8. \A v \in Worker : job'[v].step = "unlink" => job'[v] = job[v]
  <2>1. \/ job' = [job EXCEPT ![w] = [j EXCEPT !.step = "report"]]
        \/ job' = [job EXCEPT ![w] = Idle]
    BY <1>1 DEF UnlinkSource
  <2>2. QED BY <2>1 DEF LaneInv, TypeOK, WorkerTypeOK, Idle, Job
<1>9. ASSUME NEW v \in Worker, NEW m \in Msg, job'[v].step = "unlink",
             messageOf(job'[v].name) = m, requeued'[m] = 0
      PROVE  Elsewhere(m)'
  <2>1. /\ job[v].step = "unlink" /\ messageOf(job[v].name) = m
        /\ requeued[m] = 0
    BY <1>8, <1>9 DEF laneVars
  <2>2. QED BY <1>5, <2>1 DEF KeepInv, CopyKept
<1>10. QED BY <1>7, <1>9 DEF KeepInv, CopyKept

LEMMA MoveFileKeeps ==
  ASSUME LaneInv, NEW w \in Worker, MoveFile(w)
  PROVE  Keeps
<1>1. PICK j \in Job : j = job[w]
  BY DEF LaneInv, TypeOK, WorkerTypeOK
<1>2. /\ j.dir \in Dirs \ {"inbox"} /\ j.to \in Name /\ j.name \in Name
      /\ messageOf(j.to) = messageOf(j.name) /\ "inbox" \in Dirs
  BY <1>1 DEF MoveFile, LaneInv, JobOK, Moving, Job, Dirs
<1>3. rename("inbox", j.name, j.dir, j.to) \/ UNCHANGED box
  BY <1>1 DEF MoveFile, rename
<1>4. QED BY <1>2, <1>3, RenameKeeps, SameBoxKeeps DEF LaneInv, TypeOK

LEMMA WorkerKeeps ==
  ASSUME LaneInv, KeepInv, NEW w \in Worker, UNCHANGED laneVars,
         StartWorker(w) \/ WorkerStep(w)
  PROVE  KeepInv'
<1>1. CASE WriteCopy(w)
  BY <1>1, WriteCopyKeeps
<1>2. CASE UnlinkSource(w)
  BY <1>2, UnlinkSourceKeeps
<1>3. CASE ~WriteCopy(w) /\ ~UnlinkSource(w)
  <2>1. Keeps
    BY <1>3, MoveFileKeeps, SameBoxKeeps DEF StartWorker, ClaimActiveOwner,
       ListInbox, ReadFile, Report, WorkerStep
  <2>2. ASSUME NEW v \in Worker, job'[v].step = "unlink"
        PROVE  job'[v] = job[v]
    <3>1. /\ \A u \in Worker \ {w} : job'[u] = job[u]
          /\ job'[w].step # "unlink" \/ job'[w] = job[w]
      <4>1. CASE \E n \in Name : ReadFile(w, n)
        <5>1. PICK n \in Name : ReadFile(w, n)
          BY <4>1
        <5>2. CASE exists("inbox", n) /\ Disposition(w, n).step # "leave"
          <6>1. PICK k : job' = [job EXCEPT ![w] =
                                   [step |-> Disposition(w, n).step, name |-> n,
                                    dir |-> Disposition(w, n).dir, to |-> k]]
            BY <5>1, <5>2 DEF ReadFile
          <6>2. Disposition(w, n).step # "unlink"
            BY <5>2, DispositionType
          <6>3. QED BY <6>1, <6>2 DEF LaneInv, TypeOK, WorkerTypeOK
        <5>3. CASE UNCHANGED job
          BY <5>3
        <5>4. QED BY <5>1, <5>2, <5>3 DEF ReadFile
      <4>2. CASE StartWorker(w)
        <5>1. PICK s \in {"claim", "idle"} :
                job' = [job EXCEPT ![w] = [Idle EXCEPT !.step = s]]
          BY <4>2 DEF StartWorker
        <5>2. [Idle EXCEPT !.step = s].step = s
          BY DEF Idle
        <5>3. QED BY <5>1, <5>2 DEF LaneInv, TypeOK, WorkerTypeOK
      <4>3. CASE ClaimActiveOwner(w) \/ Report(w) \/ MoveFile(w)
        <5>1. job' = [job EXCEPT ![w] = Idle]
          BY <4>3 DEF ClaimActiveOwner, Report, MoveFile
        <5>2. Idle.step # "unlink"
          BY DEF Idle
        <5>3. QED BY <5>1, <5>2 DEF LaneInv, TypeOK, WorkerTypeOK
      <4>4. CASE ListInbox(w)
        BY <4>4 DEF ListInbox
      <4>5. QED BY <1>3, <4>1, <4>2, <4>3, <4>4 DEF WorkerStep
    <3>2. QED BY <2>2, <3>1
  <2>3. QED BY <2>1, <2>2, KeepsMeans
<1>4. QED BY <1>1, <1>2, <1>3

LEMMA DeliverKeeps ==
  ASSUME LaneInv, KeepInv, NEW m \in Msg, Deliver(m)
  PROVE  KeepInv'
<1>1. <<m, 0>> \in Name /\ 0 \in Stamp /\ messageOf(<<m, 0>>) = m
  BY LaneFilesAssumption DEF Name, Stamp, messageOf
<1>2. Keeps /\ Present(messageOf(<<m, 0>>))'
  BY <1>1, WriteKeeps DEF Deliver, LaneInv, TypeOK, Dirs
<1>3. Kept'
  BY <1>1, <1>2 DEF KeepInv, Kept, Keeps, Deliver, LaneInv, TypeOK
<1>4. CopyKept'
  BY <1>2 DEF KeepInv, CopyKept, Keeps, Deliver, workerVars
<1>5. QED BY <1>3, <1>4 DEF KeepInv

(* The reaper keeps what it does not put back. *)
LEMMA ReapKeeps ==
  ASSUME LaneInv, KeepInv, NEW n \in Name, Reap(n)
  PROVE  KeepInv'
<1>1. CASE rename("quarantine", n, "archive", n) /\ UNCHANGED requeued
  <2>1. Keeps
    BY <1>1, RenameKeeps DEF LaneInv, TypeOK, Dirs
  <2>2. UNCHANGED <<job, laneVars>>
    BY <1>1 DEF Reap, workerVars, laneVars
  <2>3. QED BY <2>1, <2>2, KeepsMeans
<1>2. CASE /\ rename("quarantine", n, "inbox", n)
           /\ requeued' = [requeued EXCEPT ![messageOf(n)] = @ + 1]
  <2>1. \A m \in Msg : requeued'[m] = 0 => requeued[m] = 0 /\ m # messageOf(n)
    BY <1>2, NameType DEF LaneInv, TypeOK
  <2>2. \A d \in Dirs, k \in Name :
          messageOf(k) # messageOf(n) => (exists(d, k) <=> exists(d, k)')
    BY <1>2 DEF rename, exists, LaneInv, TypeOK, FilesTypeOK
  <2>3. \A m \in Msg : m # messageOf(n) => (Elsewhere(m) => Elsewhere(m)')
    BY <2>2 DEF Elsewhere
  <2>4. "inbox" \in Dirs
    BY DEF Dirs
  <2>5. \A m \in Msg : m # messageOf(n) => (Present(m) => Present(m)')
    BY <2>2, <2>3, <2>4 DEF Present
  <2>6. UNCHANGED <<job, delivered>>
    BY <1>2 DEF Reap, workerVars
  <2>7. Kept'
    BY <2>1, <2>5, <2>6 DEF KeepInv, Kept
  <2>8. CopyKept'
    BY <2>1, <2>3, <2>6 DEF KeepInv, CopyKept
  <2>9. QED BY <2>7, <2>8 DEF KeepInv
<1>3. QED BY <1>1, <1>2 DEF Reap

LEMMA KeepStep == LaneInv /\ KeepInv /\ [Next]_vars => KeepInv'
<1> SUFFICES ASSUME LaneInv, KeepInv, [Next]_vars PROVE KeepInv'
  OBVIOUS
<1>1. CASE ExecutorNext
  <2>1. Keeps
    BY <1>1, ExecutorKeeps DEF LaneInv, TypeOK, ExecInv
  <2>2. UNCHANGED <<job, laneVars>>
    BY <1>1 DEF ExecutorNext, workerVars
  <2>3. QED BY <2>1, <2>2, KeepsMeans
<1>2. CASE WorkerNext
  BY <1>2, WorkerKeeps DEF WorkerNext
<1>3. CASE OwnerAges \/ UNCHANGED vars
  <2>1. UNCHANGED <<box, job, laneVars>>
    BY <1>3 DEF OwnerAges, OwnerClaimAges, vars, workerVars
  <2>2. QED BY <2>1, SameBoxKeeps, KeepsMeans
<1>4. CASE \E w \in Worker : Stop(w)
  <2>1. PICK w \in Worker : Stop(w)
    BY <1>4
  <2>2. Keeps /\ UNCHANGED <<delivered, requeued>>
    BY <2>1, SameBoxKeeps DEF Stop, StopWorker
  <2>3. Kept'
    BY <2>2 DEF KeepInv, Kept, Keeps
  <2>4. job' = [job EXCEPT ![w] = Idle] /\ Idle.step # "unlink"
    BY <2>1 DEF Stop, StopWorker, Idle
  <2>5. \A v \in Worker : job'[v].step = "unlink" => job'[v] = job[v]
    BY <2>4 DEF LaneInv, TypeOK, WorkerTypeOK
  <2>6. CopyKept'
    BY <2>2, <2>5 DEF KeepInv, CopyKept, Keeps
  <2>7. QED BY <2>3, <2>6 DEF KeepInv
<1>5. CASE \E m \in Msg : Deliver(m)
  BY <1>5, DeliverKeeps
<1>6. CASE \E n \in Name : Reap(n)
  BY <1>6, ReapKeeps
<1>7. QED BY <1>1, <1>2, <1>3, <1>4, <1>5, <1>6 DEF Next

(* Every message that arrived and that the reaper has not put back is still  *)
(* in some directory, whatever crashes and races (lane-worker.js 1067-1072). *)
THEOREM NothingIsLost == Spec => []NoMessageLost
<1>1. Init => KeepInv
  BY DEF Init, WorkerInit, KeepInv, Kept, CopyKept, Idle
<1>2. KeepInv => NoMessageLost
  BY PresentHasLocation DEF KeepInv, Kept, NoMessageLost
<1>3. QED BY <1>1, <1>2, KeepStep, LaneInit, LaneStep, PTL DEF Spec

-----------------------------------------------------------------------------
(* Only admitted work is executed. What lies in action-required, what an     *)
(* executor holds and what it works on was sent there by decideRoute.        *)

AdmittedTask(n) == queueOf(messageOf(n)) = "actionRequired"

AdmitInv ==
  /\ \A n \in Name : exists("action-required", n) => AdmittedTask(n)
  /\ \A x \in Executor, n \in Name : own[x] = n \/ cur[x] = n => AdmittedTask(n)
  /\ OnlyAdmittedExecuted

(* A step that brings nothing to action-required and changes no executor.    *)
AddsNoTask ==
  \A n \in Name : exists("action-required", n)' => exists("action-required", n)

LEMMA AddsNoTaskMeans ==
  ASSUME AdmitInv, AddsNoTask, UNCHANGED <<own, cur, executed>>
  PROVE  AdmitInv'
BY DEF AdmitInv, AddsNoTask, AdmittedTask, OnlyAdmittedExecuted

LEMMA SameBoxAddsNoTask ==
  ASSUME UNCHANGED box
  PROVE  AddsNoTask
BY DEF AddsNoTask, exists

LEMMA RenameAddsNoTask ==
  ASSUME FilesTypeOK, NEW d \in Dirs, NEW n \in Name,
         NEW e \in Dirs \ {"action-required"}, NEW k \in Name, rename(d, n, e, k)
  PROVE  AddsNoTask
<1>1. "action-required" \in Dirs
  BY DEF Dirs
<1>2. QED BY <1>1 DEF AddsNoTask, rename, exists, FilesTypeOK

LEMMA WriteAddsTask ==
  ASSUME FilesTypeOK, NEW d \in Dirs, NEW n \in Name, NEW s \in Stamp,
         write(d, n, s)
  PROVE  \A k \in Name : exists("action-required", k)' =>
           exists("action-required", k) \/ (d = "action-required" /\ k = n)
<1>1. "action-required" \in Dirs
  BY DEF Dirs
<1>2. QED BY <1>1 DEF write, exists, FilesTypeOK

LEMMA WorkerAdmits ==
  ASSUME LaneInv, AdmitInv, NEW w \in Worker, UNCHANGED executorVars,
         StartWorker(w) \/ WorkerStep(w) \/ StopWorker(w)
  PROVE  AdmitInv'
<1>1. UNCHANGED <<own, cur, executed>>
  BY DEF executorVars
<1>2. PICK j \in Job : j = job[w]
  BY DEF LaneInv, TypeOK, WorkerTypeOK
<1>3. CASE WriteCopy(w)
  <2>1. /\ j.dir \in Dirs /\ j.to \in Name
        /\ j.dir = "action-required" => AdmittedTask(j.to)
    BY <1>2, <1>3 DEF WriteCopy, LaneInv, JobOK, Moving, Job, AdmittedTask
  <2>2. PICK s \in Stamp : s = session[w]
    BY DEF LaneInv, TypeOK, WorkerTypeOK
  <2>3. write(j.dir, j.to, s)
    BY <1>2, <1>3, <2>2 DEF WriteCopy, write
  <2>4. \A k \in Name : exists("action-required", k)' => AdmittedTask(k)
    BY <2>1, <2>3, WriteAddsTask DEF AdmitInv, LaneInv, TypeOK
  <2>5. QED BY <1>1, <2>4 DEF AdmitInv, AdmittedTask, OnlyAdmittedExecuted
<1>4. CASE MoveFile(w)
  <2>1. j.name \in Name /\ j.to \in Name /\ j.dir \in Dirs
    BY <1>2, <1>4 DEF MoveFile, LaneInv, JobOK, Moving, Job
  <2>2. rename("inbox", j.name, j.dir, j.to) \/ UNCHANGED box
    BY <1>2, <1>4 DEF MoveFile, rename
  <2>3. CASE j.dir # "action-required"
    <3>1. AddsNoTask
      BY <2>1, <2>2, <2>3, RenameAddsNoTask, SameBoxAddsNoTask
         DEF LaneInv, TypeOK, Dirs
    <3>2. QED BY <1>1, <3>1, AddsNoTaskMeans
  <2>4. CASE j.dir = "action-required"
    <3>1. AdmittedTask(j.to)
      BY <1>2, <1>4, <2>4 DEF MoveFile, LaneInv, JobOK, Moving, AdmittedTask
    <3>2. "action-required" \in Dirs
      BY DEF Dirs
    <3>3. \A k \in Name : exists("action-required", k)' => AdmittedTask(k)
      BY <2>1, <2>2, <2>4, <3>1, <3>2 DEF AdmitInv, rename, exists, LaneInv,
         TypeOK, FilesTypeOK
    <3>4. QED BY <1>1, <3>3 DEF AdmitInv, AdmittedTask, OnlyAdmittedExecuted
  <2>5. QED BY <2>3, <2>4
<1>5. CASE UnlinkSource(w)
  <2>1. unlink("inbox", j.name) \/ UNCHANGED box
    BY <1>2, <1>5 DEF UnlinkSource, unlink
  <2>2. j.name \in Name /\ {"inbox", "action-required"} \subseteq Dirs
    BY <1>2, <1>5 DEF UnlinkSource, LaneInv, JobOK, Moving, Dirs
  <2>3. AddsNoTask
    BY <2>1, <2>2 DEF AddsNoTask, unlink, exists, LaneInv, TypeOK, FilesTypeOK
  <2>4. QED BY <1>1, <2>3, AddsNoTaskMeans
<1>6. CASE UNCHANGED box
  BY <1>1, <1>6, SameBoxAddsNoTask, AddsNoTaskMeans
<1>7. QED BY <1>3, <1>4, <1>5, <1>6 DEF WorkerStep, StartWorker, StopWorker,
             ClaimActiveOwner, ListInbox, ReadFile, Report

LEMMA ExecutorAdmits ==
  ASSUME LaneInv, AdmitInv, ExecutorNext
  PROVE  AdmitInv'
<1>1. PICK x \in Executor :
        \/ ExecutorProgress(x) \/ Throws(x) \/ Crash(x)
        \/ \E n \in Name : WatcherBlock(x, n) \/ AutonomousExpire(x, n)
  BY DEF ExecutorNext
<1> USE DEF LaneInv, TypeOK, ExecutorTypeOK
<1>2. NoName \notin Name
  BY NoNameAssumption
<1>3. ASSUME NEW n \in Name, Take(x, n) \/ AutonomousHold(x, n) PROVE AdmitInv'
  <2>1. rename("action-required", n, "in-progress", n) \/ UNCHANGED box
    BY <1>3 DEF Take, AutonomousHold
  <2>2. AddsNoTask
    BY <2>1, RenameAddsNoTask, SameBoxAddsNoTask DEF Dirs
  <2>3. \/ UNCHANGED <<own, cur>>
        \/ exists("action-required", n) /\ cur' = [cur EXCEPT ![x] = n] /\ own' = own
        \/ exists("action-required", n) /\ own' = [own EXCEPT ![x] = n] /\ cur' = cur
    BY <1>3 DEF Take, AutonomousHold, rename
  <2>4. \A y \in Executor, i \in Name : own'[y] = i \/ cur'[y] = i => AdmittedTask(i)
    BY <2>3 DEF AdmitInv
  <2>5. executed' = executed
    BY <1>3 DEF Take, AutonomousHold
  <2>6. QED BY <2>2, <2>4, <2>5 DEF AdmitInv, AddsNoTask, AdmittedTask,
               OnlyAdmittedExecuted
<1>4. ASSUME NEW n \in Name, WatcherBlock(x, n) \/ AutonomousExpire(x, n)
      PROVE  AdmitInv'
  <2>1. PICK e \in {"blocked", "processed"}, k \in Name :
          rename("action-required", n, e, k)
    BY <1>4, UniquePath DEF WatcherBlock, AutonomousExpire, Dirs
  <2>2. AddsNoTask
    BY <2>1, RenameAddsNoTask DEF Dirs
  <2>3. UNCHANGED <<own, cur, executed>>
    BY <1>4 DEF WatcherBlock, AutonomousExpire, executorVars
  <2>4. QED BY <2>2, <2>3, AddsNoTaskMeans
<1>5. CASE AutonomousReturn(x)
  <2>1. PICK n \in Name : n = own[x]
    BY <1>5 DEF AutonomousReturn, ExecOK
  <2>2. AdmittedTask(n)
    BY <2>1 DEF AdmitInv
  <2>3. rename("in-progress", n, "action-required", n) \/ UNCHANGED box
    BY <1>5, <2>1 DEF AutonomousReturn, rename
  <2>4. \A i \in Name : exists("action-required", i)' => AdmittedTask(i)
    BY <2>2, <2>3 DEF AdmitInv, rename, exists, FilesTypeOK, Dirs
  <2>5. \A y \in Executor, i \in Name : own'[y] = i \/ cur'[y] = i => AdmittedTask(i)
    BY <1>2, <1>5 DEF AutonomousReturn, AdmitInv
  <2>6. executed' = executed
    BY <1>5 DEF AutonomousReturn
  <2>7. QED BY <2>4, <2>5, <2>6 DEF AdmitInv, AdmittedTask, OnlyAdmittedExecuted
<1>6. CASE Execute(x)
  <2>1. PICK n \in Name : n = cur[x]
    BY <1>6 DEF Execute, ExecOK
  <2>2. AdmittedTask(n) /\ messageOf(n) \in Msg
    BY <2>1, NameType DEF AdmitInv
  <2>3. executed' = [executed EXCEPT ![messageOf(n)] = @ + 1]
    BY <1>6, <2>1 DEF Execute
  <2>4. OnlyAdmittedExecuted'
    BY <2>2, <2>3 DEF AdmitInv, OnlyAdmittedExecuted, AdmittedTask
  <2>5. AddsNoTask /\ UNCHANGED <<own, cur>>
    BY <1>6, SameBoxAddsNoTask DEF Execute
  <2>6. QED BY <2>4, <2>5 DEF AdmitInv, AddsNoTask, AdmittedTask
<1>7. CASE FinishTask(x) \/ AutonomousReject(x) \/ AutonomousClose(x)
  <2>1. PICK n \in Name, k \in Name, e \in {"processed", "quarantine"} :
          rename("in-progress", n, e, k) \/ UNCHANGED box
    BY <1>7, UniquePath DEF FinishTask, AutonomousReject, AutonomousClose, ExecOK,
       Dirs
  <2>2. AddsNoTask
    BY <2>1, RenameAddsNoTask, SameBoxAddsNoTask DEF Dirs
  <2>3. \A y \in Executor, i \in Name : own'[y] = i \/ cur'[y] = i => AdmittedTask(i)
    BY <1>2, <1>7 DEF FinishTask, AutonomousReject, AutonomousClose, AdmitInv
  <2>4. executed' = executed
    BY <1>7 DEF FinishTask, AutonomousReject, AutonomousClose
  <2>5. QED BY <2>2, <2>3, <2>4 DEF AdmitInv, AddsNoTask, AdmittedTask,
               OnlyAdmittedExecuted
<1>8. ASSUME UNCHANGED <<box, executed>>,
             \A y \in Executor, i \in Name :
               own'[y] = i \/ cur'[y] = i => AdmittedTask(i)
      PROVE  AdmitInv'
  BY <1>8, SameBoxAddsNoTask DEF AdmitInv, AddsNoTask, AdmittedTask,
     OnlyAdmittedExecuted
<1>9. ASSUME NEW n \in Name, WatcherRun(x, n) PROVE AdmitInv'
  BY <1>8, <1>9 DEF WatcherRun, StartRun, AdmitInv
<1>10. CASE \/ RunGeneric(x) \/ AutonomousRun(x) \/ DeliverResponse(x) \/ EndRun(x)
            \/ WatcherClose(x) \/ Throws(x) \/ Crash(x)
  BY <1>2, <1>8, <1>10 DEF RunGeneric, AutonomousRun, StartRun, DeliverResponse,
     EndRun, WatcherClose, Throws, Crash, AdmitInv
<1>11. QED BY <1>1, <1>3, <1>4, <1>5, <1>6, <1>7, <1>9, <1>10 DEF ExecutorProgress

LEMMA AdmitStep == LaneInv /\ AdmitInv /\ [Next]_vars => AdmitInv'
<1> SUFFICES ASSUME LaneInv, AdmitInv, [Next]_vars PROVE AdmitInv'
  OBVIOUS
<1>1. CASE ExecutorNext
  BY <1>1, ExecutorAdmits
<1>2. CASE WorkerNext \/ \E w \in Worker : Stop(w)
  BY <1>2, WorkerAdmits DEF WorkerNext, Stop
<1>3. CASE OwnerAges \/ UNCHANGED vars
  <2>1. UNCHANGED <<box, own, cur, executed>>
    BY <1>3 DEF OwnerAges, OwnerClaimAges, vars, executorVars
  <2>2. QED BY <2>1, SameBoxAddsNoTask, AddsNoTaskMeans
<1>4. CASE \E m \in Msg : Deliver(m)
  <2>1. PICK m \in Msg : Deliver(m)
    BY <1>4
  <2>2. <<m, 0>> \in Name /\ 0 \in Stamp
    BY LaneFilesAssumption DEF Name, Stamp
  <2>3. AddsNoTask
    BY <2>1, <2>2, WriteAddsTask DEF Deliver, AddsNoTask, LaneInv, TypeOK, Dirs
  <2>4. QED BY <2>1, <2>3, AddsNoTaskMeans DEF Deliver, executorVars
<1>5. CASE \E n \in Name : Reap(n)
  <2>1. PICK n \in Name : Reap(n)
    BY <1>5
  <2>2. AddsNoTask
    BY <2>1, RenameAddsNoTask DEF Reap, LaneInv, TypeOK, Dirs
  <2>3. QED BY <2>1, <2>2, AddsNoTaskMeans DEF Reap, executorVars
<1>6. QED BY <1>1, <1>2, <1>3, <1>4, <1>5 DEF Next

LEMMA AdmitStart == Init => AdmitInv
BY NoNameAssumption DEF Init, ExecutorInit, AdmitInv, OnlyAdmittedExecuted,
   exists, Dirs

(* Whatever moves files around, only what decideRoute sent to                *)
(* action-required is executed.                                              *)
THEOREM OnlyAdmittedWorkRuns == Spec => []OnlyAdmittedExecuted
<1>1. AdmitInv => OnlyAdmittedExecuted
  BY DEF AdmitInv
<1>2. QED BY <1>1, AdmitStart, AdmitStep, LaneInit, LaneStep, PTL DEF Spec

-----------------------------------------------------------------------------
(* What the job of a worker says of the file it has read: where the file     *)
(* goes is what decideRoute said, and what is moved unread or unjudged is    *)
(* moved for the reason the code names.                                      *)

RoutedDirs == {"action-required", "in-progress", "processed", "blocked", "quarantine"}

ReasonOf(j) ==
  /\ j.step = "move" =>
       /\ j.dir \in {"quarantine", "needs-review", "stale-foreign"}
       /\ j.dir = "quarantine" => ~Content[messageOf(j.name)].json
  /\ j.step \in {"write", "unlink", "report"} =>
       j.dir \in RoutedDirs /\ j.dir = DirOf(queueOf(messageOf(j.name)))

JobReason == \A w \in Worker : ReasonOf(job[w])

LEMMA RoutedDir ==
  ASSUME NEW q \in Queues
  PROVE  DirOf(q) \in RoutedDirs
BY DEF Queues, DirOf, RoutedDirs

LEMMA DispositionReason ==
  ASSUME NEW w, NEW n \in Name
  PROVE  /\ Disposition(w, n).step = "move" =>
              /\ Disposition(w, n).dir \in {"quarantine", "needs-review", "stale-foreign"}
              /\ Disposition(w, n).dir = "quarantine" => ~Content[messageOf(n)].json
              /\ Disposition(w, n).dir = "needs-review" => ~isOwner[w]
              /\ Disposition(w, n).dir = "stale-foreign" => foreignStamp(w, n)
         /\ Disposition(w, n).step = "write" =>
              /\ Disposition(w, n).dir \in RoutedDirs
              /\ Disposition(w, n).dir = DirOf(queueOf(messageOf(n)))
<1> DEFINE m == Content[messageOf(n)]
<1>1. CASE routeOf(m) # Throw
  <2>1. DirOf(routeOf(m).queue) \in RoutedDirs
    BY <1>1, RouteIsQueue, RoutedDir
  <2>2. QED BY <1>1, <2>1 DEF Disposition, queueOf
<1>2. CASE routeOf(m) = Throw
  BY <1>2 DEF Disposition
<1>3. QED BY <1>1, <1>2

(* The ways a step can change a job: the worker reads a file, its copy is    *)
(* written, its source is removed, or the job is over.                       *)
Chooses(w, n) ==
  /\ ReadFile(w, n) /\ exists("inbox", n)
  /\ \E k \in uniquePath(Disposition(w, n).dir, n) :
       job'[w] = [step |-> Disposition(w, n).step, name |-> n,
                  dir |-> Disposition(w, n).dir, to |-> k]

GoesOn(w) ==
  \/ WriteCopy(w) /\ job'[w] = [job[w] EXCEPT !.step = "unlink"]
  \/ UnlinkSource(w) /\ job'[w] = [job[w] EXCEPT !.step = "report"]
     /\ exists("inbox", job[w].name)

LEMMA JobChange ==
  ASSUME LaneInv, [Next]_vars, NEW w \in Worker
  PROVE  \/ job'[w] = job[w]
         \/ job'[w].step \in {"idle", "claim"}
         \/ GoesOn(w)
         \/ \E n \in Name : Disposition(w, n).step \in {"move", "write"} /\ Chooses(w, n)
<1>1. job \in [Worker -> Job]
  BY DEF LaneInv, TypeOK, WorkerTypeOK
<1>2. ASSUME NEW v \in Worker, job' = [job EXCEPT ![v] = Idle]
      PROVE  job'[w] = job[w] \/ job'[w].step \in {"idle", "claim"}
  BY <1>1, <1>2 DEF Idle
<1>3. ASSUME NEW v \in Worker, StartWorker(v)
      PROVE  job'[w] = job[w] \/ job'[w].step \in {"idle", "claim"}
  <2>1. PICK s \in {"claim", "idle"} :
          job' = [job EXCEPT ![v] = [Idle EXCEPT !.step = s]]
    BY <1>3 DEF StartWorker
  <2>2. QED BY <1>1, <2>1 DEF Idle
<1>4. ASSUME NEW v \in Worker, NEW n \in Name, ReadFile(v, n)
      PROVE  \/ job'[w] = job[w]
             \/ Disposition(w, n).step \in {"move", "write"} /\ Chooses(w, n)
  <2>1. CASE exists("inbox", n) /\ Disposition(v, n).step # "leave" /\ v = w
    <3>1. PICK k \in uniquePath(Disposition(v, n).dir, n) :
            job' = [job EXCEPT ![v] = [step |-> Disposition(v, n).step, name |-> n,
                                       dir |-> Disposition(v, n).dir, to |-> k]]
      BY <1>4, <2>1 DEF ReadFile
    <3>2. Disposition(w, n).step \in {"move", "write"}
      BY <2>1, DispositionType
    <3>3. QED BY <1>1, <1>4, <2>1, <3>1, <3>2 DEF Chooses
  <2>2. CASE ~(exists("inbox", n) /\ Disposition(v, n).step # "leave" /\ v = w)
    BY <1>1, <1>4, <2>2 DEF ReadFile
  <2>3. QED BY <2>1, <2>2
<1>5. ASSUME NEW v \in Worker, WriteCopy(v) \/ UnlinkSource(v)
      PROVE  job'[w] = job[w] \/ job'[w].step = "idle" \/ GoesOn(w)
  <2>1. \/ job' = [job EXCEPT ![v].step = "unlink"] /\ WriteCopy(v)
        \/ job' = [job EXCEPT ![v].step = "report"] /\ UnlinkSource(v)
           /\ exists("inbox", job[v].name)
        \/ job' = [job EXCEPT ![v] = Idle]
    BY <1>5 DEF WriteCopy, UnlinkSource
  <2>2. CASE v = w /\ job' # [job EXCEPT ![v] = Idle]
    BY <1>1, <2>1, <2>2 DEF GoesOn
  <2>3. CASE v # w
    BY <1>1, <2>1, <2>3
  <2>4. QED BY <1>2, <2>2, <2>3, <1>1 DEF Idle
<1>6. ASSUME NEW v \in Worker,
             ClaimActiveOwner(v) \/ Report(v) \/ MoveFile(v) \/ Stop(v)
      PROVE  job'[w] = job[w] \/ job'[w].step \in {"idle", "claim"}
  <2>1. job' = [job EXCEPT ![v] = Idle]
    BY <1>6 DEF ClaimActiveOwner, Report, MoveFile, Stop, StopWorker
  <2>2. QED BY <1>2, <2>1
<1>7. CASE UNCHANGED job
  BY <1>7
<1>8. QED BY <1>3, <1>4, <1>5, <1>6, <1>7 DEF Next, WorkerNext, WorkerStep,
             ListInbox, OwnerAges, OwnerClaimAges, ExecutorNext, Deliver, Reap,
             vars, workerVars

LEMMA JobReasonStep == LaneInv /\ JobReason /\ [Next]_vars => JobReason'
<1> SUFFICES ASSUME LaneInv, JobReason, [Next]_vars, NEW w \in Worker
             PROVE  ReasonOf(job'[w])
  BY DEF JobReason, ReasonOf
<1>1. job[w] \in Job /\ ReasonOf(job[w])
  BY DEF LaneInv, TypeOK, WorkerTypeOK, JobReason
<1>2. CASE GoesOn(w)
  BY <1>1, <1>2 DEF GoesOn, WriteCopy, UnlinkSource, ReasonOf, Job
<1>3. ASSUME NEW n \in Name, Disposition(w, n).step \in {"move", "write"}, Chooses(w, n)
      PROVE  ReasonOf(job'[w])
  <2>1. PICK d, k : /\ d = Disposition(w, n)
                    /\ job'[w] = [step |-> d.step, name |-> n, dir |-> d.dir, to |-> k]
    BY <1>3 DEF Chooses
  <2>2. /\ job'[w].step = d.step /\ job'[w].dir = d.dir /\ job'[w].name = n
    BY <2>1
  <2>3. d.step \in {"move", "write"}
    BY <1>3, <2>1
  <2>4. /\ d.step = "move" =>
             /\ d.dir \in {"quarantine", "needs-review", "stale-foreign"}
             /\ d.dir = "quarantine" => ~Content[messageOf(n)].json
        /\ d.step = "write" =>
             d.dir \in RoutedDirs /\ d.dir = DirOf(queueOf(messageOf(n)))
    BY <2>1, DispositionReason
  <2>5. QED BY <2>2, <2>3, <2>4 DEF ReasonOf
<1>4. CASE job'[w].step \in {"idle", "claim"}
  BY <1>4 DEF ReasonOf
<1>5. QED BY <1>1, <1>2, <1>3, <1>4, JobChange

LEMMA JobReasonInit == Init => JobReason
BY DEF Init, WorkerInit, JobReason, ReasonOf, Idle

-----------------------------------------------------------------------------
(* What the operations do to the files that are there. *)

Moves(d, n, e, k) ==
  /\ exists(d, n)
  /\ \A c \in Dirs, i \in Name :
       /\ exists(c, i)' <=>
            (c = e /\ i = k) \/ (exists(c, i) /\ ~(c = d /\ i = n))
       /\ ~(c = e /\ i = k) /\ ~(c = d /\ i = n)
            => box'[<<c, i>>] = box[<<c, i>>]

LEMMA RenameExists ==
  ASSUME FilesTypeOK, NEW d \in Dirs, NEW n \in Name, NEW e \in Dirs,
         NEW k \in Name, rename(d, n, e, k)
  PROVE  Moves(d, n, e, k)
<1>1. \A c \in Dirs, i \in Name :
        box'[<<c, i>>] = IF c = e /\ i = k THEN box[<<d, n>>]
                         ELSE IF c = d /\ i = n THEN NoFile
                         ELSE box[<<c, i>>]
  BY DEF rename, FilesTypeOK
<1>2. box[<<d, n>>] # NoFile
  BY DEF rename, exists
<1>3. ASSUME NEW c \in Dirs, NEW i \in Name
      PROVE  exists(c, i)' <=>
               (c = e /\ i = k) \/ (exists(c, i) /\ ~(c = d /\ i = n))
  BY <1>1, <1>2 DEF exists
<1>4. QED BY <1>1, <1>2, <1>3 DEF exists, Moves

Writes(d, n, s) ==
  \A c \in Dirs, i \in Name :
    /\ exists(c, i)' <=> (c = d /\ i = n) \/ exists(c, i)
    /\ box'[<<c, i>>] = IF c = d /\ i = n THEN s ELSE box[<<c, i>>]

LEMMA WriteExists ==
  ASSUME FilesTypeOK, NEW d \in Dirs, NEW n \in Name, NEW s \in Stamp,
         write(d, n, s)
  PROVE  Writes(d, n, s)
<1>1. s # NoFile
  BY LaneFilesAssumption DEF Stamp, NoFile
<1>2. QED BY <1>1 DEF write, exists, FilesTypeOK, Writes

Unlinks(d, n) ==
  \A c \in Dirs, i \in Name :
    /\ exists(c, i)' <=> exists(c, i) /\ ~(c = d /\ i = n)
    /\ ~(c = d /\ i = n) => box'[<<c, i>>] = box[<<c, i>>]

LEMMA UnlinkExists ==
  ASSUME FilesTypeOK, NEW d \in Dirs, NEW n \in Name, unlink(d, n)
  PROVE  Unlinks(d, n)
BY DEF unlink, exists, FilesTypeOK, Unlinks

(* The three steps of a worker on files, with the types its job has.         *)
LEMMA WorkerFiles ==
  ASSUME LaneInv, JobReason, NEW w \in Worker
  PROVE  /\ WriteCopy(w) => /\ Writes(job[w].dir, job[w].to, session[w])
                            /\ job[w].step = "write" /\ job[w].dir \in RoutedDirs
         /\ UnlinkSource(w) => /\ UNCHANGED box \/ Unlinks("inbox", job[w].name)
                               /\ job[w].step = "unlink"
         /\ MoveFile(w) =>
              /\ \/ UNCHANGED box
                 \/ Moves("inbox", job[w].name, job[w].dir, job[w].to)
              /\ job[w].step = "move"
              /\ job[w].dir \in {"quarantine", "needs-review", "stale-foreign"}
         /\ job[w].step \in Moving =>
              /\ job[w].name \in Name /\ job[w].to \in Name
              /\ messageOf(job[w].to) = messageOf(job[w].name)
<1>1. session[w] \in Stamp /\ job[w].dir \in Dirs /\ FilesTypeOK /\ "inbox" \in Dirs
  BY DEF LaneInv, TypeOK, WorkerTypeOK, Job, Dirs
<1>2. job[w].step \in Moving =>
        /\ job[w].name \in Name /\ job[w].to \in Name
        /\ messageOf(job[w].to) = messageOf(job[w].name)
  BY DEF LaneInv, JobOK
<1>3. ReasonOf(job[w])
  BY DEF JobReason
<1>4. WriteCopy(w) => job[w].step = "write" /\ write(job[w].dir, job[w].to, session[w])
  BY DEF WriteCopy
<1>5. UnlinkSource(w) => /\ job[w].step = "unlink"
                         /\ UNCHANGED box \/ unlink("inbox", job[w].name)
  BY DEF UnlinkSource
<1>6. MoveFile(w) =>
        /\ job[w].step = "move"
        /\ UNCHANGED box \/ rename("inbox", job[w].name, job[w].dir, job[w].to)
  BY DEF MoveFile
<1>7. WriteCopy(w) => Writes(job[w].dir, job[w].to, session[w])
  BY <1>1, <1>2, <1>4, WriteExists DEF Moving
<1>8. UnlinkSource(w) => UNCHANGED box \/ Unlinks("inbox", job[w].name)
  BY <1>1, <1>2, <1>5, UnlinkExists DEF Moving
<1>9. MoveFile(w) => \/ UNCHANGED box
                     \/ Moves("inbox", job[w].name, job[w].dir, job[w].to)
  BY <1>1, <1>2, <1>6, RenameExists DEF Moving
<1>10. QED BY <1>2, <1>3, <1>4, <1>5, <1>6, <1>7, <1>8, <1>9 DEF ReasonOf

(* Executors take tasks, which decideRoute admitted, from action-required    *)
(* and in-progress, and leave nothing in the directories of the worker.      *)
ExecutorMoves ==
  \E d \in {"action-required", "in-progress"}, e \in RoutedDirs,
     n \in Name, k \in Name :
    messageOf(k) = messageOf(n) /\ AdmittedTask(n) /\ rename(d, n, e, k)

LEMMA ExecutorMovesFiles ==
  ASSUME FilesTypeOK, ExecutorMoves
  PROVE  \E d \in {"action-required", "in-progress"}, e \in RoutedDirs,
            n \in Name, k \in Name :
           messageOf(k) = messageOf(n) /\ AdmittedTask(n) /\ Moves(d, n, e, k)
<1>1. PICK d \in {"action-required", "in-progress"}, e \in RoutedDirs,
           n \in Name, k \in Name :
        messageOf(k) = messageOf(n) /\ AdmittedTask(n) /\ rename(d, n, e, k)
  BY DEF ExecutorMoves
<1>2. d \in Dirs /\ e \in Dirs
  BY DEF RoutedDirs, Dirs
<1>3. QED BY <1>1, <1>2, RenameExists

LEMMA ExecutorFiles ==
  ASSUME LaneInv, AdmitInv, ExecutorNext
  PROVE  UNCHANGED box \/ ExecutorMoves
<1>1. PICK x \in Executor :
        \/ ExecutorProgress(x) \/ Throws(x) \/ Crash(x)
        \/ \E n \in Name : WatcherBlock(x, n) \/ AutonomousExpire(x, n)
  BY DEF ExecutorNext
<1>2. ASSUME NEW n \in Name,
             Take(x, n) \/ WatcherBlock(x, n) \/ AutonomousHold(x, n)
      PROVE  UNCHANGED box \/ ExecutorMoves
  <2>1. PICK e \in {"in-progress", "blocked"} :
          rename("action-required", n, e, n) \/ UNCHANGED box
    BY <1>2 DEF Take, WatcherBlock, AutonomousHold
  <2>2. rename("action-required", n, e, n) => AdmittedTask(n)
    BY DEF rename, AdmitInv
  <2>3. QED BY <2>1, <2>2 DEF ExecutorMoves, RoutedDirs
<1>3. CASE AutonomousReturn(x) \/ AutonomousReject(x)
  <2>1. own[x] \in Name /\ AdmittedTask(own[x])
    BY <1>3 DEF LaneInv, ExecOK, AutonomousReturn, AutonomousReject, AdmitInv
  <2>2. PICK e \in {"action-required", "quarantine"} :
          rename("in-progress", own[x], e, own[x]) \/ UNCHANGED box
    BY <1>3 DEF AutonomousReturn, AutonomousReject
  <2>3. QED BY <2>1, <2>2 DEF ExecutorMoves, RoutedDirs
<1>4. CASE FinishTask(x)
  <2>1. cur[x] \in Name /\ AdmittedTask(cur[x])
    BY <1>4 DEF LaneInv, ExecOK, FinishTask, AdmitInv
  <2>2. rename("in-progress", cur[x], "processed", cur[x]) \/ UNCHANGED box
    BY <1>4 DEF FinishTask
  <2>3. QED BY <2>1, <2>2 DEF ExecutorMoves, RoutedDirs
<1>5. CASE AutonomousClose(x)
  <2>1. own[x] \in Name /\ AdmittedTask(own[x])
    BY <1>5 DEF LaneInv, ExecOK, AutonomousClose, AdmitInv
  <2>2. PICK k \in uniquePath("processed", own[x]) :
          rename("in-progress", own[x], "processed", k) \/ UNCHANGED box
    BY <1>5 DEF AutonomousClose
  <2>3. k \in Name /\ messageOf(k) = messageOf(own[x])
    BY <2>1, UniquePath DEF Dirs
  <2>4. QED BY <2>1, <2>2, <2>3 DEF ExecutorMoves, RoutedDirs
<1>6. ASSUME NEW n \in Name, AutonomousExpire(x, n)
      PROVE  UNCHANGED box \/ ExecutorMoves
  <2>1. PICK k \in uniquePath("processed", n) :
          rename("action-required", n, "processed", k)
    BY <1>6 DEF AutonomousExpire
  <2>2. AdmittedTask(n)
    BY <2>1 DEF rename, AdmitInv
  <2>3. k \in Name /\ messageOf(k) = messageOf(n)
    BY UniquePath DEF Dirs
  <2>4. QED BY <2>1, <2>2, <2>3 DEF ExecutorMoves, RoutedDirs
<1>7. QED BY <1>1, <1>2, <1>3, <1>4, <1>5, <1>6 DEF ExecutorProgress,
             RunGeneric, AutonomousRun, StartRun, Execute, DeliverResponse, EndRun,
             WatcherClose, WatcherRun, Throws, Crash

(* Who changes the files in a step. *)
LEMMA FileChange ==
  ASSUME LaneInv, AdmitInv, [Next]_vars
  PROVE  \/ UNCHANGED box
         \/ \E m \in Msg : Deliver(m)
         \/ \E n \in Name : Reap(n)
         \/ \E w \in Worker : /\ WriteCopy(w) \/ UnlinkSource(w) \/ MoveFile(w)
                              /\ UNCHANGED <<executorVars, laneVars>>
         \/ ExecutorMoves /\ UNCHANGED <<workerVars, laneVars>>
<1>1. ExecutorNext => UNCHANGED box \/ (ExecutorMoves /\ UNCHANGED <<workerVars, laneVars>>)
  BY ExecutorFiles DEF ExecutorNext
<1>2. QED BY <1>1 DEF Next, Stop, StopWorker, WorkerNext, WorkerStep, StartWorker,
             ClaimActiveOwner, ListInbox, ReadFile, Report, OwnerAges,
             OwnerClaimAges, vars

-----------------------------------------------------------------------------
(* What lies in stale-foreign was put back by the reaper: only its files     *)
(* come into the inbox with a stamp.                                         *)

StampedWasRequeued ==
  /\ \A n \in Name : box[<<"inbox", n>>] \notin {NoFile, 0} => requeued[messageOf(n)] > 0
  /\ \A n \in Name : exists("stale-foreign", n) => requeued[messageOf(n)] > 0
  /\ \A w \in Worker :
       job[w].step = "move" /\ job[w].dir = "stale-foreign"
         => requeued[messageOf(job[w].name)] > 0

LEMMA RequeuedGrows ==
  ASSUME LaneInv, [Next]_vars
  PROVE  \A m \in Msg : requeued[m] > 0 => requeued'[m] > 0
<1>1. requeued \in [Msg -> Nat]
  BY LanePipelineAssumption DEF LaneInv, TypeOK
<1>2. \A n \in Name : Reap(n) => \A m \in Msg : requeued[m] > 0 => requeued'[m] > 0
  BY <1>1 DEF Reap
<1>3. QED BY <1>2 DEF Next, vars, Deliver, Stop, WorkerNext, OwnerAges, ExecutorNext,
             laneVars

LEMMA ReapStamps ==
  ASSUME LaneInv, StampedWasRequeued, NEW n \in Name, Reap(n)
  PROVE  \A k \in Name :
           /\ box'[<<"inbox", k>>] \notin {NoFile, 0} => requeued'[messageOf(k)] > 0
           /\ exists("stale-foreign", k)' => requeued'[messageOf(k)] > 0
<1>1. {"inbox", "stale-foreign", "quarantine", "archive"} \subseteq Dirs
  BY DEF Dirs
<1>2. requeued \in [Msg -> Nat] /\ FilesTypeOK
  BY LanePipelineAssumption DEF LaneInv, TypeOK
<1>3. CASE rename("quarantine", n, "archive", n) /\ UNCHANGED requeued
  <2>1. \A k \in Name :
          /\ box'[<<"inbox", k>>] = box[<<"inbox", k>>]
          /\ exists("stale-foreign", k)' <=> exists("stale-foreign", k)
    <3>1. Moves("quarantine", n, "archive", n)
      BY <1>1, <1>2, <1>3, RenameExists
    <3>2. QED BY <1>1, <3>1 DEF Moves
  <2>2. QED BY <1>3, <2>1 DEF StampedWasRequeued
<1>4. CASE /\ rename("quarantine", n, "inbox", n)
           /\ requeued' = [requeued EXCEPT ![messageOf(n)] = @ + 1]
  <2>1. \A m \in Msg : (requeued[m] > 0 \/ m = messageOf(n)) => requeued'[m] > 0
    BY <1>2, <1>4
  <2>2. \A k \in Name :
          /\ k # n => box'[<<"inbox", k>>] = box[<<"inbox", k>>]
          /\ exists("stale-foreign", k)' <=> exists("stale-foreign", k)
    <3>1. Moves("quarantine", n, "inbox", n)
      BY <1>1, <1>2, <1>4, RenameExists
    <3>2. QED BY <1>1, <3>1 DEF Moves
  <2>3. QED BY <2>1, <2>2, NameType DEF StampedWasRequeued
<1>5. QED BY <1>3, <1>4 DEF Reap

LEMMA StampedStep == 
  LaneInv /\ AdmitInv /\ JobReason /\ StampedWasRequeued /\ [Next]_vars
    => StampedWasRequeued'
<1> SUFFICES ASSUME LaneInv, AdmitInv, JobReason, StampedWasRequeued, [Next]_vars
             PROVE  StampedWasRequeued'
  OBVIOUS
<1> DEFINE FilesOK == \A k \in Name :
             /\ box'[<<"inbox", k>>] \notin {NoFile, 0} => requeued'[messageOf(k)] > 0
             /\ exists("stale-foreign", k)' => requeued'[messageOf(k)] > 0
<1>1. \A n \in Name : requeued[messageOf(n)] > 0 => requeued'[messageOf(n)] > 0
  BY NameType, RequeuedGrows
<1>2. {"inbox", "stale-foreign"} \subseteq Dirs /\ FilesTypeOK
  BY DEF LaneInv, TypeOK, Dirs
<1>3. ASSUME UNCHANGED box PROVE FilesOK
  BY <1>1, <1>3 DEF StampedWasRequeued, exists
<1>4. ASSUME NEW m \in Msg, Deliver(m) PROVE FilesOK
  <2>1. <<m, 0>> \in Name /\ 0 \in Stamp
    BY LaneFilesAssumption DEF Name, Stamp
  <2>2. Writes("inbox", <<m, 0>>, 0)
    BY <1>2, <1>4, <2>1, WriteExists DEF Deliver
  <2>3. QED BY <1>1, <1>2, <2>2 DEF Writes, StampedWasRequeued
<1>5. ASSUME NEW n \in Name, Reap(n) PROVE FilesOK
  BY <1>5, ReapStamps
<1>6. ASSUME NEW w \in Worker, WriteCopy(w) PROVE FilesOK
  <2>1. Writes(job[w].dir, job[w].to, session[w]) /\ job[w].dir \in RoutedDirs
    BY <1>6, WorkerFiles
  <2>2. QED BY <1>1, <1>2, <2>1 DEF Writes, StampedWasRequeued, RoutedDirs
<1>7. ASSUME NEW w \in Worker, UnlinkSource(w) PROVE FilesOK
  <2>1. UNCHANGED box \/ Unlinks("inbox", job[w].name)
    BY <1>7, WorkerFiles
  <2>2. CASE Unlinks("inbox", job[w].name)
    BY <1>1, <1>2, <2>2 DEF Unlinks, StampedWasRequeued, exists
  <2>3. QED BY <1>3, <2>1, <2>2
<1>8. ASSUME NEW w \in Worker, MoveFile(w) PROVE FilesOK
  <2>1. /\ \/ UNCHANGED box
           \/ Moves("inbox", job[w].name, job[w].dir, job[w].to)
        /\ job[w].dir \in {"quarantine", "needs-review", "stale-foreign"}
        /\ job[w].step = "move"
        /\ messageOf(job[w].to) = messageOf(job[w].name)
    BY <1>8, WorkerFiles DEF Moving
  <2>2. job[w].dir = "stale-foreign" => requeued[messageOf(job[w].to)] > 0
    BY <2>1 DEF StampedWasRequeued
  <2>3. CASE Moves("inbox", job[w].name, job[w].dir, job[w].to)
    BY <1>1, <1>2, <2>1, <2>2, <2>3 DEF Moves, StampedWasRequeued, exists
  <2>4. QED BY <1>3, <2>1, <2>3
<1>9. ASSUME ExecutorMoves PROVE FilesOK
  <2>1. PICK d \in {"action-required", "in-progress"}, e \in RoutedDirs,
             n \in Name, k \in Name : Moves(d, n, e, k)
    BY <1>2, <1>9, ExecutorMovesFiles
  <2>2. QED BY <1>1, <1>2, <2>1 DEF Moves, StampedWasRequeued, RoutedDirs
<1>10. FilesOK
  BY <1>3, <1>4, <1>5, <1>6, <1>7, <1>8, <1>9, FileChange
<1>11. ASSUME NEW w \in Worker, job'[w].step = "move", job'[w].dir = "stale-foreign"
       PROVE  requeued'[messageOf(job'[w].name)] > 0
  <2>1. CASE job'[w] = job[w]
    <3>1. job[w].name \in Name /\ requeued[messageOf(job[w].name)] > 0
      BY <1>11, <2>1 DEF StampedWasRequeued, LaneInv, JobOK, Moving
    <3>2. QED BY <1>1, <2>1, <3>1
  <2>2. ASSUME NEW n \in Name, Disposition(w, n).step \in {"move", "write"}, Chooses(w, n)
        PROVE  requeued'[messageOf(job'[w].name)] > 0
    <3>1. PICK d, k : /\ d = Disposition(w, n)
                      /\ job'[w] = [step |-> d.step, name |-> n, dir |-> d.dir, to |-> k]
      BY <2>2 DEF Chooses
    <3>2. d.step = "move" /\ d.dir = "stale-foreign" /\ job'[w].name = n
      BY <1>11, <3>1
    <3>3. foreignStamp(w, n)
      BY <3>1, <3>2, DispositionReason
    <3>4. requeued[messageOf(n)] > 0
      BY <2>2, <3>3 DEF foreignStamp, StampedWasRequeued, Chooses, exists
    <3>5. QED BY <1>1, <3>2, <3>4
  <2>3. CASE GoesOn(w)
    <3>1. job[w] \in Job
      BY DEF LaneInv, TypeOK, WorkerTypeOK
    <3>2. QED BY <1>11, <2>3, <3>1 DEF GoesOn, Job
  <2>4. QED BY <1>11, <2>1, <2>2, <2>3, JobChange
<1>12. QED BY <1>10, <1>11 DEF StampedWasRequeued

(* The first worker session of a lane claims ownership before it lists a     *)
(* file, so it defers nothing.                                               *)
FirstSessionOwns ==
  /\ started = 0 => activeOwner = 0 /\ \A w \in Worker : session[w] = 0
  /\ \A w \in Worker : session[w] = 0 => listing[w] = {} /\ job[w].step = "idle"
  /\ started <= 1 =>
       \A w \in Worker : session[w] # 0 => isOwner[w] \/ job[w].step = "claim"

NothingDeferred ==
  started <= 1 =>
    /\ \A n \in Name : ~exists("needs-review", n)
    /\ \A w \in Worker : ~(job[w].step = "move" /\ job[w].dir = "needs-review")

LEMMA FirstSessionStep == LaneInv /\ FirstSessionOwns /\ [Next]_vars => FirstSessionOwns'
<1> SUFFICES ASSUME LaneInv, FirstSessionOwns, [Next]_vars PROVE FirstSessionOwns'
  OBVIOUS
<1>1. /\ job \in [Worker -> Job] /\ session \in [Worker -> Nat] /\ started \in Nat
      /\ isOwner \in [Worker -> BOOLEAN] /\ listing \in [Worker -> SUBSET Name]
  BY LaneFilesAssumption DEF LaneInv, TypeOK, WorkerTypeOK, Stamp
<1>2. ASSUME NEW w \in Worker, StartWorker(w) PROVE FirstSessionOwns'
  <2>1. PICK s \in {"claim", "idle"} :
          /\ job' = [job EXCEPT ![w] = [Idle EXCEPT !.step = s]]
          /\ activeOwner = 0 => s = "claim"
    BY <1>2 DEF StartWorker
  <2>2. job'[w].step = s /\ \A v \in Worker \ {w} : job'[v] = job[v]
    BY <1>1, <2>1 DEF Idle
  <2>3. /\ started' = started + 1 /\ session' = [session EXCEPT ![w] = started + 1]
        /\ isOwner' = [isOwner EXCEPT ![w] = FALSE] /\ listing' = listing
    BY <1>2 DEF StartWorker
  <2>4. started' <= 1 => started = 0
    BY <1>1, <2>3
  <2>5. QED BY <1>1, <2>1, <2>2, <2>3, <2>4 DEF FirstSessionOwns
<1>3. ASSUME NEW w \in Worker, ClaimActiveOwner(w) PROVE FirstSessionOwns'
  BY <1>1, <1>3 DEF ClaimActiveOwner, FirstSessionOwns
<1>4. ASSUME NEW w \in Worker, Stop(w) PROVE FirstSessionOwns'
  BY <1>1, <1>4 DEF Stop, StopWorker, FirstSessionOwns, Idle
<1>5. ASSUME NEW w \in Worker, ListInbox(w) PROVE FirstSessionOwns'
  BY <1>1, <1>5 DEF ListInbox, ownerVars, FirstSessionOwns
<1>6. ASSUME NEW w \in Worker, NEW n \in Name, ReadFile(w, n) PROVE FirstSessionOwns'
  <2>1. session[w] # 0
    BY <1>6 DEF ReadFile, FirstSessionOwns
  <2>2. \A v \in Worker \ {w} : job'[v] = job[v] /\ listing'[v] = listing[v]
    BY <1>1, <1>6 DEF ReadFile
  <2>3. UNCHANGED ownerVars /\ job[w].step = "idle"
    BY <1>6 DEF ReadFile
  <2>4. QED BY <2>1, <2>2, <2>3 DEF FirstSessionOwns, ownerVars
<1>7. ASSUME NEW w \in Worker,
             WriteCopy(w) \/ UnlinkSource(w) \/ Report(w) \/ MoveFile(w)
      PROVE  FirstSessionOwns'
  <2>1. /\ job[w].step \notin {"idle", "claim"} /\ listing' = listing
        /\ UNCHANGED ownerVars
        /\ \A v \in Worker \ {w} : job'[v] = job[v]
    BY <1>1, <1>7 DEF WriteCopy, UnlinkSource, Report, MoveFile
  <2>2. QED BY <2>1 DEF FirstSessionOwns, ownerVars
<1>8. CASE OwnerAges \/ UNCHANGED <<ownerVars, listing, job>>
  BY <1>8 DEF OwnerAges, OwnerClaimAges, ownerVars, FirstSessionOwns
<1>9. QED BY <1>2, <1>3, <1>4, <1>5, <1>6, <1>7, <1>8 DEF Next, WorkerNext,
             WorkerStep, ExecutorNext, Deliver, Reap, vars, workerVars

LEMMA StartedGrows ==
  ASSUME LaneInv, [Next]_vars
  PROVE  started' >= started /\ started' \in Nat
<1>1. started \in Nat
  BY LaneFilesAssumption DEF LaneInv, TypeOK, WorkerTypeOK, Stamp
<1>2. started' = started \/ started' = started + 1
  BY DEF Next, WorkerNext, WorkerStep, StartWorker, ClaimActiveOwner, ListInbox, ReadFile,
     WriteCopy, UnlinkSource, Report, MoveFile, Stop, StopWorker, OwnerAges,
     OwnerClaimAges, ExecutorNext, Deliver, Reap, vars, workerVars, ownerVars
<1>3. QED BY <1>1, <1>2

LEMMA DeferredStep ==
  LaneInv /\ AdmitInv /\ JobReason /\ FirstSessionOwns /\ NothingDeferred /\ [Next]_vars
    => NothingDeferred'
<1> SUFFICES ASSUME LaneInv, AdmitInv, JobReason, FirstSessionOwns, NothingDeferred,
                    [Next]_vars, started' <= 1
             PROVE  /\ \A n \in Name : ~exists("needs-review", n)'
                    /\ \A w \in Worker :
                         ~(job'[w].step = "move" /\ job'[w].dir = "needs-review")
  BY DEF NothingDeferred
<1>1. /\ \A n \in Name : ~exists("needs-review", n)
      /\ \A w \in Worker : ~(job[w].step = "move" /\ job[w].dir = "needs-review")
      /\ \A w \in Worker : session[w] # 0 => isOwner[w] \/ job[w].step = "claim"
  <2>1. started <= 1
    BY StartedGrows, LaneFilesAssumption DEF LaneInv, TypeOK, WorkerTypeOK, Stamp
  <2>2. QED BY <2>1 DEF NothingDeferred, FirstSessionOwns
<1>2. {"inbox", "needs-review"} \cup {"quarantine", "archive"} \subseteq Dirs /\ FilesTypeOK
  BY DEF LaneInv, TypeOK, Dirs
<1> DEFINE FilesOK == \A n \in Name : ~exists("needs-review", n)'
<1>3. ASSUME UNCHANGED box PROVE FilesOK
  BY <1>1, <1>3 DEF exists
<1>4. ASSUME NEW m \in Msg, Deliver(m) PROVE FilesOK
  <2>1. <<m, 0>> \in Name /\ 0 \in Stamp
    BY LaneFilesAssumption DEF Name, Stamp
  <2>2. Writes("inbox", <<m, 0>>, 0)
    BY <1>2, <1>4, <2>1, WriteExists DEF Deliver
  <2>3. QED BY <1>1, <1>2, <2>2 DEF Writes
<1>5. ASSUME NEW n \in Name, Reap(n) PROVE FilesOK
  <2>1. PICK e \in {"inbox", "archive"} : rename("quarantine", n, e, n)
    BY <1>5 DEF Reap
  <2>2. Moves("quarantine", n, e, n)
    BY <1>2, <2>1, RenameExists
  <2>3. QED BY <1>1, <1>2, <2>2 DEF Moves
<1>6. ASSUME NEW w \in Worker, WriteCopy(w) PROVE FilesOK
  <2>1. Writes(job[w].dir, job[w].to, session[w]) /\ job[w].dir \in RoutedDirs
    BY <1>6, WorkerFiles
  <2>2. QED BY <1>1, <1>2, <2>1 DEF Writes, RoutedDirs
<1>7. ASSUME NEW w \in Worker, UnlinkSource(w) PROVE FilesOK
  <2>1. UNCHANGED box \/ Unlinks("inbox", job[w].name)
    BY <1>7, WorkerFiles
  <2>2. ASSUME Unlinks("inbox", job[w].name) PROVE FilesOK
    BY <1>1, <1>2, <2>2 DEF Unlinks
  <2>3. QED BY <1>3, <2>1, <2>2
<1>8. ASSUME NEW w \in Worker, MoveFile(w) PROVE FilesOK
  <2>1. /\ \/ UNCHANGED box
           \/ Moves("inbox", job[w].name, job[w].dir, job[w].to)
        /\ job[w].dir # "needs-review"
    BY <1>1, <1>8, WorkerFiles
  <2>2. ASSUME Moves("inbox", job[w].name, job[w].dir, job[w].to) PROVE FilesOK
    BY <1>1, <1>2, <2>1, <2>2 DEF Moves
  <2>3. QED BY <1>3, <2>1, <2>2
<1>9. ASSUME ExecutorMoves PROVE FilesOK
  <2>1. PICK d \in {"action-required", "in-progress"}, e \in RoutedDirs,
             n \in Name, k \in Name : Moves(d, n, e, k)
    BY <1>2, <1>9, ExecutorMovesFiles
  <2>2. QED BY <1>1, <1>2, <2>1 DEF Moves, RoutedDirs
<1>10. FilesOK
  BY <1>3, <1>4, <1>5, <1>6, <1>7, <1>8, <1>9, FileChange
<1>11. ASSUME NEW w \in Worker, job'[w].step = "move", job'[w].dir = "needs-review"
       PROVE  FALSE
  <2>1. ASSUME NEW n \in Name, Disposition(w, n).step \in {"move", "write"}, Chooses(w, n)
        PROVE  FALSE
    <3>1. PICK d, k : /\ d = Disposition(w, n)
                      /\ job'[w] = [step |-> d.step, name |-> n, dir |-> d.dir, to |-> k]
      BY <2>1 DEF Chooses
    <3>2. d.step = "move" /\ d.dir = "needs-review"
      BY <1>11, <3>1
    <3>3. ~isOwner[w]
      BY <3>1, <3>2, DispositionReason
    <3>4. session[w] # 0 /\ job[w].step = "idle"
      BY <2>1 DEF Chooses, ReadFile, FirstSessionOwns
    <3>5. QED BY <1>1, <3>3, <3>4
  <2>2. CASE GoesOn(w)
    <3>1. job[w] \in Job
      BY DEF LaneInv, TypeOK, WorkerTypeOK
    <3>2. QED BY <1>11, <2>2, <3>1 DEF GoesOn, Job
  <2>3. QED BY <1>1, <1>11, <2>1, <2>2, JobChange
<1>12. QED BY <1>10, <1>11

(* A file lies in stale-foreign only because the reaper had put it back      *)
(* (lane-worker.js 995-1018), and in needs-review only because a second      *)
(* session of the worker met the claim of the first (lane-worker.js 494-502, *)
(* 974).                                                                     *)
THEOREM ParkedOnlyForItsReason == Spec => []ParkedForItsReason
<1> DEFINE Inv == /\ LaneInv /\ AdmitInv /\ JobReason
                  /\ StampedWasRequeued /\ FirstSessionOwns /\ NothingDeferred
<1>1. Init => StampedWasRequeued /\ FirstSessionOwns /\ NothingDeferred
  BY DEF Init, WorkerInit, StampedWasRequeued, FirstSessionOwns, NothingDeferred,
     exists, Dirs, Idle
<1>2. Init => Inv
  BY <1>1, LaneInit, AdmitStart, JobReasonInit
<1>3. Inv /\ [Next]_vars => Inv'
  BY LaneStep, AdmitStep, JobReasonStep, StampedStep, FirstSessionStep, DeferredStep
<1>4. Inv => ParkedForItsReason
  <2> SUFFICES ASSUME Inv PROVE ParkedForItsReason
    OBVIOUS
  <2>1. started \in Nat
    BY LaneFilesAssumption DEF LaneInv, TypeOK, WorkerTypeOK, Stamp
  <2>2. \A n \in files("stale-foreign") : requeued[messageOf(n)] > 0
    BY DEF StampedWasRequeued, files
  <2>3. started <= 1 => files("needs-review") = {}
    BY DEF NothingDeferred, files
  <2>4. QED BY <2>1, <2>2, <2>3 DEF ParkedForItsReason
<1>5. QED BY <1>2, <1>3, <1>4, PTL DEF Spec

-----------------------------------------------------------------------------
(* A refusal is reported. The sender is told by the worker that unlinks the  *)
(* source; a worker that finds its source gone knows that another one has    *)
(* told the sender, or has put the message into needs-review or              *)
(* stale-foreign, where it stays.                                            *)

Refused(m) ==
  Content[m].nackable /\ Content[m].json /\ queueOf(m) \in {"blocked", "quarantine"}

Aside(m) ==
  \E d \in {"needs-review", "stale-foreign"}, n \in Name : messageOf(n) = m /\ exists(d, n)

Told(m) ==
  m \in nacked \/ \E w \in Worker : job[w].step = "report" /\ messageOf(job[w].name) = m

Unlinking(m) ==
  \E w \in Worker : job[w].step = "unlink" /\ messageOf(job[w].name) = m

RefusalInv ==
  stops = 0 =>
    \A m \in Msg : Refused(m) =>
      /\ \A w \in Worker :
           job[w].step \in {"write", "unlink"} /\ messageOf(job[w].name) = m
             => exists("inbox", job[w].name) \/ Told(m) \/ Aside(m)
      /\ \A d \in {"blocked", "quarantine"}, n \in Name :
           messageOf(n) = m /\ exists(d, n) => Told(m) \/ Aside(m) \/ Unlinking(m)

LEMMA AsideStays ==
  ASSUME LaneInv, AdmitInv, JobReason, [Next]_vars, NEW m, Aside(m)
  PROVE  Aside(m)'
<1>1. PICK d \in {"needs-review", "stale-foreign"}, n \in Name :
        messageOf(n) = m /\ exists(d, n)
  BY DEF Aside
<1>2. {"inbox", "quarantine", "archive", d} \subseteq Dirs /\ FilesTypeOK
  BY DEF LaneInv, TypeOK, Dirs
<1>3. ASSUME UNCHANGED box PROVE exists(d, n)'
  BY <1>1, <1>3 DEF exists
<1>4. ASSUME NEW k \in Msg, Deliver(k) PROVE exists(d, n)'
  <2>1. <<k, 0>> \in Name /\ 0 \in Stamp
    BY LaneFilesAssumption DEF Name, Stamp
  <2>2. Writes("inbox", <<k, 0>>, 0)
    BY <1>2, <1>4, <2>1, WriteExists DEF Deliver
  <2>3. QED BY <1>1, <1>2, <2>2 DEF Writes
<1>5. ASSUME NEW k \in Name, Reap(k) PROVE exists(d, n)'
  <2>1. PICK e \in {"inbox", "archive"} : rename("quarantine", k, e, k)
    BY <1>5 DEF Reap
  <2>2. Moves("quarantine", k, e, k)
    BY <1>2, <2>1, RenameExists
  <2>3. QED BY <1>1, <1>2, <2>2 DEF Moves
<1>6. ASSUME NEW w \in Worker, WriteCopy(w) PROVE exists(d, n)'
  <2>1. Writes(job[w].dir, job[w].to, session[w])
    BY <1>6, WorkerFiles
  <2>2. QED BY <1>1, <1>2, <2>1 DEF Writes
<1>7. ASSUME NEW w \in Worker, UnlinkSource(w) PROVE exists(d, n)'
  <2>1. UNCHANGED box \/ Unlinks("inbox", job[w].name)
    BY <1>7, WorkerFiles
  <2>2. QED BY <1>1, <1>2, <1>3, <2>1 DEF Unlinks
<1>8. ASSUME NEW w \in Worker, MoveFile(w) PROVE exists(d, n)'
  <2>1. UNCHANGED box \/ Moves("inbox", job[w].name, job[w].dir, job[w].to)
    BY <1>8, WorkerFiles
  <2>2. QED BY <1>1, <1>2, <1>3, <2>1 DEF Moves
<1>9. ASSUME ExecutorMoves PROVE exists(d, n)'
  <2>1. PICK c \in {"action-required", "in-progress"}, e \in RoutedDirs,
             i \in Name, k \in Name : Moves(c, i, e, k)
    BY <1>2, <1>9, ExecutorMovesFiles
  <2>2. QED BY <1>1, <1>2, <2>1 DEF Moves
<1>10. exists(d, n)'
  BY <1>3, <1>4, <1>5, <1>6, <1>7, <1>8, <1>9, FileChange
<1>11. QED BY <1>1, <1>10 DEF Aside

(* Only its own report or unlink ends a worker's report or unlink, as long   *)
(* as no worker is stopped.                                                  *)
LEMMA JobEnds ==
  ASSUME LaneInv, FirstSessionOwns, [Next]_vars, NEW w \in Worker,
         job[w].step \in {"unlink", "report"}, job'[w] # job[w], stops' = 0
  PROVE  \/ job[w].step = "report" /\ Report(w)
         \/ job[w].step = "unlink" /\ UnlinkSource(w)
<1>1. job \in [Worker -> Job] /\ stops \in Nat
  BY LanePipelineAssumption DEF LaneInv, TypeOK, WorkerTypeOK
<1>2. ASSUME NEW v \in Worker, v # w,
             StartWorker(v) \/ WorkerStep(v)
      PROVE  FALSE
  BY <1>1, <1>2 DEF StartWorker, WorkerStep, ClaimActiveOwner, ListInbox, ReadFile,
     WriteCopy, UnlinkSource, Report, MoveFile
<1>3. ASSUME StartWorker(w) \/ WorkerStep(w)
      PROVE  \/ job[w].step = "report" /\ Report(w)
             \/ job[w].step = "unlink" /\ UnlinkSource(w)
  <2>1. ~StartWorker(w)
    BY DEF StartWorker, FirstSessionOwns
  <2>2. QED BY <1>3, <2>1 DEF WorkerStep, ClaimActiveOwner, ListInbox, ReadFile,
               WriteCopy, UnlinkSource, Report, MoveFile
<1>4. ASSUME NEW v \in Worker, Stop(v) PROVE FALSE
  BY <1>1, <1>4 DEF Stop
<1>5. QED BY <1>2, <1>3, <1>4 DEF Next, WorkerNext, OwnerAges, OwnerClaimAges,
             ExecutorNext, Deliver, Reap, vars, workerVars

LEMMA ToldStays ==
  ASSUME LaneInv, FirstSessionOwns, JobReason, [Next]_vars, stops' = 0,
         NEW m \in Msg, Refused(m), Told(m)
  PROVE  Told(m)'
<1>1. nacked \subseteq nacked'
  BY DEF Next, WorkerNext, WorkerStep, StartWorker, ClaimActiveOwner, ListInbox, ReadFile,
     WriteCopy, UnlinkSource, Report, MoveFile, Stop, StopWorker, OwnerAges,
     OwnerClaimAges, ExecutorNext, Deliver, Reap, vars, workerVars
<1>2. ASSUME NEW w \in Worker, job[w].step = "report", messageOf(job[w].name) = m
      PROVE  Told(m)'
  <2>1. CASE job'[w] = job[w]
    BY <1>2, <2>1 DEF Told
  <2>2. CASE job'[w] # job[w]
    <3>1. Report(w)
      BY <1>2, <2>2, JobEnds
    <3>2. job[w].dir = DirOf(queueOf(m))
      BY <1>2 DEF JobReason, ReasonOf
    <3>3. job[w].dir \in {"blocked", "quarantine"}
      BY <3>2 DEF Refused, DirOf
    <3>4. m \in nacked'
      BY <1>2, <3>1, <3>3 DEF Report, Refused
    <3>5. QED BY <3>4 DEF Told
  <2>3. QED BY <2>1, <2>2
<1>3. QED BY <1>1, <1>2 DEF Told

(* The source of a refused message leaves the inbox with a report or aside.  *)
LEMMA SourceLeaves ==
  ASSUME LaneInv, AdmitInv, JobReason, [Next]_vars,
         NEW n \in Name, Refused(messageOf(n)), exists("inbox", n)
  PROVE  exists("inbox", n)' \/ Told(messageOf(n))' \/ Aside(messageOf(n))'
<1>1. {"inbox", "quarantine", "archive"} \subseteq Dirs /\ FilesTypeOK
  BY DEF LaneInv, TypeOK, Dirs
<1>2. ASSUME UNCHANGED box PROVE exists("inbox", n)'
  BY <1>2 DEF exists
<1>3. ASSUME NEW k \in Msg, Deliver(k) PROVE exists("inbox", n)'
  <2>1. <<k, 0>> \in Name /\ 0 \in Stamp
    BY LaneFilesAssumption DEF Name, Stamp
  <2>2. Writes("inbox", <<k, 0>>, 0)
    BY <1>1, <1>3, <2>1, WriteExists DEF Deliver
  <2>3. QED BY <1>1, <2>2 DEF Writes
<1>4. ASSUME NEW k \in Name, Reap(k) PROVE exists("inbox", n)'
  <2>1. PICK e \in {"inbox", "archive"} : rename("quarantine", k, e, k)
    BY <1>4 DEF Reap
  <2>2. Moves("quarantine", k, e, k)
    BY <1>1, <2>1, RenameExists
  <2>3. QED BY <1>1, <2>2 DEF Moves
<1>5. ASSUME NEW w \in Worker, WriteCopy(w) PROVE exists("inbox", n)'
  <2>1. Writes(job[w].dir, job[w].to, session[w])
    BY <1>5, WorkerFiles
  <2>2. QED BY <1>1, <2>1 DEF Writes
<1>6. ASSUME NEW w \in Worker, UnlinkSource(w)
      PROVE  exists("inbox", n)' \/ Told(messageOf(n))'
  <2>1. CASE job[w].name = n
    <3>1. job' = [job EXCEPT ![w].step = "report"]
      BY <1>6, <2>1 DEF UnlinkSource
    <3>2. job \in [Worker -> Job]
      BY DEF LaneInv, TypeOK, WorkerTypeOK
    <3>3. job'[w].step = "report" /\ job'[w].name = n
      BY <2>1, <3>1, <3>2 DEF Job
    <3>4. QED BY <3>3 DEF Told
  <2>2. CASE job[w].name # n
    <3>1. UNCHANGED box \/ Unlinks("inbox", job[w].name)
      BY <1>6, WorkerFiles
    <3>2. QED BY <1>1, <1>2, <2>2, <3>1 DEF Unlinks
  <2>3. QED BY <2>1, <2>2
<1>7. ASSUME NEW w \in Worker, MoveFile(w)
      PROVE  exists("inbox", n)' \/ Aside(messageOf(n))'
  <2>1. /\ UNCHANGED box \/ Moves("inbox", job[w].name, job[w].dir, job[w].to)
        /\ job[w].dir \in {"quarantine", "needs-review", "stale-foreign"}
        /\ job[w].to \in Name /\ messageOf(job[w].to) = messageOf(job[w].name)
        /\ job[w].step = "move"
    BY <1>7, WorkerFiles DEF Moving
  <2>2. CASE job[w].name = n /\ ~UNCHANGED box
    <3>1. job[w].dir \in {"needs-review", "stale-foreign"}
      BY <2>1, <2>2 DEF Refused, JobReason, ReasonOf
    <3>2. PICK e, k : e = job[w].dir /\ k = job[w].to
      OBVIOUS
    <3>3. Moves("inbox", n, e, k)
      BY <2>1, <2>2, <3>2
    <3>4. e \in Dirs /\ k \in Name
      BY <2>1, <3>1, <3>2 DEF Dirs
    <3>5. exists(e, k)'
      BY <3>3, <3>4 DEF Moves
    <3>6. QED BY <2>1, <2>2, <3>1, <3>2, <3>5 DEF Aside
  <2>3. CASE job[w].name # n
    BY <1>1, <1>2, <2>1, <2>3 DEF Moves
  <2>4. QED BY <1>2, <2>2, <2>3
<1>8. ASSUME ExecutorMoves PROVE exists("inbox", n)'
  <2>1. PICK c \in {"action-required", "in-progress"}, e \in RoutedDirs,
             i \in Name, k \in Name : Moves(c, i, e, k)
    BY <1>1, <1>8, ExecutorMovesFiles
  <2>2. QED BY <1>1, <2>1 DEF Moves
<1>9. QED BY <1>2, <1>3, <1>4, <1>5, <1>6, <1>7, <1>8, FileChange

(* A refused message comes to blocked or quarantine only as the copy of a    *)
(* worker, which then goes on to the unlink.                                 *)
LEMMA RefusedArrives ==
  ASSUME LaneInv, AdmitInv, JobReason, [Next]_vars,
         NEW d \in {"blocked", "quarantine"}, NEW n \in Name,
         Refused(messageOf(n)), ~exists(d, n), exists(d, n)'
  PROVE  Unlinking(messageOf(n))'
<1>1. {"inbox", "quarantine", "archive", d} \subseteq Dirs /\ FilesTypeOK
  BY DEF LaneInv, TypeOK, Dirs
<1>2. ~UNCHANGED box
  BY DEF exists
<1>3. ASSUME NEW k \in Msg, Deliver(k) PROVE FALSE
  <2>1. <<k, 0>> \in Name /\ 0 \in Stamp
    BY LaneFilesAssumption DEF Name, Stamp
  <2>2. Writes("inbox", <<k, 0>>, 0)
    BY <1>1, <1>3, <2>1, WriteExists DEF Deliver
  <2>3. QED BY <1>1, <2>2 DEF Writes
<1>4. ASSUME NEW k \in Name, Reap(k) PROVE FALSE
  <2>1. PICK e \in {"inbox", "archive"} : rename("quarantine", k, e, k)
    BY <1>4 DEF Reap
  <2>2. Moves("quarantine", k, e, k)
    BY <1>1, <2>1, RenameExists
  <2>3. QED BY <1>1, <2>1, <2>2 DEF Moves
<1>5. ASSUME NEW w \in Worker, WriteCopy(w) PROVE Unlinking(messageOf(n))'
  <2>1. /\ Writes(job[w].dir, job[w].to, session[w])
        /\ messageOf(job[w].to) = messageOf(job[w].name)
    BY <1>5, WorkerFiles DEF Moving
  <2>2. job[w].to = n
    BY <1>1, <2>1 DEF Writes
  <2>3. job' = [job EXCEPT ![w].step = "unlink"] /\ job \in [Worker -> Job]
    BY <1>5 DEF WriteCopy, LaneInv, TypeOK, WorkerTypeOK
  <2>4. job'[w].step = "unlink" /\ messageOf(job'[w].name) = messageOf(n)
    BY <2>1, <2>2, <2>3 DEF Job
  <2>5. QED BY <2>4 DEF Unlinking
<1>6. ASSUME NEW w \in Worker, UnlinkSource(w) PROVE FALSE
  <2>1. Unlinks("inbox", job[w].name)
    BY <1>2, <1>6, WorkerFiles
  <2>2. QED BY <1>1, <2>1 DEF Unlinks
<1>7. ASSUME NEW w \in Worker, MoveFile(w) PROVE FALSE
  <2>1. /\ Moves("inbox", job[w].name, job[w].dir, job[w].to)
        /\ messageOf(job[w].to) = messageOf(job[w].name) /\ job[w].step = "move"
    BY <1>2, <1>7, WorkerFiles DEF Moving
  <2>2. job[w].to = n /\ job[w].dir = d
    BY <1>1, <2>1 DEF Moves
  <2>3. QED BY <2>1, <2>2 DEF Refused, JobReason, ReasonOf
<1>8. ASSUME ExecutorMoves PROVE FALSE
  <2>1. PICK c \in {"action-required", "in-progress"}, e \in RoutedDirs,
             i \in Name, k \in Name :
          messageOf(k) = messageOf(i) /\ AdmittedTask(i) /\ Moves(c, i, e, k)
    BY <1>1, <1>8, ExecutorMovesFiles
  <2>2. k = n
    BY <1>1, <2>1 DEF Moves
  <2>3. QED BY <2>1, <2>2 DEF AdmittedTask, Refused
<1>9. QED BY <1>2, <1>3, <1>4, <1>5, <1>6, <1>7, <1>8, FileChange

LEMMA RefusalStep ==
  LaneInv /\ AdmitInv /\ JobReason /\ FirstSessionOwns /\ RefusalInv /\ [Next]_vars
    => RefusalInv'
<1> SUFFICES ASSUME LaneInv, AdmitInv, JobReason, FirstSessionOwns, RefusalInv,
                    [Next]_vars, stops' = 0, NEW m \in Msg, Refused(m)
             PROVE  /\ \A w \in Worker :
                         job'[w].step \in {"write", "unlink"} /\ messageOf(job'[w].name) = m
                           => exists("inbox", job[w].name)' \/ Told(m)' \/ Aside(m)'
                    /\ \A d \in {"blocked", "quarantine"}, n \in Name :
                         messageOf(n) = m /\ exists(d, n)'
                           => Told(m)' \/ Aside(m)' \/ Unlinking(m)'
  BY DEF RefusalInv, Refused
<1>1. stops = 0
  <2>1. stops \in Nat
    BY LanePipelineAssumption DEF LaneInv, TypeOK
  <2>2. stops' = stops \/ stops' = stops + 1
    BY DEF Next, WorkerNext, Stop, OwnerAges, ExecutorNext, Deliver, Reap, vars, laneVars
  <2>3. QED BY <2>1, <2>2
<1>2. Told(m) \/ Aside(m) => Told(m)' \/ Aside(m)'
  BY ToldStays, AsideStays
<1>3. ASSUME NEW w \in Worker, job[w].step \in {"write", "unlink"}, messageOf(job[w].name) = m,
             UNCHANGED job[w].name
      PROVE  exists("inbox", job[w].name)' \/ Told(m)' \/ Aside(m)'
  <2>1. PICK n \in Name : n = job[w].name
    BY <1>3 DEF LaneInv, JobOK, Moving
  <2>2. exists("inbox", n) \/ Told(m) \/ Aside(m)
    BY <1>1, <1>3, <2>1 DEF RefusalInv
  <2>3. exists("inbox", n)' \/ Told(m)' \/ Aside(m)'
    BY <1>2, <1>3, <2>1, <2>2, SourceLeaves
  <2>4. QED BY <1>3, <2>1, <2>3 DEF exists
<1>4. ASSUME NEW w \in Worker, job'[w].step \in {"write", "unlink"},
             messageOf(job'[w].name) = m
      PROVE  exists("inbox", job[w].name)' \/ Told(m)' \/ Aside(m)'
  <2>1. CASE job'[w] = job[w]
    BY <1>3, <1>4, <2>1
  <2>2. CASE GoesOn(w)
    <3>1. job[w] \in Job
      BY DEF LaneInv, TypeOK, WorkerTypeOK
    <3>2. job[w].step = "write" /\ job'[w].name = job[w].name
      BY <1>4, <2>2, <3>1 DEF GoesOn, WriteCopy, Job
    <3>3. QED BY <1>3, <1>4, <3>2
  <2>3. ASSUME NEW n \in Name, Chooses(w, n)
        PROVE  exists("inbox", job[w].name)'
    <3>1. job'[w].name = n
      BY <2>3 DEF Chooses
    <3>2. UNCHANGED box /\ exists("inbox", n)
      BY <2>3 DEF Chooses, ReadFile
    <3>3. QED BY <3>1, <3>2 DEF exists
  <2>4. QED BY <1>4, <2>1, <2>2, <2>3, JobChange
<1>5. ASSUME NEW d \in {"blocked", "quarantine"}, NEW n \in Name,
             messageOf(n) = m, exists(d, n)'
      PROVE  Told(m)' \/ Aside(m)' \/ Unlinking(m)'
  <2>1. CASE ~exists(d, n)
    BY <1>5, <2>1, RefusedArrives
  <2>2. CASE exists(d, n)
    <3>1. Told(m) \/ Aside(m) \/ Unlinking(m)
      BY <1>1, <1>5, <2>2 DEF RefusalInv
    <3>2. ASSUME NEW w \in Worker, job[w].step = "unlink", messageOf(job[w].name) = m
          PROVE  Told(m)' \/ Aside(m)' \/ Unlinking(m)'
      <4>1. CASE job'[w] = job[w]
        BY <3>2, <4>1 DEF Unlinking
      <4>2. CASE job'[w] # job[w] /\ exists("inbox", job[w].name)
        <5>1. UnlinkSource(w)
          BY <3>2, <4>2, JobEnds
        <5>2. job' = [job EXCEPT ![w].step = "report"] /\ job \in [Worker -> Job]
          BY <4>2, <5>1 DEF UnlinkSource, LaneInv, TypeOK, WorkerTypeOK
        <5>3. job'[w].step = "report" /\ job'[w].name = job[w].name
          BY <5>2 DEF Job
        <5>4. QED BY <3>2, <5>3 DEF Told
      <4>3. CASE ~exists("inbox", job[w].name)
        BY <1>1, <1>2, <3>2, <4>3 DEF RefusalInv
      <4>4. QED BY <4>1, <4>2, <4>3
    <3>3. QED BY <1>2, <3>1, <3>2 DEF Unlinking
  <2>3. QED BY <2>1, <2>2
<1>6. QED BY <1>4, <1>5

(* While no worker is stopped, a message that was refused rests in blocked   *)
(* or quarantine only when its sender is told, or the worker on it will tell *)
(* (lane-worker.js 1067-1078), or when it is in needs-review or              *)
(* stale-foreign as well: for any number of workers, deliveries and requeues.*)
THEOREM RefusalIsAlwaysReported == Spec => []RefusalIsReported
<1> DEFINE Inv == LaneInv /\ AdmitInv /\ JobReason /\ FirstSessionOwns /\ RefusalInv
<1>1. Init => FirstSessionOwns /\ RefusalInv
  BY DEF Init, WorkerInit, FirstSessionOwns, RefusalInv, exists, Dirs, Idle
<1>2. Init => Inv
  BY <1>1, LaneInit, AdmitStart, JobReasonInit
<1>3. Inv /\ [Next]_vars => Inv'
  BY LaneStep, AdmitStep, JobReasonStep, FirstSessionStep, RefusalStep
<1>4. Inv => RefusalIsReported
  <2> SUFFICES ASSUME RefusalInv, stops = 0, NEW m \in Msg, Refused(m),
                      NEW n \in files("blocked") \cup files("quarantine"), messageOf(n) = m,
                      \A k \in files("needs-review") \cup files("stale-foreign") : messageOf(k) # m
               PROVE  m \in nacked \/ \E w \in Worker : job[w].step \in {"unlink", "report"}
                                                      /\ messageOf(job[w].name) = m
    BY DEF RefusalIsReported, Refused
  <2>1. PICK d \in {"blocked", "quarantine"} : n \in Name /\ exists(d, n)
    BY DEF files
  <2>2. ~Aside(m)
    BY DEF Aside, files
  <2>3. Told(m) \/ Unlinking(m)
    BY <2>1, <2>2 DEF RefusalInv
  <2>4. QED BY <2>3 DEF Told, Unlinking
<1>5. QED BY <1>2, <1>3, <1>4, PTL DEF Spec

-----------------------------------------------------------------------------
(* Executions are admitted. Every copy that a worker has put into            *)
(* action-required is waiting there, or an executor has it, or it has been   *)
(* executed or taken away: the sum of the first three never exceeds what was *)
(* put in. An autonomous executor that holds a file counts as well, because  *)
(* it may put the file back.                                                 *)

engaged(m) ==
  {x \in Executor : \/ phase[x] = "execute" /\ messageOf(cur[x]) = m
                    \/ phase[x] = "hold" /\ messageOf(own[x]) = m}

CountInv ==
  \A m \in Msg :
    executed[m] + Cardinality(waiting(m)) + Cardinality(engaged(m)) <= admitted[m]

LEMMA NamesFinite ==
  ASSUME NEW m, NEW S \in SUBSET {n \in Name : messageOf(n) = m}
  PROVE  IsFiniteSet(S)
<1>1. IsFiniteSet({m} \X (0..MaxTag))
  <2>1. IsFiniteSet({m})
    BY FS_Singleton
  <2>2. IsFiniteSet(0..MaxTag)
    BY LaneFilesAssumption, FS_Interval
  <2>3. QED BY <2>1, <2>2, FS_Product
<1>2. S \subseteq {m} \X (0..MaxTag)
  BY DEF Name, messageOf
<1>3. QED BY <1>1, <1>2, FS_Subset

LEMMA ExecutorsFinite ==
  ASSUME NEW S \in SUBSET Executor
  PROVE  IsFiniteSet(S)
BY LaneExecutorAssumption, FS_Subset

(* Counting: a set that has gained at most one element, and one that has     *)
(* lost at least one.                                                        *)
LEMMA CountGain ==
  ASSUME NEW S, IsFiniteSet(S), NEW e, NEW T \in SUBSET (S \cup {e})
  PROVE  /\ Cardinality(S) \in Nat /\ Cardinality(T) \in Nat
         /\ Cardinality(T) <= Cardinality(S) + 1
<1>1. IsFiniteSet(S \cup {e}) /\ Cardinality(S \cup {e}) <= Cardinality(S) + 1
  <2>1. Cardinality(S) \in Nat
    BY FS_CardinalityType
  <2>2. /\ IsFiniteSet(S \cup {e})
        /\ Cardinality(S \cup {e}) = IF e \in S THEN Cardinality(S) ELSE Cardinality(S) + 1
    BY FS_AddElement
  <2>3. QED BY <2>1, <2>2
<1>2. IsFiniteSet(T) /\ Cardinality(T) <= Cardinality(S \cup {e})
  BY <1>1, FS_Subset
<1>3. QED BY <1>1, <1>2, FS_CardinalityType

LEMMA CountLoss ==
  ASSUME NEW S, IsFiniteSet(S), NEW e \in S, NEW T \in SUBSET (S \ {e})
  PROVE  /\ Cardinality(S) \in Nat /\ Cardinality(T) \in Nat
         /\ Cardinality(T) + 1 <= Cardinality(S)
<1>1. IsFiniteSet(S \ {e}) /\ Cardinality(S \ {e}) = Cardinality(S) - 1
  BY FS_RemoveElement
<1>2. IsFiniteSet(T) /\ Cardinality(T) <= Cardinality(S \ {e})
  BY <1>1, FS_Subset
<1>3. QED BY <1>1, <1>2, FS_CardinalityType

LEMMA CountLess ==
  ASSUME NEW S, IsFiniteSet(S), NEW T \in SUBSET S
  PROVE  /\ Cardinality(S) \in Nat /\ Cardinality(T) \in Nat
         /\ Cardinality(T) <= Cardinality(S)
BY FS_Subset, FS_CardinalityType

LEMMA CountedSets ==
  ASSUME NEW m
  PROVE  /\ IsFiniteSet(waiting(m)) /\ IsFiniteSet(engaged(m))
         /\ \A n : n \in waiting(m) <=>
                    n \in Name /\ messageOf(n) = m /\ exists("action-required", n)
<1>1. \A n : n \in waiting(m) <=>
               n \in Name /\ messageOf(n) = m /\ exists("action-required", n)
  BY DEF waiting, files
<1>2. waiting(m) \in SUBSET {n \in Name : messageOf(n) = m}
  BY <1>1
<1>3. engaged(m) \in SUBSET Executor
  BY DEF engaged
<1>4. QED BY <1>1, <1>2, <1>3, NamesFinite, ExecutorsFinite

LEMMA CountTypes ==
  ASSUME LaneInv, NEW m \in Msg
  PROVE  executed[m] \in Nat /\ admitted[m] \in Nat
BY DEF LaneInv, TypeOK, WorkerTypeOK, ExecutorTypeOK

(* A step that brings nothing to action-required and engages no executor.    *)
Spends(m) ==
  /\ waiting(m)' \subseteq waiting(m) /\ engaged(m)' \subseteq engaged(m)
  /\ executed'[m] = executed[m] /\ admitted'[m] >= admitted[m]

(* One file leaves action-required and engages an executor.                  *)
Engages(m) ==
  /\ \E n \in waiting(m) : waiting(m)' \subseteq waiting(m) \ {n}
  /\ \E x \in Executor : engaged(m)' \subseteq engaged(m) \cup {x}
  /\ executed'[m] = executed[m] /\ admitted'[m] = admitted[m]

(* An executor is done with its file: it puts it back or executes it.        *)
Disengages(m) ==
  /\ \E x \in engaged(m) : engaged(m)' \subseteq engaged(m) \ {x}
  /\ \/ /\ \E n \in Name : waiting(m)' \subseteq waiting(m) \cup {n}
        /\ executed'[m] = executed[m]
     \/ waiting(m)' \subseteq waiting(m) /\ executed'[m] = executed[m] + 1
  /\ admitted'[m] = admitted[m]

(* A worker puts a copy in.                                                  *)
Admits(m) ==
  /\ \E n \in Name : waiting(m)' \subseteq waiting(m) \cup {n}
  /\ engaged(m)' \subseteq engaged(m)
  /\ executed'[m] = executed[m] /\ admitted'[m] = admitted[m] + 1

LEMMA Balance ==
  ASSUME LaneInv, LaneInv', CountInv, NEW m \in Msg,
         Spends(m) \/ Engages(m) \/ Disengages(m) \/ Admits(m)
  PROVE  executed'[m] + Cardinality(waiting(m)') + Cardinality(engaged(m)') <= admitted'[m]
<1>1. PICK W, W1, E, E1 : W = waiting(m) /\ W1 = waiting(m)' /\ E = engaged(m) /\ E1 = engaged(m)'
  OBVIOUS
<1>2. PICK ex, ex1, ad, ad1 \in Nat :
        ex = executed[m] /\ ex1 = executed'[m] /\ ad = admitted[m] /\ ad1 = admitted'[m]
  BY DEF LaneInv, TypeOK, WorkerTypeOK, ExecutorTypeOK
<1>3. IsFiniteSet(W) /\ IsFiniteSet(E)
  BY <1>1, CountedSets
<1>4. ex + Cardinality(W) + Cardinality(E) <= ad
  BY <1>1, <1>2 DEF CountInv
<1>5. ex1 + Cardinality(W1) + Cardinality(E1) <= ad1
  <2>1. CASE Spends(m)
    <3>1. W1 \subseteq W /\ E1 \subseteq E /\ ex1 = ex /\ ad1 >= ad
      BY <1>1, <1>2, <2>1 DEF Spends
    <3>2. /\ Cardinality(W) \in Nat /\ Cardinality(W1) \in Nat
          /\ Cardinality(W1) <= Cardinality(W)
      BY <1>3, <3>1, CountLess
    <3>3. /\ Cardinality(E) \in Nat /\ Cardinality(E1) \in Nat
          /\ Cardinality(E1) <= Cardinality(E)
      BY <1>3, <3>1, CountLess
    <3>4. QED BY <1>2, <1>4, <3>1, <3>2, <3>3
  <2>2. CASE Engages(m)
    <3>0. PICK n \in W : \E x : W1 \subseteq W \ {n} /\ E1 \subseteq E \cup {x}
      BY <1>1, <2>2 DEF Engages
    <3>1. PICK x : W1 \subseteq W \ {n} /\ E1 \subseteq E \cup {x}
      BY <3>0
    <3>2. ex1 = ex /\ ad1 = ad
      BY <1>2, <2>2 DEF Engages
    <3>3. /\ Cardinality(W) \in Nat /\ Cardinality(W1) \in Nat
          /\ Cardinality(W1) + 1 <= Cardinality(W)
      BY <1>3, <3>1, CountLoss
    <3>4. /\ Cardinality(E) \in Nat /\ Cardinality(E1) \in Nat
          /\ Cardinality(E1) <= Cardinality(E) + 1
      BY <1>3, <3>1, CountGain
    <3>5. QED BY <1>2, <1>4, <3>2, <3>3, <3>4
  <2>3. CASE Disengages(m)
    <3>1. PICK x \in E : E1 \subseteq E \ {x}
      BY <1>1, <2>3 DEF Disengages
    <3>2. /\ Cardinality(E) \in Nat /\ Cardinality(E1) \in Nat
          /\ Cardinality(E1) + 1 <= Cardinality(E)
      BY <1>3, <3>1, CountLoss
    <3>3. ad1 = ad
      BY <1>2, <2>3 DEF Disengages
    <3>4. CASE W1 \subseteq W /\ ex1 = ex + 1
      <4>1. /\ Cardinality(W) \in Nat /\ Cardinality(W1) \in Nat
            /\ Cardinality(W1) <= Cardinality(W)
        BY <1>3, <3>4, CountLess
      <4>2. QED BY <1>2, <1>4, <3>2, <3>3, <3>4, <4>1
    <3>5. CASE ex1 = ex /\ \E n \in Name : W1 \subseteq W \cup {n}
      <4>1. /\ Cardinality(W) \in Nat /\ Cardinality(W1) \in Nat
            /\ Cardinality(W1) <= Cardinality(W) + 1
        BY <1>3, <3>5, CountGain
      <4>2. QED BY <1>2, <1>4, <3>2, <3>3, <3>5, <4>1
    <3>6. QED BY <1>1, <1>2, <2>3, <3>4, <3>5 DEF Disengages
  <2>4. CASE Admits(m)
    <3>1. PICK n : W1 \subseteq W \cup {n}
      BY <1>1, <2>4 DEF Admits
    <3>2. E1 \subseteq E /\ ex1 = ex /\ ad1 = ad + 1
      BY <1>1, <1>2, <2>4 DEF Admits
    <3>3. /\ Cardinality(W) \in Nat /\ Cardinality(W1) \in Nat
          /\ Cardinality(W1) <= Cardinality(W) + 1
      BY <1>3, <3>1, CountGain
    <3>4. /\ Cardinality(E) \in Nat /\ Cardinality(E1) \in Nat
          /\ Cardinality(E1) <= Cardinality(E)
      BY <1>3, <3>2, CountLess
    <3>5. QED BY <1>2, <1>4, <3>2, <3>3, <3>4
  <2>5. QED BY <2>1, <2>2, <2>3, <2>4
<1>6. QED BY <1>1, <1>2, <1>5

ActionOf(x) ==
  \/ ExecutorProgress(x) \/ Throws(x) \/ Crash(x)
  \/ \E n \in Name : WatcherBlock(x, n) \/ AutonomousExpire(x, n)

LEMMA OthersWait ==
  ASSUME LaneInv, NEW x \in Executor, ActionOf(x)
  PROVE  \A y \in Executor \ {x} :
           phase'[y] = phase[y] /\ cur'[y] = cur[y] /\ own'[y] = own[y]
<1>1. /\ phase \in [Executor -> Phase] /\ cur \in [Executor -> Name \cup {NoName}]
      /\ own \in [Executor -> Name \cup {NoName}]
  BY DEF LaneInv, TypeOK, ExecutorTypeOK
<1>2. CASE ExecutorProgress(x)
  BY <1>1, <1>2 DEF ExecutorProgress, RunGeneric, AutonomousReturn, AutonomousRun, Execute,
     DeliverResponse, FinishTask, EndRun, WatcherClose, AutonomousReject, AutonomousClose,
     WatcherRun, AutonomousHold, Take, StartRun
<1>3. CASE Throws(x) \/ Crash(x)
  BY <1>1, <1>3 DEF Throws, Crash
<1>4. CASE \E n \in Name : WatcherBlock(x, n) \/ AutonomousExpire(x, n)
  BY <1>4 DEF WatcherBlock, AutonomousExpire, executorVars
<1>5. QED BY <1>2, <1>3, <1>4 DEF ActionOf

EngagedOn(x, m) ==
  \/ phase[x] = "execute" /\ messageOf(cur[x]) = m
  \/ phase[x] = "hold" /\ messageOf(own[x]) = m

LEMMA EngagedSet ==
  ASSUME LaneInv, NEW x \in Executor, ActionOf(x), NEW m
  PROVE  /\ engaged(m)' \subseteq engaged(m) \cup {x}
         /\ ~EngagedOn(x, m)' => engaged(m)' \subseteq engaged(m) \ {x}
         /\ x \in engaged(m) <=> EngagedOn(x, m)
BY OthersWait DEF engaged, EngagedOn

LEMMA WaitingSet ==
  ASSUME AddsNoTask, NEW m
  PROVE  waiting(m)' \subseteq waiting(m)
BY DEF AddsNoTask, waiting, files

LEMMA ActionCounts ==
  ASSUME LaneInv, NEW x \in Executor, ActionOf(x), UNCHANGED <<workerVars, laneVars>>,
         NEW m \in Msg
  PROVE  Spends(m) \/ Engages(m) \/ Disengages(m)
<1> USE DEF LaneInv, TypeOK, ExecutorTypeOK
<1>1. admitted'[m] = admitted[m] /\ admitted[m] \in Nat
  BY DEF workerVars, WorkerTypeOK
<1>2. "action-required" \in Dirs /\ FilesTypeOK
  BY DEF Dirs
(* The step takes n from action-required and leaves x engaged on it, or not. *)
<1>3. ASSUME NEW n \in Name, Take(x, n) \/ AutonomousHold(x, n)
      PROVE  Spends(m) \/ Engages(m)
  <2>1. executed'[m] = executed[m]
    BY <1>3 DEF Take, AutonomousHold
  <2>2. CASE exists("action-required", n)
    <3>1. rename("action-required", n, "in-progress", n)
      BY <1>3, <2>2 DEF Take, AutonomousHold
    <3>2. Moves("action-required", n, "in-progress", n) /\ AddsNoTask
      BY <1>2, <3>1, RenameExists, RenameAddsNoTask DEF Dirs
    <3>3. waiting(m)' \subseteq waiting(m)
      BY <3>2, WaitingSet
    <3>4. CASE messageOf(n) = m
      <4>1. n \in waiting(m) /\ ~exists("action-required", n)'
        BY <1>2, <2>2, <3>2, <3>4, CountedSets DEF Moves
      <4>2. n \notin waiting(m)'
        BY <4>1 DEF waiting, files
      <4>3. Engages(m)
        BY <1>1, <2>1, <3>3, <4>1, <4>2, EngagedSet DEF Engages
      <4>4. QED BY <4>3
    <3>5. CASE messageOf(n) # m
      <4>1. ~EngagedOn(x, m)'
        BY <1>3, <2>2, <3>5 DEF Take, AutonomousHold, EngagedOn
      <4>2. QED BY <1>1, <2>1, <3>3, <4>1, EngagedSet DEF Spends
    <3>6. QED BY <3>4, <3>5
  <2>3. CASE ~exists("action-required", n)
    <3>1. UNCHANGED <<box, cur, phase, own>>
      BY <1>3, <2>3 DEF Take, AutonomousHold, rename
    <3>2. waiting(m)' = waiting(m) /\ engaged(m)' = engaged(m)
      BY <3>1 DEF waiting, files, exists, engaged
    <3>3. QED BY <1>1, <2>1, <3>2 DEF Spends
  <2>4. QED BY <2>2, <2>3
<1>4. CASE AutonomousReturn(x)
  <2>1. PICK n \in Name : n = own[x]
    BY <1>4 DEF AutonomousReturn, ExecOK
  <2>2. ~EngagedOn(x, m)'
    BY <1>4 DEF AutonomousReturn, EngagedOn
  <2>3. UNCHANGED box \/ rename("in-progress", n, "action-required", n)
    BY <1>4, <2>1 DEF AutonomousReturn
  <2>4. UNCHANGED box \/ Moves("in-progress", n, "action-required", n)
    BY <1>2, <2>3, RenameExists DEF Dirs
  <2>5. \A k \in Name : exists("action-required", k)' => exists("action-required", k) \/ k = n
    BY <1>2, <2>4 DEF Moves, exists
  <2>6. executed'[m] = executed[m]
    BY <1>4 DEF AutonomousReturn
  <2>7. CASE messageOf(n) = m
    <3>1. x \in engaged(m)
      BY <1>4, <2>1, <2>7, EngagedSet DEF EngagedOn, AutonomousReturn
    <3>2. waiting(m)' \subseteq waiting(m) \cup {n}
      BY <2>5 DEF waiting, files
    <3>3. QED BY <1>1, <2>1, <2>2, <2>6, <3>1, <3>2, EngagedSet DEF Disengages
  <2>8. CASE messageOf(n) # m
    <3>1. waiting(m)' \subseteq waiting(m)
      BY <2>5, <2>8 DEF waiting, files
    <3>2. QED BY <1>1, <2>2, <2>6, <3>1, EngagedSet DEF Spends
  <2>9. QED BY <2>7, <2>8
<1>5. CASE Execute(x)
  <2>1. messageOf(cur[x]) \in Msg
    BY <1>5, NameType DEF Execute, ExecOK
  <2>2. ~EngagedOn(x, m)'
    BY <1>5 DEF Execute, EngagedOn
  <2>3. waiting(m)' = waiting(m)
    BY <1>5 DEF Execute, waiting, files, exists
  <2>4. CASE messageOf(cur[x]) = m
    <3>1. x \in engaged(m)
      BY <1>5, <2>4, EngagedSet DEF EngagedOn, Execute
    <3>2. executed'[m] = executed[m] + 1
      BY <1>5, <2>1, <2>4 DEF Execute
    <3>3. QED BY <1>1, <2>2, <2>3, <3>1, <3>2, EngagedSet DEF Disengages
  <2>5. CASE messageOf(cur[x]) # m
    <3>1. executed'[m] = executed[m]
      BY <1>5, <2>1, <2>5 DEF Execute
    <3>2. QED BY <1>1, <2>2, <2>3, <3>1, EngagedSet DEF Spends
  <2>6. QED BY <2>4, <2>5
(* All the others bring nothing to action-required and engage nobody.        *)
<1>6. ASSUME AddsNoTask, executed'[m] = executed[m],
             phase'[x] \notin {"execute", "hold"}
      PROVE  Spends(m)
  <2>1. ~EngagedOn(x, m)'
    BY <1>6 DEF EngagedOn
  <2>2. QED BY <1>1, <1>6, <2>1, WaitingSet, EngagedSet DEF Spends
<1>7. CASE FinishTask(x) \/ AutonomousReject(x) \/ AutonomousClose(x)
  <2>1. PICK n \in Name, k \in Name, e \in {"processed", "quarantine"} :
          rename("in-progress", n, e, k) \/ UNCHANGED box
    BY <1>7, UniquePath DEF FinishTask, AutonomousReject, AutonomousClose, ExecOK, Dirs
  <2>2. AddsNoTask
    BY <1>2, <2>1, RenameAddsNoTask, SameBoxAddsNoTask DEF Dirs
  <2>3. executed'[m] = executed[m] /\ phase'[x] \notin {"execute", "hold"}
    BY <1>7 DEF FinishTask, AutonomousReject, AutonomousClose
  <2>4. QED BY <1>6, <2>2, <2>3
<1>8. CASE \/ RunGeneric(x) \/ AutonomousRun(x) \/ DeliverResponse(x) \/ EndRun(x)
           \/ WatcherClose(x) \/ Throws(x) \/ Crash(x)
           \/ \E n \in Name : WatcherRun(x, n)
  <2>1. UNCHANGED box /\ executed'[m] = executed[m] /\ phase'[x] \notin {"execute", "hold"}
    BY <1>8 DEF RunGeneric, AutonomousRun, DeliverResponse, EndRun, WatcherClose, Throws,
       Crash, WatcherRun, StartRun
  <2>2. QED BY <1>6, <2>1, SameBoxAddsNoTask
<1>9. ASSUME NEW n \in Name, WatcherBlock(x, n) \/ AutonomousExpire(x, n)
      PROVE  Spends(m)
  <2>1. PICK e \in {"blocked", "processed"}, k \in Name :
          rename("action-required", n, e, k)
    BY <1>9, UniquePath DEF WatcherBlock, AutonomousExpire, Dirs
  <2>2. AddsNoTask
    BY <1>2, <2>1, RenameAddsNoTask DEF Dirs
  <2>3. executed'[m] = executed[m] /\ phase'[x] \notin {"execute", "hold"}
    BY <1>9 DEF WatcherBlock, AutonomousExpire, executorVars
  <2>4. QED BY <1>6, <2>2, <2>3
<1>10. QED BY <1>3, <1>4, <1>5, <1>7, <1>8, <1>9 DEF ActionOf, ExecutorProgress

LEMMA WorkerCounts ==
  ASSUME LaneInv, JobReason, NEW w \in Worker, UNCHANGED executorVars,
         StartWorker(w) \/ WorkerStep(w) \/ StopWorker(w), NEW m \in Msg
  PROVE  Spends(m) \/ Admits(m)
<1>1. engaged(m)' = engaged(m) /\ executed'[m] = executed[m]
  BY DEF engaged, executorVars
<1>2. admitted[m] \in Nat /\ admitted \in [Msg -> Nat] /\ {"action-required", "inbox"} \subseteq Dirs
  BY DEF LaneInv, TypeOK, WorkerTypeOK, Dirs
<1>3. ASSUME AddsNoTask, admitted'[m] = admitted[m] PROVE Spends(m)
  BY <1>1, <1>2, <1>3, WaitingSet DEF Spends
<1>4. CASE WriteCopy(w)
  <2>1. /\ Writes(job[w].dir, job[w].to, session[w])
        /\ job[w].to \in Name /\ messageOf(job[w].to) = messageOf(job[w].name)
    BY <1>4, WorkerFiles DEF Moving
  <2>2. PICK n \in Name : n = job[w].to
    BY <2>1
  <2>3. \A k \in Name : exists("action-required", k)' =>
          exists("action-required", k) \/ (job[w].dir = "action-required" /\ k = n)
    BY <1>2, <2>1, <2>2 DEF Writes
  <2>4. CASE job[w].dir \in ExecutorDirs /\ messageOf(n) = m
    <3>1. admitted'[m] = admitted[m] + 1
      BY <1>2, <1>4, <2>1, <2>2, <2>4 DEF WriteCopy
    <3>2. waiting(m)' \subseteq waiting(m) \cup {n}
      BY <2>3 DEF waiting, files
    <3>3. QED BY <1>1, <3>1, <3>2 DEF Admits
  <2>5. CASE ~(job[w].dir \in ExecutorDirs /\ messageOf(n) = m)
    <3>1. admitted'[m] = admitted[m]
      BY <1>2, <1>4, <2>1, <2>2, <2>5 DEF WriteCopy
    <3>2. waiting(m)' \subseteq waiting(m)
      BY <2>3, <2>5 DEF waiting, files, ExecutorDirs
    <3>3. QED BY <1>1, <1>2, <3>1, <3>2 DEF Spends
  <2>6. QED BY <2>4, <2>5
<1>5. CASE UnlinkSource(w)
  <2>1. UNCHANGED box \/ Unlinks("inbox", job[w].name)
    BY <1>5, WorkerFiles
  <2>2. AddsNoTask
    BY <1>2, <2>1 DEF Unlinks, AddsNoTask, exists
  <2>3. QED BY <1>3, <1>5, <2>2 DEF UnlinkSource
<1>6. CASE MoveFile(w)
  <2>1. /\ UNCHANGED box \/ Moves("inbox", job[w].name, job[w].dir, job[w].to)
        /\ job[w].dir \in {"quarantine", "needs-review", "stale-foreign"}
    BY <1>6, WorkerFiles
  <2>2. AddsNoTask
    BY <1>2, <2>1 DEF Moves, AddsNoTask, exists
  <2>3. QED BY <1>3, <1>6, <2>2 DEF MoveFile
<1>7. CASE UNCHANGED <<box, admitted>>
  BY <1>3, <1>7, SameBoxAddsNoTask
<1>8. QED BY <1>4, <1>5, <1>6, <1>7 DEF WorkerStep, StartWorker, StopWorker,
             ClaimActiveOwner, ListInbox, ReadFile, Report

LEMMA CountStep == LaneInv /\ JobReason /\ CountInv /\ [Next]_vars => CountInv'
<1> SUFFICES ASSUME LaneInv, JobReason, CountInv, [Next]_vars, NEW m \in Msg
             PROVE  executed'[m] + Cardinality(waiting(m)') + Cardinality(engaged(m)')
                      <= admitted'[m]
  BY DEF CountInv
<1>1. LaneInv'
  BY LaneStep
<1>2. admitted[m] \in Nat
  BY CountTypes
<1>3. CASE ExecutorNext
  <2>1. PICK x \in Executor : ActionOf(x)
    BY <1>3 DEF ExecutorNext, ActionOf
  <2>2. UNCHANGED <<workerVars, laneVars>>
    BY <1>3 DEF ExecutorNext
  <2>3. QED BY <1>1, <2>1, <2>2, ActionCounts, Balance
<1>4. CASE WorkerNext \/ \E w \in Worker : Stop(w)
  <2>1. PICK w \in Worker : StartWorker(w) \/ WorkerStep(w) \/ StopWorker(w)
    BY <1>4 DEF WorkerNext, Stop
  <2>2. UNCHANGED executorVars
    BY <1>4 DEF WorkerNext, Stop
  <2>3. QED BY <1>1, <2>1, <2>2, WorkerCounts, Balance
<1>5. ASSUME AddsNoTask, UNCHANGED <<executorVars, admitted>> PROVE Spends(m)
  BY <1>2, <1>5, WaitingSet DEF Spends, engaged, executorVars
<1>6. CASE OwnerAges \/ UNCHANGED vars
  <2>1. UNCHANGED <<box, executorVars, admitted>>
    BY <1>6 DEF OwnerAges, OwnerClaimAges, vars, workerVars
  <2>2. QED BY <1>1, <1>5, <2>1, SameBoxAddsNoTask, Balance
<1>7. ASSUME NEW i \in Msg, Deliver(i) PROVE Spends(m)
  <2>1. <<i, 0>> \in Name /\ 0 \in Stamp
    BY LaneFilesAssumption DEF Name, Stamp
  <2>2. AddsNoTask
    BY <1>7, <2>1, WriteAddsTask DEF Deliver, AddsNoTask, LaneInv, TypeOK, Dirs
  <2>3. QED BY <1>5, <1>7, <2>2 DEF Deliver, workerVars
<1>8. ASSUME NEW n \in Name, Reap(n) PROVE Spends(m)
  <2>1. AddsNoTask
    BY <1>8, RenameAddsNoTask DEF Reap, LaneInv, TypeOK, Dirs
  <2>2. QED BY <1>5, <1>8, <2>1 DEF Reap, workerVars
<1>9. QED BY <1>1, <1>3, <1>4, <1>6, <1>7, <1>8, Balance DEF Next

(* Executors that fail, crash, put tasks back or race for them never         *)
(* multiply a task: each execution uses up one copy that a worker has put    *)
(* into action-required (generic-task-executor.js 1833,                      *)
(* autonomous-executor.js), for any number of workers and executors.         *)
THEOREM ExecutionsAreAlwaysAdmitted == Spec => []ExecutionsWereAdmitted
<1> DEFINE Inv == LaneInv /\ JobReason /\ CountInv
<1>1. Init => CountInv
  <2> SUFFICES ASSUME Init, NEW m \in Msg
               PROVE  executed[m] + Cardinality(waiting(m)) + Cardinality(engaged(m))
                        <= admitted[m]
    BY DEF CountInv
  <2>1. waiting(m) = {} /\ engaged(m) = {} /\ executed[m] = 0 /\ admitted[m] = 0
    BY DEF Init, WorkerInit, ExecutorInit, waiting, files, exists, engaged, Dirs
  <2>2. QED BY <2>1, FS_EmptySet
<1>2. Init => Inv
  BY <1>1, LaneInit, JobReasonInit
<1>3. Inv /\ [Next]_vars => Inv'
  BY LaneStep, JobReasonStep, CountStep
<1>4. Inv => ExecutionsWereAdmitted
  <2> SUFFICES ASSUME Inv, NEW m \in Msg
               PROVE  executed[m] + Cardinality(waiting(m)) + Cardinality(atWork(m))
                        <= admitted[m]
    BY DEF ExecutionsWereAdmitted
  <2>1. executed[m] \in Nat /\ admitted[m] \in Nat
    BY CountTypes
  <2>2. Cardinality(waiting(m)) \in Nat
    BY CountedSets, FS_CardinalityType
  <2>3. atWork(m) \subseteq engaged(m)
    BY DEF atWork, engaged
  <2>4. /\ Cardinality(engaged(m)) \in Nat /\ Cardinality(atWork(m)) \in Nat
        /\ Cardinality(atWork(m)) <= Cardinality(engaged(m))
    BY <2>3, CountedSets, CountLess
  <2>5. executed[m] + Cardinality(waiting(m)) + Cardinality(engaged(m)) <= admitted[m]
    BY DEF CountInv
  <2>6. QED BY <2>1, <2>2, <2>4, <2>5
<1>5. QED BY <1>2, <1>3, <1>4, PTL DEF Spec

-----------------------------------------------------------------------------
(* One worker that never stops, and no message delivered twice: the setting  *)
(* in which a lane promises that a message is in one place and its task runs *)
(* once.                                                                     *)

OneDelivery ==
  /\ \A v, w \in Worker : v = w
  /\ MaxStops = 0
  /\ MaxDeliver <= 1

(* A file counts as settled unless it is the source that the worker is about *)
(* to unlink.                                                                *)
settled(d, n) ==
  /\ exists(d, n)
  /\ \A w \in Worker : job[w].step = "unlink" => <<d, n>> # <<"inbox", job[w].name>>

Executes(x, n) == phase[x] = "execute" /\ cur[x] = n
Holds(x, n) == kindOf[x] = "autonomous" /\ phase[x] # "idle" /\ own[x] = n

OnePlace ==
  \A d, e \in Dirs, n, k \in Name :
    settled(d, n) /\ settled(e, k) /\ messageOf(n) = messageOf(k) => d = e /\ n = k

NothingBefore ==
  \A n \in Name : delivered[messageOf(n)] = 0 =>
    /\ \A d \in Dirs : ~exists(d, n)
    /\ executed[messageOf(n)] = 0
    /\ \A w \in Worker : job[w].step \in Moving => messageOf(job[w].name) # messageOf(n)

SourceIsThere ==
  \A w \in Worker :
    /\ job[w].step \in {"write", "move"} => exists("inbox", job[w].name)
    /\ session[w] = 0 => job[w].step = "idle" /\ listing[w] = {}

(* A file in the hands of an executor has not run, and is in no other hands; *)
(* one that has run goes nowhere but to processed.                           *)
ClaimedOnce ==
  \A x \in Executor, n \in Name :
    /\ Executes(x, n) \/ Holds(x, n) => exists("in-progress", n) /\ executed[messageOf(n)] = 0
    /\ \A y \in Executor : /\ Executes(x, n) /\ Executes(y, n) => x = y
                           /\ Holds(x, n) /\ Holds(y, n) => x = y
                           /\ ~(Executes(x, n) /\ Holds(y, n))

RunOnce ==
  \A n \in Name : executed[messageOf(n)] > 0 =>
    /\ executed[messageOf(n)] = 1
    /\ \A d \in Dirs : settled(d, n) => d \in {"in-progress", "processed"}

TasksRan ==
  \A x \in Executor :
    /\ phase[x] \in {"deliver", "finish"} => executed[messageOf(cur[x])] > 0
    /\ phase[x] = "hold" => kindOf[x] = "autonomous"

OnceInv ==
  OnePlace /\ NothingBefore /\ SourceIsThere /\ ClaimedOnce /\ RunOnce /\ TasksRan

(* A step takes a settled file to another place, or settles nothing and      *)
(* removes nothing but a source.                                             *)
Relocates(d, n, e, k) ==
  /\ settled(d, n) /\ messageOf(k) = messageOf(n)
  /\ \A c \in Dirs, i \in Name :
       /\ settled(c, i)' => (c = e /\ i = k) \/ (settled(c, i) /\ ~(c = d /\ i = n))
       /\ exists(c, i)' => (c = e /\ i = k) \/ exists(c, i)
       /\ exists(c, i) /\ ~(c = d /\ i = n) => exists(c, i)'

Stays ==
  \A c \in Dirs, i \in Name :
    /\ settled(c, i)' => settled(c, i)
    /\ exists(c, i)' => exists(c, i)
    /\ exists(c, i) /\ c # "inbox" => exists(c, i)'

LEMMA MoveRelocates ==
  ASSUME NEW d \in Dirs \ {"inbox"}, NEW n \in Name, NEW e \in Dirs, NEW k \in Name,
         Moves(d, n, e, k), messageOf(k) = messageOf(n), UNCHANGED job
  PROVE  Relocates(d, n, e, k)
<1>1. settled(d, n)
  BY DEF settled, Moves
<1>2. ASSUME NEW c \in Dirs, NEW i \in Name
      PROVE  /\ settled(c, i)' => (c = e /\ i = k) \/ (settled(c, i) /\ ~(c = d /\ i = n))
             /\ exists(c, i)' => (c = e /\ i = k) \/ exists(c, i)
             /\ exists(c, i) /\ ~(c = d /\ i = n) => exists(c, i)'
  <2>1. exists(c, i)' <=> (c = e /\ i = k) \/ (exists(c, i) /\ ~(c = d /\ i = n))
    BY DEF Moves
  <2>2. QED BY <2>1 DEF settled
<1>3. QED BY <1>1, <1>2 DEF Relocates

LEMMA SameFilesStay ==
  ASSUME UNCHANGED box, \A w \in Worker : job[w].step = "unlink" => job'[w] = job[w]
  PROVE  Stays
BY DEF Stays, settled, exists

LEMMA OnePlaceStays ==
  ASSUME OnePlace, Stays
  PROVE  OnePlace'
BY DEF OnePlace, Stays

LEMMA OnePlaceMoves ==
  ASSUME OnePlace, NEW d \in Dirs, NEW n \in Name, NEW e \in Dirs, NEW k \in Name,
         Relocates(d, n, e, k)
  PROVE  OnePlace'
<1> SUFFICES ASSUME NEW b \in Dirs, NEW c \in Dirs, NEW i \in Name, NEW j \in Name,
                    settled(b, i)', settled(c, j)', messageOf(i) = messageOf(j)
             PROVE  b = c /\ i = j
  BY DEF OnePlace
<1>1. /\ (b = e /\ i = k) \/ (settled(b, i) /\ ~(b = d /\ i = n))
      /\ (c = e /\ j = k) \/ (settled(c, j) /\ ~(c = d /\ j = n))
  BY DEF Relocates
<1>2. settled(d, n) /\ messageOf(k) = messageOf(n)
  BY DEF Relocates
<1>3. QED BY <1>1, <1>2 DEF OnePlace

(* A step of a worker or of the reaper disturbs none of the executors.       *)
Outside == Stays \/ \E d \in {"inbox", "quarantine"}, e \in Dirs, n, k \in Name :
                      Relocates(d, n, e, k)

LEMMA OutsideKeeps ==
  ASSUME OnceInv, Outside, UNCHANGED <<executorVars, delivered>>
  PROVE  /\ OnePlace' /\ ClaimedOnce' /\ RunOnce' /\ TasksRan'
         /\ \A n \in Name : delivered'[messageOf(n)] = 0 =>
              (\A d \in Dirs : ~exists(d, n)') /\ executed'[messageOf(n)] = 0
<1> DEFINE Found == \A n \in Name : delivered'[messageOf(n)] = 0 =>
                      (\A d \in Dirs : ~exists(d, n)') /\ executed'[messageOf(n)] = 0
<1> USE DEF OnceInv
<1>1. UNCHANGED <<phase, own, cur, executed>> /\ "in-progress" \in Dirs
  BY DEF executorVars, Dirs
<1> TasksRan'
  BY <1>1 DEF TasksRan
<1>2. CASE Stays
  <2>1. OnePlace'
    BY <1>2, OnePlaceStays
  <2>2. ClaimedOnce'
    BY <1>1, <1>2 DEF Stays, ClaimedOnce, Executes, Holds
  <2>3. RunOnce'
    BY <1>1, <1>2 DEF Stays, RunOnce
  <2>4. Found
    BY <1>1, <1>2 DEF Stays, NothingBefore
  <2>5. QED BY <2>1, <2>2, <2>3, <2>4
<1>3. ASSUME NEW d \in {"inbox", "quarantine"}, NEW e \in Dirs, NEW n \in Name,
             NEW k \in Name, Relocates(d, n, e, k)
      PROVE  OnePlace' /\ ClaimedOnce' /\ RunOnce' /\ Found
  <2>1. d \in Dirs /\ settled(d, n) /\ exists(d, n) /\ messageOf(k) = messageOf(n)
    BY <1>3 DEF Relocates, settled, Dirs
  <2>2. OnePlace'
    BY <1>3, <2>1, OnePlaceMoves
  <2>3. ASSUME NEW i \in Name, exists("in-progress", i)
        PROVE  exists("in-progress", i)'
    BY <1>1, <1>3, <2>3 DEF Relocates
  <2>4. ClaimedOnce'
    BY <1>1, <2>3 DEF ClaimedOnce, Executes, Holds
  <2>5. ~(executed[messageOf(n)] > 0)
    BY <2>1 DEF RunOnce
  <2>6. RunOnce'
    <3>1. ASSUME NEW i \in Name, executed[messageOf(i)] > 0, NEW c \in Dirs, settled(c, i)'
          PROVE  c \in {"in-progress", "processed"}
      <4>1. settled(c, i)
        BY <1>3, <2>1, <2>5, <3>1 DEF Relocates
      <4>2. QED BY <3>1, <4>1 DEF RunOnce
    <3>2. QED BY <1>1, <3>1 DEF RunOnce
  <2>7. ASSUME NEW i \in Name, delivered'[messageOf(i)] = 0
        PROVE  (\A c \in Dirs : ~exists(c, i)') /\ executed'[messageOf(i)] = 0
    <3>1. delivered[messageOf(i)] = 0
      BY <2>7
    <3>2. messageOf(n) # messageOf(i)
      BY <2>1, <3>1 DEF NothingBefore
    <3>3. \A c \in Dirs : exists(c, i)' => exists(c, i)
      BY <1>3, <2>1, <3>2 DEF Relocates
    <3>4. QED BY <1>1, <3>1, <3>3 DEF NothingBefore
  <2>8. QED BY <2>2, <2>4, <2>6, <2>7
<1>4. QED BY <1>2, <1>3 DEF Outside

LEMMA WorkerOutside ==
  ASSUME OneDelivery, LaneInv, JobReason, OnceInv, NEW w \in Worker,
         StartWorker(w) \/ WorkerStep(w)
  PROVE  Outside
<1> USE DEF OnceInv
<1>1. \A v \in Worker : v = w
  BY DEF OneDelivery
<1>2. job \in [Worker -> Job] /\ job[w].dir \in Dirs /\ "inbox" \in Dirs
  BY DEF LaneInv, TypeOK, WorkerTypeOK, Job, Dirs
<1>3. CASE WriteCopy(w)
  <2>1. /\ Writes(job[w].dir, job[w].to, session[w]) /\ job[w].step = "write"
        /\ job[w].name \in Name /\ job[w].to \in Name
        /\ messageOf(job[w].to) = messageOf(job[w].name)
    BY <1>3, WorkerFiles DEF Moving
  <2>2. PICK n \in Name, e \in Dirs, k \in Name : n = job[w].name /\ e = job[w].dir /\ k = job[w].to
    BY <1>2, <2>1
  <2>3. exists("inbox", n) /\ settled("inbox", n)
    BY <1>1, <2>1, <2>2 DEF SourceIsThere, settled
  <2>4. job'[w].step = "unlink" /\ job'[w].name = n
    BY <1>2, <1>3, <2>2 DEF WriteCopy, Job
  <2>5. ASSUME NEW c \in Dirs, NEW i \in Name
        PROVE  exists(c, i)' <=> (c = e /\ i = k) \/ exists(c, i)
    BY <2>1, <2>2 DEF Writes
  <2>6. ASSUME NEW c \in Dirs, NEW i \in Name, settled(c, i)'
        PROVE  (c = e /\ i = k) \/ (settled(c, i) /\ ~(c = "inbox" /\ i = n))
    <3>1. ~(c = "inbox" /\ i = n)
      BY <2>4, <2>6 DEF settled
    <3>2. exists(c, i)'
      BY <2>6 DEF settled
    <3>3. exists(c, i) => settled(c, i)
      BY <1>1, <2>1 DEF settled
    <3>4. QED BY <2>5, <3>1, <3>2, <3>3
  <2>7. Relocates("inbox", n, e, k)
    BY <2>1, <2>2, <2>3, <2>5, <2>6 DEF Relocates
  <2>8. QED BY <2>7 DEF Outside
<1>4. CASE UnlinkSource(w)
  <2>1. job[w].step = "unlink" /\ job[w].name \in Name
    BY <1>4 DEF UnlinkSource, LaneInv, JobOK, Moving
  <2>2. PICK n \in Name : n = job[w].name
    BY <2>1
  <2>3. \A c \in Dirs, i \in Name : exists(c, i)' <=> exists(c, i) /\ ~(c = "inbox" /\ i = n)
    <3>1. CASE exists("inbox", n)
      <4>1. Unlinks("inbox", n)
        BY <1>2, <1>4, <2>2, <3>1, UnlinkExists DEF UnlinkSource, LaneInv, TypeOK
      <4>2. QED BY <4>1 DEF Unlinks
    <3>2. CASE ~exists("inbox", n)
      BY <1>4, <2>2, <3>2 DEF UnlinkSource, exists
    <3>3. QED BY <3>1, <3>2
  <2>4. ASSUME NEW c \in Dirs, NEW i \in Name, settled(c, i)'
        PROVE  settled(c, i)
    BY <1>1, <2>2, <2>3, <2>4 DEF settled
  <2>5. QED BY <2>3, <2>4 DEF Stays, Outside
<1>5. CASE MoveFile(w)
  <2>1. job[w].step = "move" /\ job[w].name \in Name /\ job[w].to \in Name
        /\ messageOf(job[w].to) = messageOf(job[w].name)
    BY <1>5, WorkerFiles DEF Moving
  <2>2. PICK n \in Name, e \in Dirs, k \in Name : n = job[w].name /\ e = job[w].dir /\ k = job[w].to
    BY <1>2, <2>1
  <2>3. exists("inbox", n) /\ settled("inbox", n)
    BY <1>1, <2>1, <2>2 DEF SourceIsThere, settled
  <2>4. Moves("inbox", n, e, k)
    BY <1>2, <1>5, <2>2, <2>3, RenameExists DEF MoveFile, LaneInv, TypeOK
  <2>5. ASSUME NEW c \in Dirs, NEW i \in Name
        PROVE  exists(c, i)' <=> (c = e /\ i = k) \/ (exists(c, i) /\ ~(c = "inbox" /\ i = n))
    BY <2>4 DEF Moves
  <2>6. ASSUME NEW c \in Dirs, NEW i \in Name, exists(c, i)
        PROVE  settled(c, i)
    BY <1>1, <2>1, <2>6 DEF settled
  <2>7. \A c \in Dirs, i \in Name : settled(c, i)' => exists(c, i)'
    BY DEF settled
  <2>8. Relocates("inbox", n, e, k)
    BY <2>1, <2>2, <2>3, <2>5, <2>6, <2>7 DEF Relocates
  <2>9. QED BY <2>8 DEF Outside
<1>6. CASE UNCHANGED box /\ job[w].step # "unlink"
  BY <1>1, <1>6, SameFilesStay DEF Outside
<1>7. StartWorker(w) => job[w].step = "idle"
  BY DEF StartWorker, SourceIsThere
<1>8. QED BY <1>3, <1>4, <1>5, <1>6, <1>7 DEF WorkerStep, StartWorker, ClaimActiveOwner,
             ListInbox, ReadFile, Report

LEMMA WorkerSource ==
  ASSUME OneDelivery, LaneInv, SourceIsThere, NEW w \in Worker,
         StartWorker(w) \/ WorkerStep(w)
  PROVE  SourceIsThere'
<1>1. \A v \in Worker : v = w
  BY DEF OneDelivery
<1>2. /\ job \in [Worker -> Job] /\ session \in [Worker -> Stamp] /\ started \in Nat
      /\ listing \in [Worker -> SUBSET Name]
  BY LaneFilesAssumption DEF LaneInv, TypeOK, WorkerTypeOK, Stamp
<1> SUFFICES /\ job'[w].step \in {"write", "move"} => exists("inbox", job[w].name)'
             /\ session'[w] = 0 => job'[w].step = "idle" /\ listing'[w] = {}
  <2>1. (exists("inbox", job[w].name))' <=> box'[<<"inbox", job'[w].name>>] # NoFile
    BY DEF exists
  <2>2. QED BY <1>1, <2>1 DEF SourceIsThere, exists
<1>3. CASE StartWorker(w)
  <2>1. session'[w] = started + 1 /\ session'[w] # 0
    BY <1>2, <1>3 DEF StartWorker
  <2>2. job'[w].step \in {"claim", "idle"}
    BY <1>2, <1>3 DEF StartWorker, Idle
  <2>3. QED BY <2>1, <2>2
<1>4. ASSUME NEW n \in Name, ReadFile(w, n)
      PROVE  /\ job'[w].step \in {"write", "move"} => exists("inbox", job[w].name)'
             /\ session'[w] = 0 => job'[w].step = "idle" /\ listing'[w] = {}
  <2>1. UNCHANGED box /\ session'[w] # 0
    BY <1>2, <1>4 DEF ReadFile, ownerVars, SourceIsThere
  <2>2. CASE exists("inbox", n) /\ Disposition(w, n).step # "leave"
    <3>1. job'[w].name = n
      BY <1>2, <1>4, <2>2 DEF ReadFile
    <3>2. QED BY <2>1, <2>2, <3>1 DEF exists
  <2>3. CASE ~(exists("inbox", n) /\ Disposition(w, n).step # "leave")
    <3>1. job'[w].step = "idle"
      BY <1>2, <1>4, <2>3 DEF ReadFile
    <3>2. QED BY <2>1, <3>1
  <2>4. QED BY <2>2, <2>3
<1>5. CASE \/ ClaimActiveOwner(w) \/ ListInbox(w) \/ WriteCopy(w) \/ UnlinkSource(w)
           \/ Report(w) \/ MoveFile(w)
  <2>1. session'[w] = session[w] /\ session[w] # 0
    BY <1>2, <1>5 DEF ClaimActiveOwner, ListInbox, WriteCopy, UnlinkSource, Report,
       MoveFile, SourceIsThere, ownerVars
  <2>2. \/ job' = [job EXCEPT ![w] = Idle]
        \/ \E s \in {"unlink", "report"} : job' = [job EXCEPT ![w].step = s]
        \/ UNCHANGED job /\ job[w].step = "idle"
    BY <1>5 DEF ClaimActiveOwner, ListInbox, WriteCopy, UnlinkSource, Report, MoveFile
  <2>3. job'[w].step \notin {"write", "move"}
    BY <1>2, <2>2 DEF Idle, Job
  <2>4. QED BY <2>1, <2>3
<1>6. QED BY <1>3, <1>4, <1>5 DEF WorkerStep

LEMMA WorkerOnce ==
  ASSUME OneDelivery, LaneInv, JobReason, OnceInv, [Next]_vars, NEW w \in Worker,
         StartWorker(w) \/ WorkerStep(w), UNCHANGED <<executorVars, laneVars>>
  PROVE  OnceInv'
<1>1. Outside
  BY WorkerOutside
<1>2. SourceIsThere'
  BY WorkerSource DEF OnceInv
<1>3. UNCHANGED delivered
  BY DEF laneVars
<1>4. ASSUME NEW n \in Name, delivered'[messageOf(n)] = 0, NEW v \in Worker,
             job'[v].step \in Moving
      PROVE  messageOf(job'[v].name) # messageOf(n)
  <2>1. delivered[messageOf(n)] = 0
    BY <1>3, <1>4
  <2>2. NothingBefore
    BY DEF OnceInv
  <2>3. CASE job'[v] = job[v]
    BY <1>4, <2>1, <2>2, <2>3 DEF NothingBefore
  <2>4. CASE GoesOn(v)
    <3>1. job'[v].name = job[v].name /\ job[v].step \in Moving
      BY <2>4 DEF GoesOn, WriteCopy, UnlinkSource, Moving, LaneInv, TypeOK, WorkerTypeOK, Job
    <3>2. QED BY <2>1, <2>2, <3>1 DEF NothingBefore
  <2>5. ASSUME NEW k \in Name, Chooses(v, k)
        PROVE  messageOf(job'[v].name) # messageOf(n)
    <3>1. PICK d, i : job'[v] = [step |-> d.step, name |-> k, dir |-> d.dir, to |-> i]
      BY <2>5 DEF Chooses
    <3>2. job'[v].name = k
      BY <3>1
    <3>3. exists("inbox", k)
      BY <2>5 DEF Chooses
    <3>4. delivered[messageOf(k)] # 0
      BY <2>2, <3>3 DEF NothingBefore, Dirs
    <3>5. QED BY <2>1, <3>2, <3>4
  <2>6. job'[v].step \notin {"idle", "claim"}
    BY <1>4 DEF Moving
  <2>7. QED BY <2>3, <2>4, <2>5, <2>6, JobChange
<1>5. NothingBefore'
  BY <1>1, <1>3, <1>4, OutsideKeeps DEF NothingBefore
<1>6. QED BY <1>1, <1>2, <1>3, <1>5, OutsideKeeps DEF OnceInv

LEMMA ReapOnce ==
  ASSUME LaneInv, OnceInv, NEW n \in Name, Reap(n)
  PROVE  OnceInv'
<1>1. UNCHANGED <<executorVars, delivered, job, session, listing>> /\ FilesTypeOK
  BY DEF Reap, workerVars, ownerVars, LaneInv, TypeOK
<1>2. PICK e \in {"inbox", "archive"} : rename("quarantine", n, e, n)
  BY DEF Reap
<1>3. e \in Dirs /\ {"quarantine", "inbox"} \subseteq Dirs
  BY DEF Dirs
<1>4. Moves("quarantine", n, e, n)
  BY <1>1, <1>2, <1>3, RenameExists
<1>5. Relocates("quarantine", n, e, n)
  BY <1>1, <1>3, <1>4, MoveRelocates
<1>6. Outside
  BY <1>3, <1>5 DEF Outside
<1>7. \A i \in Name : exists("inbox", i) => exists("inbox", i)'
  BY <1>3, <1>4 DEF Moves
<1>8. SourceIsThere'
  <2>1. \A w \in Worker : job[w].step \in {"write", "move"} => job[w].name \in Name
    BY DEF LaneInv, JobOK, Moving
  <2>2. QED BY <1>1, <1>7, <2>1 DEF OnceInv, SourceIsThere, exists
<1>9. NothingBefore'
  BY <1>1, <1>6, OutsideKeeps DEF NothingBefore, OnceInv
<1>10. QED BY <1>1, <1>6, <1>8, <1>9, OutsideKeeps DEF OnceInv

LEMMA DeliverOnce ==
  ASSUME OneDelivery, LaneInv, OnceInv, NEW m \in Msg, Deliver(m)
  PROVE  OnceInv'
<1> USE DEF OnceInv
<1> DEFINE new == <<m, 0>>
<1>1. new \in Name /\ messageOf(new) = m /\ 0 \in Stamp /\ {"inbox", "in-progress"} \subseteq Dirs
  BY LaneFilesAssumption DEF Name, messageOf, Stamp, Dirs
<1>2. /\ FilesTypeOK
      /\ UNCHANGED <<phase, own, cur, executed, job, session, listing>>
  BY DEF Deliver, executorVars, workerVars, ownerVars, LaneInv, TypeOK
<1>3. delivered[m] = 0 /\ delivered'[m] = 1 /\ \A i \in Msg \ {m} : delivered'[i] = delivered[i]
  <2>1. delivered \in [Msg -> 0..MaxDeliver] /\ delivered[m] \in Nat
    BY LanePipelineAssumption DEF LaneInv, TypeOK
  <2>2. delivered[m] < MaxDeliver /\ MaxDeliver <= 1 /\ MaxDeliver \in Nat
    BY LanePipelineAssumption DEF Deliver, OneDelivery
  <2>3. QED BY <2>1, <2>2 DEF Deliver
<1>4. \A c \in Dirs, i \in Name : exists(c, i)' <=> (c = "inbox" /\ i = new) \/ exists(c, i)
  BY <1>1, <1>2, WriteExists DEF Deliver, Writes
<1>5. \A i \in Name : messageOf(i) = m =>
        /\ executed[m] = 0 /\ \A c \in Dirs : ~exists(c, i)
        /\ \A w \in Worker : job[w].step \in Moving => messageOf(job[w].name) # m
  BY <1>3 DEF NothingBefore
<1>6. \A c \in Dirs, i \in Name : settled(c, i)' => (c = "inbox" /\ i = new) \/ settled(c, i)
  BY <1>2, <1>4 DEF settled
<1>7. OnePlace'
  <2>1. \A c \in Dirs, i \in Name : settled(c, i) => messageOf(i) # m
    BY <1>5 DEF settled
  <2>2. QED BY <1>1, <1>6, <2>1 DEF OnePlace
<1>8. NothingBefore'
  <2> SUFFICES ASSUME NEW i \in Name, delivered'[messageOf(i)] = 0
               PROVE  /\ \A d \in Dirs : ~exists(d, i)'
                      /\ executed[messageOf(i)] = 0
                      /\ \A w \in Worker : job[w].step \in Moving => messageOf(job[w].name) # messageOf(i)
    BY <1>2 DEF NothingBefore
  <2>1. messageOf(i) # m /\ delivered[messageOf(i)] = 0
    BY <1>3, NameType
  <2>2. QED BY <1>1, <1>4, <2>1 DEF NothingBefore
<1>9. SourceIsThere'
  <2>1. \A w \in Worker : job[w].step \in {"write", "move"} => job[w].name \in Name
    BY DEF LaneInv, JobOK, Moving
  <2>2. QED BY <1>1, <1>2, <1>4, <2>1 DEF SourceIsThere, exists
<1>10. ClaimedOnce'
  <2>1. ClaimedOnce /\ \A i \in Name : exists("in-progress", i) => exists("in-progress", i)'
    BY <1>1, <1>4
  <2>2. QED BY <1>2, <2>1 DEF ClaimedOnce, Executes, Holds
<1>11. RunOnce'
  <2>1. ASSUME NEW i \in Name, executed[messageOf(i)] > 0, NEW c \in Dirs, settled(c, i)'
        PROVE  settled(c, i)
    <3>1. executed[m] = 0
      BY <1>1, <1>5
    <3>2. messageOf(i) # m
      BY <2>1, <3>1
    <3>3. i # new
      BY <1>1, <3>2
    <3>4. QED BY <1>6, <2>1, <3>3
  <2>2. RunOnce
    OBVIOUS
  <2>3. QED BY <1>2, <2>1, <2>2 DEF RunOnce
<1>12. TasksRan'
  BY <1>2 DEF TasksRan
<1>13. QED BY <1>7, <1>8, <1>9, <1>10, <1>11, <1>12

(* The executors. What each says of the others' hands on the files is kept   *)
(* apart from where the files are.                                           *)
Elsewhen == <<job, session, listing, delivered>>

LEMMA ExecutorPlaces ==
  ASSUME LaneInv, OnceInv, UNCHANGED <<Elsewhen, executed>>,
         \/ UNCHANGED box
         \/ \E d \in {"action-required", "in-progress"}, e \in Dirs, n, k \in Name :
              Relocates(d, n, e, k)
  PROVE  OnePlace' /\ NothingBefore' /\ SourceIsThere'
<1> USE DEF OnceInv, Elsewhen
<1>1. "inbox" \in Dirs /\ {"action-required", "in-progress"} \subseteq Dirs \ {"inbox"}
  BY DEF Dirs
<1>2. \A w \in Worker : job[w].step \in Moving => job[w].name \in Name
  BY DEF LaneInv, JobOK
<1>3. CASE UNCHANGED box
  <2>1. Stays
    BY <1>3, SameFilesStay
  <2>2. OnePlace'
    BY <2>1, OnePlaceStays
  <2>3. NothingBefore'
    BY <1>3 DEF NothingBefore, exists
  <2>4. SourceIsThere'
    BY <1>3 DEF SourceIsThere, exists
  <2>5. QED BY <2>2, <2>3, <2>4
<1>4. ASSUME NEW d \in {"action-required", "in-progress"}, NEW e \in Dirs,
             NEW n \in Name, NEW k \in Name, Relocates(d, n, e, k)
      PROVE  OnePlace' /\ NothingBefore' /\ SourceIsThere'
  <2>1. OnePlace'
    BY <1>1, <1>4, OnePlaceMoves
  <2>2. \A i \in Name : exists("inbox", i) => exists("inbox", i)'
    BY <1>1, <1>4 DEF Relocates
  <2>3. SourceIsThere'
    BY <1>2, <2>2 DEF SourceIsThere, Moving, exists
  <2>4. exists(d, n) /\ messageOf(k) = messageOf(n)
    BY <1>4 DEF Relocates, settled
  <2>5. delivered[messageOf(n)] # 0
    BY <1>1, <2>4 DEF NothingBefore
  <2>6. ASSUME NEW i \in Name, delivered[messageOf(i)] = 0, NEW c \in Dirs
        PROVE  ~exists(c, i)'
    <3>1. i # k
      BY <2>4, <2>5, <2>6
    <3>2. ~exists(c, i)
      BY <2>6 DEF NothingBefore
    <3>3. QED BY <1>4, <3>1, <3>2 DEF Relocates
  <2>7. NothingBefore'
    BY <2>6 DEF NothingBefore
  <2>8. QED BY <2>1, <2>3, <2>7
<1>5. QED BY <1>3, <1>4

(* The step puts no file into an executor's hands.                           *)
ClaimsShrink ==
  \A y \in Executor, i \in Name :
    (Executes(y, i)' => Executes(y, i)) /\ (Holds(y, i)' => Holds(y, i))

Releases(d, n, e, k) ==
  /\ Relocates(d, n, e, k)
  /\ executed[messageOf(n)] > 0 => e = "processed"
  /\ d = "in-progress" => \A y \in Executor : ~Executes(y, n)' /\ ~Holds(y, n)'

LEMMA ReleaseOnce ==
  ASSUME LaneInv, OnceInv, UNCHANGED <<Elsewhen, executed>>, ClaimsShrink, TasksRan',
         \/ UNCHANGED box
         \/ \E d \in {"action-required", "in-progress"}, e \in Dirs, n, k \in Name :
              Releases(d, n, e, k)
  PROVE  OnceInv'
<1> USE DEF OnceInv, Elsewhen
<1>1. OnePlace' /\ NothingBefore' /\ SourceIsThere'
  BY ExecutorPlaces DEF Releases
<1>2. "in-progress" \in Dirs /\ "action-required" \in Dirs
  BY DEF Dirs
<1>3. ASSUME NEW x \in Executor, NEW i \in Name, Executes(x, i)' \/ Holds(x, i)'
      PROVE  exists("in-progress", i)'
  <2>1. exists("in-progress", i)
    BY <1>3 DEF ClaimsShrink, ClaimedOnce
  <2>2. CASE UNCHANGED box
    BY <2>1, <2>2 DEF exists
  <2>3. ASSUME NEW d \in {"action-required", "in-progress"}, NEW e \in Dirs,
               NEW n \in Name, NEW k \in Name, Releases(d, n, e, k)
        PROVE  exists("in-progress", i)'
    <3>1. ~(d = "in-progress" /\ i = n)
      BY <1>3, <2>3 DEF Releases
    <3>2. QED BY <1>2, <2>1, <2>3, <3>1 DEF Releases, Relocates
  <2>4. QED BY <2>2, <2>3
<1>4. ClaimedOnce'
  <2> SUFFICES ASSUME NEW x \in Executor, NEW i \in Name
               PROVE  /\ Executes(x, i)' \/ Holds(x, i)' =>
                           exists("in-progress", i)' /\ executed[messageOf(i)] = 0
                      /\ \A y \in Executor : /\ Executes(x, i)' /\ Executes(y, i)' => x = y
                                             /\ Holds(x, i)' /\ Holds(y, i)' => x = y
                                             /\ ~(Executes(x, i)' /\ Holds(y, i)')
    BY DEF ClaimedOnce
  <2>1. QED BY <1>3 DEF ClaimsShrink, ClaimedOnce
<1>5. ASSUME NEW i \in Name, executed[messageOf(i)] > 0, NEW c \in Dirs, settled(c, i)'
      PROVE  c \in {"in-progress", "processed"}
  <2>1. settled(c, i) => c \in {"in-progress", "processed"}
    BY <1>5 DEF RunOnce
  <2>2. CASE UNCHANGED box
    <3>1. settled(c, i)
      BY <1>5, <2>2 DEF settled, exists
    <3>2. QED BY <2>1, <3>1
  <2>3. ASSUME NEW d \in {"action-required", "in-progress"}, NEW e \in Dirs,
               NEW n \in Name, NEW k \in Name, Releases(d, n, e, k)
        PROVE  c \in {"in-progress", "processed"}
    <3>1. \/ c = e /\ i = k /\ messageOf(k) = messageOf(n)
          \/ settled(c, i)
      BY <1>5, <2>3 DEF Releases, Relocates
    <3>2. QED BY <1>5, <2>1, <2>3, <3>1 DEF Releases
  <2>4. QED BY <2>2, <2>3
<1>6. RunOnce'
  BY <1>5 DEF RunOnce
<1>7. QED BY <1>1, <1>4, <1>6

(* The executor claims a file of action-required by renaming it.             *)
LEMMA ClaimOnce ==
  ASSUME LaneInv, OnceInv, UNCHANGED <<Elsewhen, executed>>, TasksRan',
         NEW x \in Executor, NEW n \in Name,
         Relocates("action-required", n, "in-progress", n),
         exists("in-progress", n)',
         \A y \in Executor, i \in Name :
           /\ Executes(y, i)' => Executes(y, i) \/ (y = x /\ i = n)
           /\ Holds(y, i)' => Holds(y, i) \/ (y = x /\ i = n)
           /\ ~(Executes(x, n)' /\ Holds(x, n)')
  PROVE  OnceInv'
<1> USE DEF OnceInv, Elsewhen
<1>1. {"in-progress", "action-required"} \subseteq Dirs
  BY DEF Dirs
<1>2. OnePlace' /\ NothingBefore' /\ SourceIsThere'
  BY <1>1, ExecutorPlaces
<1>3. settled("action-required", n)
  BY DEF Relocates
<1>4. executed[messageOf(n)] = 0
  <2>1. ~(executed[messageOf(n)] > 0)
    BY <1>1, <1>3 DEF RunOnce
  <2>2. executed[messageOf(n)] \in Nat
    BY NameType DEF LaneInv, TypeOK, ExecutorTypeOK
  <2>3. QED BY <2>1, <2>2
<1>5. \A y \in Executor : ~Executes(y, n) /\ ~Holds(y, n)
  <2>1. exists("in-progress", n) => settled("in-progress", n)
    BY DEF settled
  <2>2. ~settled("in-progress", n)
    BY <1>1, <1>3 DEF OnePlace
  <2>3. QED BY <2>1, <2>2 DEF ClaimedOnce
<1>6. \A i \in Name : exists("in-progress", i) => exists("in-progress", i)'
  BY <1>1 DEF Relocates
<1>7. ClaimedOnce'
  <2> SUFFICES ASSUME NEW y \in Executor, NEW i \in Name
               PROVE  /\ Executes(y, i)' \/ Holds(y, i)' =>
                           exists("in-progress", i)' /\ executed[messageOf(i)] = 0
                      /\ \A z \in Executor : /\ Executes(y, i)' /\ Executes(z, i)' => y = z
                                             /\ Holds(y, i)' /\ Holds(z, i)' => y = z
                                             /\ ~(Executes(y, i)' /\ Holds(z, i)')
    BY DEF ClaimedOnce
  <2>1. CASE i = n
    BY <1>4, <1>5, <2>1
  <2>2. CASE i # n
    BY <1>6, <2>2 DEF ClaimedOnce
  <2>3. QED BY <2>1, <2>2
<1>8. ASSUME NEW i \in Name, executed[messageOf(i)] > 0, NEW c \in Dirs, settled(c, i)'
      PROVE  c \in {"in-progress", "processed"}
  BY <1>8 DEF Relocates, RunOnce
<1>9. RunOnce'
  BY <1>8 DEF RunOnce
<1>10. QED BY <1>2, <1>7, <1>9

LEMMA TasksRanStep ==
  ASSUME LaneInv, TasksRan, NEW x \in Executor, ActionOf(x)
  PROVE  TasksRan'
<1>1. /\ executed \in [Msg -> Nat] /\ phase \in [Executor -> Phase]
      /\ cur \in [Executor -> Name \cup {NoName}]
  BY DEF LaneInv, TypeOK, ExecutorTypeOK
<1>2. \A y \in Executor : phase[y] \in {"execute", "deliver", "finish"} => messageOf(cur[y]) \in Msg
  BY NameType DEF LaneInv, ExecOK
<1>3. \A y \in Executor \ {x} : phase'[y] = phase[y] /\ cur'[y] = cur[y]
  BY OthersWait
<1>4. CASE Execute(x)
  <2>1. messageOf(cur[x]) \in Msg /\ cur'[x] = cur[x]
    BY <1>2, <1>4 DEF Execute
  <2>2. executed' = [executed EXCEPT ![messageOf(cur[x])] = @ + 1]
    BY <1>4 DEF Execute
  <2>3. executed'[messageOf(cur[x])] > 0
    BY <1>1, <2>1, <2>2
  <2>4. \A m \in Msg : executed[m] > 0 => executed'[m] > 0
    BY <1>1, <2>2
  <2>5. phase'[x] = "deliver"
    BY <1>1, <1>4 DEF Execute
  <2>6. QED BY <1>2, <1>3, <2>1, <2>3, <2>4, <2>5 DEF TasksRan
<1>5. CASE DeliverResponse(x)
  <2>1. UNCHANGED <<cur, executed>> /\ phase[x] = "deliver"
    BY <1>5 DEF DeliverResponse
  <2>2. phase'[x] = "finish"
    BY <1>1, <1>5 DEF DeliverResponse
  <2>3. QED BY <1>3, <2>1, <2>2 DEF TasksRan
<1>6. CASE /\ UNCHANGED executed /\ phase'[x] \notin {"deliver", "finish"}
           /\ phase'[x] = "hold" => kindOf[x] = "autonomous"
  BY <1>3, <1>6 DEF TasksRan
<1>7. CASE UNCHANGED <<executed, phase, cur>>
  BY <1>7 DEF TasksRan
<1>8. ASSUME NEW n \in Name, Take(x, n)
      PROVE  /\ UNCHANGED executed /\ phase'[x] \notin {"deliver", "finish"}
             /\ phase'[x] = "hold" => kindOf[x] = "autonomous"
  BY <1>1, <1>8 DEF Take
<1>9. CASE \/ RunGeneric(x) \/ AutonomousReturn(x) \/ AutonomousRun(x) \/ FinishTask(x)
           \/ EndRun(x) \/ WatcherClose(x) \/ AutonomousReject(x) \/ AutonomousClose(x)
           \/ Throws(x) \/ Crash(x)
           \/ \E n \in Name : WatcherRun(x, n) \/ AutonomousHold(x, n)
  <2>1. /\ UNCHANGED executed
        /\ \E p \in {"idle", "hold", "scan", "close"} :
             phase' = [phase EXCEPT ![x] = p] /\ (p = "hold" => kindOf[x] = "autonomous")
    BY <1>9 DEF RunGeneric, AutonomousReturn, AutonomousRun, FinishTask, EndRun, WatcherClose,
       AutonomousReject, AutonomousClose, Throws, Crash, WatcherRun, AutonomousHold, StartRun
  <2>2. QED BY <1>1, <1>6, <2>1
<1>10. QED BY <1>4, <1>5, <1>6, <1>7, <1>8, <1>9 DEF ActionOf, ExecutorProgress,
              WatcherBlock, AutonomousExpire, executorVars

LEMMA ExecuteOnce ==
  ASSUME LaneInv, OnceInv, NEW x \in Executor, Execute(x), UNCHANGED Elsewhen, TasksRan'
  PROVE  OnceInv'
<1> USE DEF OnceInv, Elsewhen
<1>1. PICK c \in Name : c = cur[x] /\ Executes(x, c)
  BY DEF Execute, LaneInv, ExecOK, Executes
<1>2. exists("in-progress", c) /\ executed[messageOf(c)] = 0 /\ "in-progress" \in Dirs
  BY <1>1 DEF ClaimedOnce, Dirs
<1>3. settled("in-progress", c)
  BY <1>2 DEF settled
<1>4. UNCHANGED <<box, own, cur>> /\ \A d, i : settled(d, i)' <=> settled(d, i)
  BY DEF Execute, settled, exists
<1>5. executed'[messageOf(c)] = 1 /\ \A m \in Msg \ {messageOf(c)} : executed'[m] = executed[m]
  BY <1>1, <1>2, NameType DEF Execute, LaneInv, TypeOK, ExecutorTypeOK
<1>6. phase'[x] = "deliver" /\ \A y \in Executor \ {x} : phase'[y] = phase[y]
  BY DEF Execute, LaneInv, TypeOK, ExecutorTypeOK
<1>7. OnePlace' /\ SourceIsThere'
  BY <1>4 DEF OnePlace, SourceIsThere, exists
<1>8. NothingBefore'
  <2>1. delivered[messageOf(c)] # 0
    BY <1>2 DEF NothingBefore
  <2>2. ASSUME NEW i \in Name, delivered[messageOf(i)] = 0
        PROVE  executed'[messageOf(i)] = 0
    BY <1>5, <2>1, <2>2, NameType DEF NothingBefore
  <2>3. QED BY <1>4, <2>2 DEF NothingBefore, exists
<1>9. ClaimsShrink
  BY <1>4, <1>6, <1>1 DEF ClaimsShrink, Executes, Holds, Execute
<1>10. ClaimedOnce'
  <2>1. ASSUME NEW y \in Executor, NEW i \in Name, Executes(y, i)' \/ Holds(y, i)'
        PROVE  exists("in-progress", i)' /\ executed'[messageOf(i)] = 0
    <3>1. Executes(y, i) \/ Holds(y, i)
      BY <1>9, <2>1 DEF ClaimsShrink
    <3>2. exists("in-progress", i) /\ executed[messageOf(i)] = 0
      BY <3>1 DEF ClaimedOnce
    <3>3. i # c
      <4>1. ~Executes(x, i)'
        BY <1>6 DEF Executes
      <4>2. i = c => Executes(x, i)
        BY <1>1
      <4>3. (y = x /\ Executes(y, i)) \/ Holds(y, i) => ~Executes(x, i)
        BY <2>1, <4>1, <1>9 DEF ClaimsShrink, ClaimedOnce
      <4>4. Executes(y, i) /\ Executes(x, i) => y = x
        BY DEF ClaimedOnce
      <4>5. QED BY <3>1, <4>2, <4>3, <4>4
    <3>4. settled("in-progress", i)
      BY <3>2 DEF settled
    <3>5. messageOf(i) # messageOf(c)
      BY <1>2, <1>3, <3>3, <3>4 DEF OnePlace
    <3>6. QED BY <1>4, <1>5, <3>2, <3>5, NameType DEF exists
  <2>2. QED BY <1>9, <2>1 DEF ClaimsShrink, ClaimedOnce
<1>11. ASSUME NEW i \in Name, executed'[messageOf(i)] > 0
       PROVE  /\ executed'[messageOf(i)] = 1
              /\ \A d \in Dirs : settled(d, i) => d \in {"in-progress", "processed"}
  <2>1. CASE messageOf(i) = messageOf(c)
    BY <1>2, <1>3, <1>5, <2>1 DEF OnePlace
  <2>2. CASE messageOf(i) # messageOf(c)
    BY <1>5, <1>11, <2>2, NameType DEF RunOnce
  <2>3. QED BY <2>1, <2>2
<1>12. RunOnce'
  BY <1>4, <1>11 DEF RunOnce
<1>13. QED BY <1>7, <1>8, <1>10, <1>12

LEMMA TakeOnce ==
  ASSUME LaneInv, OnceInv, NEW x \in Executor, NEW n \in Name, ActionOf(x),
         Take(x, n) \/ AutonomousHold(x, n), exists("action-required", n),
         UNCHANGED Elsewhen, TasksRan'
  PROVE  OnceInv'
<1> USE DEF LaneInv, TypeOK, ExecutorTypeOK
<1>1. {"action-required", "in-progress"} \subseteq Dirs /\ FilesTypeOK
  BY DEF Dirs
<1>2. Moves("action-required", n, "in-progress", n)
  BY <1>1, RenameExists DEF Take, AutonomousHold
<1>3. Relocates("action-required", n, "in-progress", n)
  BY <1>1, <1>2, MoveRelocates DEF Elsewhen
<1>4. exists("in-progress", n)' /\ UNCHANGED executed
  BY <1>1, <1>2 DEF Moves, Take, AutonomousHold
<1>5. ~exists("in-progress", n)
  <2>1. settled("action-required", n)
    BY <1>3 DEF Relocates
  <2>2. exists("in-progress", n) => settled("in-progress", n)
    BY DEF settled
  <2>3. QED BY <1>1, <2>1, <2>2 DEF OnceInv, OnePlace
<1>6. ~Holds(x, n)
  BY <1>5 DEF OnceInv, ClaimedOnce
<1>7. ASSUME NEW y \in Executor, NEW i \in Name
      PROVE  /\ Executes(y, i)' => Executes(y, i) \/ (y = x /\ i = n)
             /\ Holds(y, i)' => Holds(y, i) \/ (y = x /\ i = n)
             /\ ~(Executes(x, n)' /\ Holds(x, n)')
  <2>1. CASE Take(x, n)
    <3>1. /\ own' = own /\ phase'[x] = "execute" /\ phase[x] = "scan" /\ cur'[x] = n
      BY <2>1 DEF Take
    <3>2. QED BY <3>1, <1>6, OthersWait DEF Executes, Holds
  <2>2. CASE AutonomousHold(x, n)
    <3>1. own'[x] = n /\ phase'[x] = "hold" /\ cur' = cur
      BY <2>2 DEF AutonomousHold
    <3>2. QED BY <3>1, OthersWait DEF Executes, Holds
  <2>3. QED BY <2>1, <2>2
<1>8. QED BY <1>3, <1>4, <1>7, ClaimOnce

(* All other steps of an executor: it moves a file it holds, moves a file of *)
(* action-required away, or moves nothing.                                   *)
LEMMA ShrinkOf ==
  ASSUME LaneInv, NEW x \in Executor, ActionOf(x),
         phase'[x] # "execute" \/ UNCHANGED <<phase, cur>>,
         phase'[x] = "idle" \/ (phase[x] # "idle" /\ UNCHANGED own) \/ UNCHANGED <<phase, own>>
         \/ kindOf[x] # "autonomous"
  PROVE  ClaimsShrink
BY OthersWait DEF ClaimsShrink, Executes, Holds

LEMMA HeldMoves ==
  ASSUME LaneInv, OnceInv, NEW x \in Executor, ActionOf(x), UNCHANGED Elsewhen, TasksRan',
         AutonomousReturn(x) \/ AutonomousReject(x) \/ AutonomousClose(x)
  PROVE  OnceInv'
<1> USE DEF LaneInv, TypeOK, ExecutorTypeOK
<1>1. PICK n \in Name : n = own[x]
  BY DEF ExecOK, AutonomousReturn, AutonomousReject, AutonomousClose
<1>2. PICK e \in {"action-required", "quarantine", "processed"}, k \in Name :
        /\ rename("in-progress", n, e, k) \/ UNCHANGED box
        /\ messageOf(k) = messageOf(n)
  <2>1. AutonomousClose(x) => \E k \in uniquePath("processed", n) :
          rename("in-progress", n, "processed", k) \/ UNCHANGED box
    BY <1>1 DEF AutonomousClose
  <2>2. \A k \in uniquePath("processed", n) : k \in Name /\ messageOf(k) = messageOf(n)
    BY UniquePath DEF Dirs
  <2>3. QED BY <1>1, <2>1, <2>2 DEF AutonomousReturn, AutonomousReject
<1>3. {"in-progress", e} \subseteq Dirs /\ FilesTypeOK
  BY DEF Dirs
<1>4. UNCHANGED executed /\ phase'[x] = "idle"
  BY DEF AutonomousReturn, AutonomousReject, AutonomousClose
<1>5. ClaimsShrink
  BY <1>4, ShrinkOf
<1>6. UNCHANGED box \/ Relocates("in-progress", n, e, k)
  BY <1>2, <1>3, RenameExists, MoveRelocates DEF Elsewhen
<1>7. Holds(x, n)
  BY <1>1 DEF Holds, AutonomousReturn, AutonomousReject, AutonomousClose, OnceInv, TasksRan
<1>8. executed[messageOf(n)] = 0 /\ \A y \in Executor : Executes(y, n) \/ Holds(y, n) => y = x
  BY <1>7 DEF OnceInv, ClaimedOnce
<1>9. ~Executes(x, n)' /\ ~Holds(x, n)'
  BY <1>4 DEF Executes, Holds
<1>10. \A y \in Executor : ~Executes(y, n)' /\ ~Holds(y, n)'
  BY <1>5, <1>8, <1>9 DEF ClaimsShrink
<1>11. UNCHANGED box \/ Releases("in-progress", n, e, k)
  BY <1>6, <1>8, <1>10 DEF Releases
<1>12. QED BY <1>3, <1>4, <1>5, <1>11, ReleaseOnce

LEMMA FinishOnce ==
  ASSUME LaneInv, OnceInv, NEW x \in Executor, ActionOf(x), UNCHANGED Elsewhen, TasksRan',
         FinishTask(x)
  PROVE  OnceInv'
<1> USE DEF LaneInv, TypeOK, ExecutorTypeOK
<1>1. PICK n \in Name : n = cur[x]
  BY DEF ExecOK, FinishTask
<1>2. UNCHANGED box \/ rename("in-progress", n, "processed", n)
  BY <1>1 DEF FinishTask
<1>3. {"in-progress", "processed"} \subseteq Dirs /\ FilesTypeOK
  BY DEF Dirs
<1>4. UNCHANGED <<executed, own>> /\ phase'[x] = "scan" /\ phase[x] = "finish"
  BY DEF FinishTask
<1>5. ClaimsShrink
  BY <1>4, ShrinkOf
<1>6. UNCHANGED box \/ Relocates("in-progress", n, "processed", n)
  BY <1>2, <1>3, RenameExists, MoveRelocates DEF Elsewhen
<1>7. executed[messageOf(n)] > 0
  BY <1>1, <1>4 DEF OnceInv, TasksRan
<1>8. \A y \in Executor : ~Executes(y, n) /\ ~Holds(y, n)
  <2>1. executed[messageOf(n)] # 0
    BY <1>7
  <2>2. QED BY <2>1 DEF OnceInv, ClaimedOnce
<1>9. \A y \in Executor : ~Executes(y, n)' /\ ~Holds(y, n)'
  BY <1>5, <1>8 DEF ClaimsShrink
<1>10. UNCHANGED box \/ Releases("in-progress", n, "processed", n)
  BY <1>6, <1>9 DEF Releases
<1>11. QED BY <1>3, <1>4, <1>5, <1>10, ReleaseOnce

LEMMA LeaveOnce ==
  ASSUME LaneInv, OnceInv, NEW x \in Executor, ActionOf(x), UNCHANGED Elsewhen, TasksRan',
         NEW n \in Name, WatcherBlock(x, n) \/ AutonomousExpire(x, n)
  PROVE  OnceInv'
<1> USE DEF LaneInv, TypeOK
<1>1. PICK e \in {"blocked", "processed"}, k \in Name :
        rename("action-required", n, e, k) /\ messageOf(k) = messageOf(n)
  BY UniquePath DEF WatcherBlock, AutonomousExpire, Dirs
<1>2. {"action-required", e} \subseteq Dirs /\ FilesTypeOK
  BY DEF Dirs
<1>3. UNCHANGED <<executed, phase, cur, own>>
  BY DEF WatcherBlock, AutonomousExpire, executorVars
<1>4. ClaimsShrink
  BY <1>3, ShrinkOf
<1>5. Relocates("action-required", n, e, k)
  BY <1>1, <1>2, RenameExists, MoveRelocates DEF Elsewhen
<1>6. ~(executed[messageOf(n)] > 0)
  BY <1>2, <1>5 DEF Relocates, OnceInv, RunOnce
<1>7. Releases("action-required", n, e, k)
  BY <1>5, <1>6 DEF Releases
<1>8. QED BY <1>2, <1>3, <1>4, <1>7, ReleaseOnce

LEMMA ExecutorOnce ==
  ASSUME LaneInv, OnceInv, NEW x \in Executor, ActionOf(x), UNCHANGED Elsewhen
  PROVE  OnceInv'
<1>1. TasksRan'
  BY TasksRanStep DEF OnceInv
<1>2. ASSUME NEW n \in Name, Take(x, n) \/ AutonomousHold(x, n), exists("action-required", n)
      PROVE  OnceInv'
  BY <1>1, <1>2, TakeOnce
<1>3. ASSUME UNCHANGED <<box, executed>>, ClaimsShrink
      PROVE  OnceInv'
  BY <1>1, <1>3, ReleaseOnce
<1>4. ASSUME NEW n \in Name, Take(x, n), ~exists("action-required", n)
      PROVE  OnceInv'
  <2>1. UNCHANGED <<box, executed, phase, cur, own>>
    BY <1>4 DEF Take
  <2>2. QED BY <1>3, <2>1, ShrinkOf
<1>5. ASSUME NEW n \in Name, AutonomousHold(x, n)
      PROVE  exists("action-required", n)
  BY <1>5 DEF AutonomousHold, rename
<1>6. CASE \/ RunGeneric(x) \/ AutonomousRun(x) \/ DeliverResponse(x) \/ EndRun(x)
           \/ WatcherClose(x) \/ Throws(x) \/ Crash(x)
           \/ \E n \in Name : WatcherRun(x, n)
  <2>1. UNCHANGED <<box, executed>>
    BY <1>6 DEF RunGeneric, AutonomousRun, DeliverResponse, EndRun, WatcherClose, Throws,
       Crash, WatcherRun, StartRun
  <2>2. phase \in [Executor -> Phase] /\ own \in [Executor -> Name \cup {NoName}]
    BY DEF LaneInv, TypeOK, ExecutorTypeOK
  <2>3. phase'[x] # "execute"
    BY <1>6, <2>2 DEF RunGeneric, AutonomousRun, DeliverResponse, EndRun, WatcherClose, Throws,
       Crash, WatcherRun, StartRun
  <2>4. \/ phase'[x] = "idle" \/ kindOf[x] # "autonomous"
        \/ phase[x] # "idle" /\ UNCHANGED own
    BY <1>6, <2>2 DEF RunGeneric, AutonomousRun, DeliverResponse, EndRun, WatcherClose, Throws,
       Crash, WatcherRun, StartRun
  <2>5. QED BY <1>3, <2>1, <2>3, <2>4, ShrinkOf
<1>7. Execute(x) => OnceInv'
  BY <1>1, ExecuteOnce
<1>8. AutonomousReturn(x) \/ AutonomousReject(x) \/ AutonomousClose(x) => OnceInv'
  BY <1>1, HeldMoves
<1>9. FinishTask(x) => OnceInv'
  BY <1>1, FinishOnce
<1>10. \A n \in Name : WatcherBlock(x, n) \/ AutonomousExpire(x, n) => OnceInv'
  BY <1>1, LeaveOnce
<1>11. QED BY <1>2, <1>4, <1>5, <1>6, <1>7, <1>8, <1>9, <1>10 DEF ActionOf, ExecutorProgress

LEMMA OnceStep ==
  ASSUME OneDelivery, LaneInv, JobReason, OnceInv, [Next]_vars
  PROVE  OnceInv'
<1>1. CASE ExecutorNext
  <2>1. PICK x \in Executor : ActionOf(x)
    BY <1>1 DEF ExecutorNext, ActionOf
  <2>2. UNCHANGED Elsewhen
    BY <1>1 DEF ExecutorNext, Elsewhen, workerVars, ownerVars, laneVars
  <2>3. QED BY <2>1, <2>2, ExecutorOnce
<1>2. CASE WorkerNext
  BY <1>2, WorkerOnce DEF WorkerNext
<1>3. ASSUME NEW w \in Worker, Stop(w)
      PROVE  OnceInv'
  BY <1>3 DEF Stop, OneDelivery, LaneInv, TypeOK
<1>4. CASE OwnerAges \/ UNCHANGED vars
  <2>1. UNCHANGED <<box, job, session, listing, delivered, phase, own, cur, executed>>
    BY <1>4 DEF OwnerAges, OwnerClaimAges, vars, workerVars, ownerVars, executorVars, laneVars
  <2>2. QED BY <2>1 DEF OnceInv, OnePlace, NothingBefore, SourceIsThere, ClaimedOnce,
               RunOnce, TasksRan, settled, exists, Executes, Holds
<1>5. QED BY <1>1, <1>2, <1>3, <1>4, DeliverOnce, ReapOnce DEF Next

LEMMA OnceStart == Init => OnceInv
<1> SUFFICES ASSUME Init PROVE OnceInv
  OBVIOUS
<1>1. \A d \in Dirs, n \in Name : ~exists(d, n)
  BY DEF Init, exists
<1>2. \A w \in Worker : job[w].step = "idle" /\ listing[w] = {}
  BY DEF Init, WorkerInit, Idle
<1>3. \A x \in Executor : phase[x] = "idle"
  BY DEF Init, ExecutorInit
<1>4. \A n \in Name : executed[messageOf(n)] = 0
  BY NameType DEF Init, ExecutorInit
<1>5. OnePlace /\ NothingBefore /\ SourceIsThere
  BY <1>1, <1>2, <1>4 DEF OnePlace, NothingBefore, SourceIsThere, settled, Moving
<1>6. ClaimedOnce /\ TasksRan
  BY <1>3 DEF ClaimedOnce, TasksRan, Executes, Holds
<1>7. RunOnce
  BY <1>4 DEF RunOnce
<1>8. QED BY <1>5, <1>6, <1>7 DEF OnceInv

LEMMA OnceHolds ==
  ASSUME OneDelivery
  PROVE  Spec => [](LaneInv /\ OnceInv)
<1> DEFINE Inv == LaneInv /\ JobReason /\ OnceInv
<1>1. Init => Inv
  BY LaneInit, JobReasonInit, OnceStart
<1>2. Inv /\ [Next]_vars => Inv'
  BY LaneStep, JobReasonStep, OnceStep
<1>3. QED BY <1>1, <1>2, PTL DEF Spec

(* No task runs twice, however many executors of whatever kind compete for   *)
(* it, crash on it or put it back: the rename that claims a file decides     *)
(* (generic-task-executor.js 1833), and a file that has run does not come    *)
(* back to the inbox.                                                        *)
THEOREM NoTaskRunsTwice ==
  ASSUME OneDelivery
  PROVE  Spec => []ExecutedAtMostOnce
<1>1. LaneInv /\ OnceInv => ExecutedAtMostOnce
  <2> SUFFICES ASSUME LaneInv, OnceInv, NEW m \in Msg
               PROVE  executed[m] <= 1
    BY DEF ExecutedAtMostOnce
  <2>1. <<m, 0>> \in Name /\ messageOf(<<m, 0>>) = m
    BY LaneFilesAssumption DEF Name, messageOf
  <2>2. executed[m] \in Nat
    BY DEF LaneInv, TypeOK, ExecutorTypeOK
  <2>3. executed[m] > 0 => executed[m] = 1
    BY <2>1 DEF OnceInv, RunOnce
  <2>4. QED BY <2>2, <2>3
<1>2. QED BY <1>1, OnceHolds, PTL

(* A message is in one place, and in two only while its worker has written   *)
(* the copy and not yet unlinked the source (lane-worker.js 1067-1072).      *)
THEOREM AMessageIsInOnePlace ==
  ASSUME OneDelivery
  PROVE  Spec => []InOnePlace
<1>1. LaneInv /\ OnceInv => InOnePlace
  <2> SUFFICES ASSUME LaneInv, OnceInv, NEW m \in Msg
               PROVE  Cardinality(locations(m)) <=
                        1 + Cardinality({w \in Worker : job[w].step = "unlink"
                                                        /\ messageOf(job[w].name) = m})
    BY DEF InOnePlace
  <2> DEFINE unlinking == {w \in Worker : job[w].step = "unlink" /\ messageOf(job[w].name) = m}
             here == {f \in locations(m) : settled(f[1], f[2])}
  <2>1. \A f \in locations(m) :
          f \in Dirs \X Name /\ f = <<f[1], f[2]>> /\ messageOf(f[2]) = m /\ exists(f[1], f[2])
    BY DEF locations, exists
  <2>2. \A f, g \in here : f = g
    <3> SUFFICES ASSUME NEW f \in here, NEW g \in here PROVE f = g
      OBVIOUS
    <3>1. /\ f[1] \in Dirs /\ f[2] \in Name /\ g[1] \in Dirs /\ g[2] \in Name
          /\ messageOf(f[2]) = messageOf(g[2])
          /\ settled(f[1], f[2]) /\ settled(g[1], g[2])
      BY <2>1
    <3>2. f[1] = g[1] /\ f[2] = g[2]
      BY <3>1 DEF OnceInv, OnePlace
    <3>3. QED BY <2>1, <3>2
  <2>3. PICK a : here \subseteq {a}
    <3>1. CASE here = {}
      BY <3>1
    <3>2. CASE here # {}
      BY <2>2, <3>2
    <3>3. QED BY <3>1, <3>2
  <2>4. IsFiniteSet({a}) /\ Cardinality({a}) = 1
    BY FS_Singleton
  <2>5. CASE unlinking = {}
    <3>1. locations(m) \subseteq here
      BY <2>1, <2>5 DEF settled
    <3>2. Cardinality(locations(m)) \in Nat /\ Cardinality(locations(m)) <= 1
      BY <2>3, <2>4, <3>1, CountLess
    <3>3. Cardinality(unlinking) = 0
      BY <2>5, FS_EmptySet
    <3>4. QED BY <3>2, <3>3
  <2>6. ASSUME NEW w \in unlinking
        PROVE  Cardinality(locations(m)) <= 1 + Cardinality(unlinking)
    <3>1. unlinking = {w}
      BY DEF OneDelivery
    <3>2. Cardinality(unlinking) = 1
      BY <3>1, FS_Singleton
    <3>3. locations(m) \subseteq {a} \cup {<<"inbox", job[w].name>>}
      <4>1. ASSUME NEW f \in locations(m), f # <<"inbox", job[w].name>>
            PROVE  f \in here
        BY <2>1, <4>1 DEF settled, OneDelivery
      <4>2. QED BY <2>3, <4>1
    <3>4. Cardinality(locations(m)) \in Nat /\ Cardinality(locations(m)) <= 2
      BY <2>4, <3>3, CountGain
    <3>5. QED BY <3>2, <3>4
  <2>7. QED BY <2>5, <2>6
<1>2. QED BY <1>1, OnceHolds, PTL

-----------------------------------------------------------------------------
(* What the autonomous executor holds lies in in-progress, or another        *)
(* program has carried it on to processed.                                   *)

OneAutonomous ==
  \A x, y \in Executor : kindOf[x] = "autonomous" /\ kindOf[y] = "autonomous" => x = y

Filed(m) == \E n \in Name : messageOf(n) = m /\ exists("processed", n)

HeldOrFiled ==
  \A x \in Executor :
    /\ phase[x] = "hold" => kindOf[x] = "autonomous"
    /\ kindOf[x] = "autonomous" /\ own[x] # NoName =>
         exists("in-progress", own[x]) \/ Filed(messageOf(own[x]))

CompletedFiled == \A m \in Msg : <<"work_completed", m>> \in journal => Filed(m)

FiledInv == HeldOrFiled /\ CompletedFiled

(* Nobody but an executor takes a file from where the executors work.        *)
LEMMA TasksWait ==
  ASSUME LaneInv, JobReason, [Next]_vars, ~ExecutorNext
  PROVE  \A d \in {"action-required", "in-progress", "processed"}, n \in Name :
           exists(d, n) => exists(d, n)'
<1> SUFFICES ASSUME NEW d \in {"action-required", "in-progress", "processed"},
                    NEW n \in Name, exists(d, n)
             PROVE  exists(d, n)'
  OBVIOUS
<1>1. {d, "inbox", "quarantine", "archive"} \subseteq Dirs /\ FilesTypeOK
      /\ d \notin {"inbox", "quarantine", "archive"}
  BY DEF Dirs, LaneInv, TypeOK
<1>2. UNCHANGED box => exists(d, n)'
  BY DEF exists
<1>3. ASSUME NEW m \in Msg, Deliver(m)
      PROVE  exists(d, n)'
  <2>1. <<m, 0>> \in Name /\ 0 \in Stamp
    BY LaneFilesAssumption DEF Name, Stamp
  <2>2. QED BY <1>1, <1>3, <2>1, WriteExists DEF Deliver, Writes
<1>4. ASSUME NEW k \in Name, Reap(k)
      PROVE  exists(d, n)'
  <2>1. PICK e \in {"inbox", "archive"} : rename("quarantine", k, e, k)
    BY <1>4 DEF Reap
  <2>2. Moves("quarantine", k, e, k)
    BY <1>1, <2>1, RenameExists
  <2>3. QED BY <1>1, <2>2 DEF Moves
<1>5. ASSUME NEW w \in Worker, WriteCopy(w) \/ UnlinkSource(w) \/ MoveFile(w)
      PROVE  exists(d, n)'
  <2>1. CASE WriteCopy(w)
    <3>1. Writes(job[w].dir, job[w].to, session[w])
      BY <2>1, WorkerFiles
    <3>2. QED BY <1>1, <3>1 DEF Writes
  <2>2. CASE UnlinkSource(w)
    <3>1. UNCHANGED box \/ Unlinks("inbox", job[w].name)
      BY <2>2, WorkerFiles
    <3>2. QED BY <1>1, <1>2, <3>1 DEF Unlinks
  <2>3. CASE MoveFile(w)
    <3>1. UNCHANGED box \/ Moves("inbox", job[w].name, job[w].dir, job[w].to)
      BY <2>3, WorkerFiles
    <3>2. QED BY <1>1, <1>2, <3>1 DEF Moves
  <2>4. QED BY <1>5, <2>1, <2>2, <2>3
<1>6. QED BY <1>2, <1>3, <1>4, <1>5 DEF Next, Stop, StopWorker, WorkerNext, WorkerStep,
             StartWorker, ClaimActiveOwner, ListInbox, ReadFile, Report, OwnerAges,
             OwnerClaimAges, vars

(* A completion without a handoff is not taken.                              *)
LEMMA OnlyHandoffsComplete ==
  ASSUME NEW ev, NEW n, NEW h, log(ev, n, h), ev = "work_completed" => "handoff" \notin h
  PROVE  \A m : <<"work_completed", m>> \in journal' => <<"work_completed", m>> \in journal
BY DEF log

(* What an executor does to the files that executors hold or have filed.     *)
Carries ==
  /\ \A n \in Name : exists("processed", n) => exists("processed", n)'
  /\ \A n \in Name : exists("in-progress", n) =>
                       exists("in-progress", n)' \/ exists("processed", n)'

LEMMA MovesCarry ==
  ASSUME FilesTypeOK, NEW d \in Dirs, NEW n \in Name, NEW e \in Dirs, NEW k \in Name,
         rename(d, n, e, k), d \notin {"in-progress", "processed"}
  PROVE  Carries
<1>1. Moves(d, n, e, k)
  BY RenameExists
<1>2. "processed" \in Dirs /\ "in-progress" \in Dirs
  BY DEF Dirs
<1>3. QED BY <1>1, <1>2 DEF Moves, Carries

LEMMA SameBoxCarries ==
  ASSUME UNCHANGED box
  PROVE  Carries
BY DEF Carries, exists

LEMMA FinishCarries ==
  ASSUME LaneInv, NEW x \in Executor, FinishTask(x)
  PROVE  Carries
<1>1. CASE UNCHANGED box
  BY <1>1, SameBoxCarries
<1>2. CASE rename("in-progress", cur[x], "processed", cur[x])
  <2>1. cur[x] \in Name /\ FilesTypeOK
    BY DEF FinishTask, LaneInv, ExecOK, TypeOK
  <2>2. "processed" \in Dirs /\ "in-progress" \in Dirs
    BY DEF Dirs
  <2>3. Moves("in-progress", cur[x], "processed", cur[x])
    BY <1>2, <2>1, <2>2, RenameExists
  <2>4. QED BY <2>1, <2>2, <2>3 DEF Moves, Carries
<1>3. QED BY <1>1, <1>2 DEF FinishTask

LEMMA ClaimCarries ==
  ASSUME LaneInv, NEW x \in Executor, NEW n \in Name,
         Take(x, n) \/ AutonomousHold(x, n) \/ WatcherBlock(x, n) \/ AutonomousExpire(x, n)
  PROVE  Carries
<1>1. FilesTypeOK /\ {"action-required", "in-progress", "blocked", "processed"} \subseteq Dirs
  BY DEF LaneInv, TypeOK, Dirs
<1>2. CASE UNCHANGED box
  BY <1>2, SameBoxCarries
<1>3. CASE \E e \in {"in-progress", "blocked"} : rename("action-required", n, e, n)
  BY <1>1, <1>3, MovesCarry
<1>4. CASE AutonomousExpire(x, n)
  <2>1. PICK k \in uniquePath("processed", n) : rename("action-required", n, "processed", k)
    BY <1>4 DEF AutonomousExpire
  <2>2. k \in Name
    BY <1>1, UniquePath
  <2>3. QED BY <1>1, <2>1, <2>2, MovesCarry
<1>5. QED BY <1>2, <1>3, <1>4 DEF Take, AutonomousHold, WatcherBlock

(* When the autonomous executor lets go of a file, nothing leaves processed, *)
(* and what it calls completed is there.                                     *)
LEMMA ReleaseFiles ==
  ASSUME LaneInv, HeldOrFiled, NEW x \in Executor,
         AutonomousReturn(x) \/ AutonomousReject(x) \/ AutonomousClose(x)
  PROVE  /\ kindOf[x] = "autonomous" /\ own'[x] = NoName /\ phase'[x] = "idle"
         /\ \A n \in Name : exists("processed", n) => exists("processed", n)'
         /\ \A m : <<"work_completed", m>> \in journal' =>
              \/ <<"work_completed", m>> \in journal
              \/ \E n \in Name : messageOf(n) = m /\ exists("processed", n)'
<1>1. /\ own[x] \in Name /\ FilesTypeOK
      /\ {"action-required", "in-progress", "quarantine", "processed"} \subseteq Dirs
      /\ own \in [Executor -> Name \cup {NoName}] /\ phase \in [Executor -> Phase]
      /\ kindOf[x] = "autonomous"
  BY DEF LaneInv, TypeOK, ExecutorTypeOK, ExecOK, Dirs, HeldOrFiled, AutonomousReturn,
         AutonomousReject, AutonomousClose
<1>2. own'[x] = NoName /\ phase'[x] = "idle"
  BY <1>1 DEF AutonomousReturn, AutonomousReject, AutonomousClose
<1>3. ASSUME NEW e \in {"action-required", "quarantine", "processed"}, NEW k \in Name,
             rename("in-progress", own[x], e, k)
      PROVE  /\ \A n \in Name : exists("processed", n) => exists("processed", n)'
             /\ exists(e, k)'
  <2>1. Moves("in-progress", own[x], e, k)
    BY <1>1, <1>3, RenameExists
  <2>2. QED BY <1>1, <2>1 DEF Moves
<1>4. UNCHANGED box => \A n \in Name : exists("processed", n) <=> exists("processed", n)'
  BY DEF exists
<1>5. CASE AutonomousReturn(x)
  <2>1. UNCHANGED box \/ rename("in-progress", own[x], "action-required", own[x])
    BY <1>5 DEF AutonomousReturn
  <2>2. UNCHANGED journal
    BY <1>5 DEF AutonomousReturn
  <2>3. QED BY <1>1, <1>2, <1>3, <1>4, <2>1, <2>2
<1>6. CASE AutonomousReject(x)
  <2>1. UNCHANGED box \/ rename("in-progress", own[x], "quarantine", own[x])
    BY <1>6 DEF AutonomousReject
  <2>2. log("output_gate_rejection", own[x], {"handoff"})
    BY <1>6 DEF AutonomousReject
  <2>3. \A m : <<"work_completed", m>> \in journal' => <<"work_completed", m>> \in journal
    BY <2>2, OnlyHandoffsComplete
  <2>4. QED BY <1>1, <1>2, <1>3, <1>4, <2>1, <2>3
<1>7. CASE AutonomousClose(x)
  <2>1. PICK k \in uniquePath("processed", own[x]) :
          IF exists("in-progress", own[x])
          THEN rename("in-progress", own[x], "processed", k) ELSE UNCHANGED box
    BY <1>7 DEF AutonomousClose
  <2>2. k \in Name /\ messageOf(k) = messageOf(own[x])
    BY <1>1, UniquePath
  <2>3. log("work_completed", own[x], {"handoff"})
    BY <1>7 DEF AutonomousClose
  <2>4. \A m : <<"work_completed", m>> \in journal' =>
               <<"work_completed", m>> \in journal \/ m = messageOf(own[x])
    BY <2>3 DEF log
  <2>5. CASE exists("in-progress", own[x])
    <3>1. rename("in-progress", own[x], "processed", k)
      BY <2>1, <2>5
    <3>2. QED BY <1>1, <1>2, <1>3, <2>2, <2>4, <3>1
  <2>6. CASE ~exists("in-progress", own[x])
    <3>1. UNCHANGED box /\ own[x] # NoName
      BY <1>1, <2>1, <2>6, NoNameAssumption
    <3>2. PICK n \in Name : messageOf(n) = messageOf(own[x]) /\ exists("processed", n)
      BY <1>1, <2>6, <3>1 DEF HeldOrFiled, Filed
    <3>3. QED BY <1>1, <1>2, <1>4, <2>4, <3>1, <3>2
  <2>7. QED BY <2>5, <2>6
<1>8. QED BY <1>5, <1>6, <1>7

(* The other steps of an executor: its own file is the one it had, none, or  *)
(* one that it has just put into in-progress.                                *)
LEMMA OtherStepsCarry ==
  ASSUME LaneInv, HeldOrFiled, NEW x \in Executor, ActionOf(x),
         ~AutonomousReturn(x), ~AutonomousReject(x), ~AutonomousClose(x)
  PROVE  /\ Carries
         /\ \A m : <<"work_completed", m>> \in journal' => <<"work_completed", m>> \in journal
         /\ phase'[x] = "hold" => kindOf[x] = "autonomous"
         /\ kindOf[x] = "autonomous" =>
              \/ own'[x] \in {own[x], NoName}
              \/ own'[x] \in Name /\ exists("in-progress", own[x])'
<1> DEFINE Same == \A m : <<"work_completed", m>> \in journal' => <<"work_completed", m>> \in journal
           Result == /\ Carries /\ Same
                     /\ phase'[x] = "hold" => kindOf[x] = "autonomous"
                     /\ kindOf[x] = "autonomous" =>
                          \/ own'[x] \in {own[x], NoName}
                          \/ own'[x] \in Name /\ exists("in-progress", own[x])'
<1> SUFFICES Result
  OBVIOUS
<1>1. /\ own \in [Executor -> Name \cup {NoName}] /\ phase \in [Executor -> Phase]
      /\ FilesTypeOK /\ {"action-required", "in-progress"} \subseteq Dirs
  BY DEF LaneInv, TypeOK, ExecutorTypeOK, Dirs
<1>2. CASE RunGeneric(x) \/ AutonomousRun(x) \/ Execute(x) \/ DeliverResponse(x) \/ EndRun(x)
           \/ Crash(x)
  <2>1. UNCHANGED <<box, journal>>
    BY <1>2 DEF RunGeneric, AutonomousRun, Execute, DeliverResponse, EndRun, Crash
  <2>2. phase'[x] # "hold" /\ own'[x] \in {own[x], NoName}
    BY <1>1, <1>2 DEF RunGeneric, AutonomousRun, StartRun, Execute, DeliverResponse, EndRun, Crash
  <2>3. QED BY <2>1, <2>2, SameBoxCarries
<1>3. CASE Throws(x)
  <2>1. UNCHANGED box /\ (UNCHANGED journal \/ log("work_failed", own[x], {}))
    BY <1>3 DEF Throws
  <2>2. phase'[x] # "hold" /\ own'[x] \in {own[x], NoName}
    BY <1>1, <1>3 DEF Throws
  <2>3. Same
    BY <2>1, OnlyHandoffsComplete
  <2>4. QED BY <2>1, <2>2, <2>3, SameBoxCarries
<1>4. CASE WatcherClose(x)
  <2>1. UNCHANGED box /\ log("work_completed", own[x], {}) /\ kindOf[x] = "watcher"
    BY <1>4 DEF WatcherClose
  <2>2. phase'[x] # "hold"
    BY <1>1, <1>4 DEF WatcherClose
  <2>3. Same
    BY <2>1, OnlyHandoffsComplete
  <2>4. QED BY <2>1, <2>2, <2>3, SameBoxCarries
<1>5. CASE FinishTask(x)
  <2>1. UNCHANGED <<journal, own>> /\ phase'[x] = "scan"
    BY <1>1, <1>5 DEF FinishTask
  <2>2. QED BY <1>5, <2>1, FinishCarries
<1>6. ASSUME NEW n \in Name, WatcherRun(x, n)
      PROVE  Result
  <2>1. UNCHANGED box /\ log("work_started", n, {}) /\ kindOf[x] = "watcher"
    BY <1>6 DEF WatcherRun
  <2>2. phase'[x] # "hold"
    BY <1>1, <1>6 DEF WatcherRun, StartRun
  <2>3. Same
    BY <2>1, OnlyHandoffsComplete
  <2>4. QED BY <2>1, <2>2, <2>3, SameBoxCarries
<1>7. ASSUME NEW n \in Name, Take(x, n)
      PROVE  Result
  <2>1. UNCHANGED <<journal, own>> /\ phase'[x] # "hold"
    BY <1>1, <1>7 DEF Take
  <2>2. QED BY <1>7, <2>1, ClaimCarries
<1>8. ASSUME NEW n \in Name, AutonomousHold(x, n)
      PROVE  Result
  <2>1. UNCHANGED journal /\ own'[x] = n /\ kindOf[x] = "autonomous"
    BY <1>1, <1>8 DEF AutonomousHold
  <2>2. Moves("action-required", n, "in-progress", n)
    BY <1>1, <1>8, RenameExists DEF AutonomousHold
  <2>3. exists("in-progress", own[x])'
    BY <1>1, <2>1, <2>2 DEF Moves, exists
  <2>4. QED BY <1>8, <2>1, <2>3, ClaimCarries
<1>10. phase[x] = "hold" => kindOf[x] = "autonomous"
  BY DEF HeldOrFiled
<1>11. ASSUME NEW n \in Name, WatcherBlock(x, n) \/ AutonomousExpire(x, n)
      PROVE  Result
  <2>1. UNCHANGED <<phase, own>>
    BY <1>11 DEF WatcherBlock, AutonomousExpire, executorVars
  <2>2. UNCHANGED journal \/ log("quarantine_event", n, {})
    BY <1>11 DEF WatcherBlock, AutonomousExpire
  <2>3. Same
    BY <2>2, OnlyHandoffsComplete
  <2>4. QED BY <1>11, <1>10, <2>1, <2>3, ClaimCarries
<1> HIDE DEF Result
<1>12. QED BY <1>2, <1>3, <1>4, <1>5, <1>6, <1>7, <1>8, <1>11 DEF ActionOf, ExecutorProgress

LEMMA FiledStep ==
  ASSUME OneAutonomous, LaneInv, JobReason, FiledInv, [Next]_vars
  PROVE  FiledInv'
<1> USE DEF FiledInv
<1>1. own \in [Executor -> Name \cup {NoName}]
  BY DEF LaneInv, TypeOK, ExecutorTypeOK
<1>2. ASSUME NEW x \in Executor, AutonomousReturn(x) \/ AutonomousReject(x) \/ AutonomousClose(x)
      PROVE  FiledInv'
  <2>1. /\ kindOf[x] = "autonomous" /\ own'[x] = NoName /\ phase'[x] = "idle"
        /\ \A n \in Name : exists("processed", n) => exists("processed", n)'
        /\ \A m : <<"work_completed", m>> \in journal' =>
             \/ <<"work_completed", m>> \in journal
             \/ \E n \in Name : messageOf(n) = m /\ exists("processed", n)'
    BY <1>2, ReleaseFiles
  <2>2. \A y \in Executor \ {x} : phase'[y] = phase[y] /\ own'[y] = own[y]
    BY <1>2, OthersWait DEF ActionOf, ExecutorProgress
  <2>3. \A y \in Executor : kindOf[y] = "autonomous" => y = x
    BY <2>1 DEF OneAutonomous
  <2>4. HeldOrFiled'
    BY <2>1, <2>2, <2>3 DEF HeldOrFiled
  <2>5. CompletedFiled'
    BY <2>1 DEF CompletedFiled, Filed
  <2>6. QED BY <2>4, <2>5
<1>3. ASSUME Carries, \A m : <<"work_completed", m>> \in journal' => <<"work_completed", m>> \in journal,
             \A y \in Executor : phase'[y] = "hold" => kindOf[y] = "autonomous",
             \A y \in Executor : kindOf[y] = "autonomous" =>
               \/ own'[y] \in {own[y], NoName}
               \/ own'[y] \in Name /\ exists("in-progress", own[y])'
      PROVE  FiledInv'
  <2>1. \A m : Filed(m) => Filed(m)'
    BY <1>3 DEF Carries, Filed
  <2>2. CompletedFiled'
    BY <1>3, <2>1 DEF CompletedFiled
  <2>3. ASSUME NEW y \in Executor, kindOf[y] = "autonomous", own'[y] # NoName
        PROVE  exists("in-progress", own[y])' \/ Filed(messageOf(own[y]))'
    <3>1. CASE own'[y] \in Name /\ exists("in-progress", own[y])'
      BY <3>1
    <3> DEFINE o == own[y]
    <3>2. CASE own'[y] = own[y]
      <4>1. o \in Name /\ (exists("in-progress", o) \/ Filed(messageOf(o)))
        BY <1>1, <2>3, <3>2 DEF HeldOrFiled
      <4>2. ASSUME NEW n \in Name, exists("in-progress", n) \/ Filed(messageOf(n))
            PROVE  exists("in-progress", n)' \/ Filed(messageOf(n))'
        <5>1. CASE exists("in-progress", n)'
          BY <5>1
        <5>2. CASE exists("processed", n)'
          BY <5>2 DEF Filed
        <5>3. CASE Filed(messageOf(n))
          BY <2>1, <5>3
        <5>4. QED BY <1>3, <4>2, <5>1, <5>2, <5>3 DEF Carries
      <4>3. ASSUME NEW n \in Name, n = o
            PROVE  exists("in-progress", own[y])' \/ Filed(messageOf(own[y]))'
        <5>1. exists("in-progress", n)' \/ Filed(messageOf(n))'
          BY <4>1, <4>2, <4>3
        <5>2. own'[y] = n
          BY <3>2, <4>3
        <5>3. QED BY <5>1, <5>2 DEF exists, Filed
      <4>4. QED BY <4>1, <4>3
    <3>3. QED BY <1>3, <2>3, <3>1, <3>2
  <2>4. HeldOrFiled'
    BY <1>3, <2>3 DEF HeldOrFiled
  <2>5. QED BY <2>2, <2>4
<1>4. ASSUME NEW x \in Executor, ActionOf(x), ~AutonomousReturn(x), ~AutonomousReject(x),
             ~AutonomousClose(x)
      PROVE  FiledInv'
  <2>1. \A y \in Executor \ {x} : phase'[y] = phase[y] /\ own'[y] = own[y]
    BY <1>4, OthersWait
  <2>2. \A y \in Executor : phase[y] = "hold" => kindOf[y] = "autonomous"
    BY DEF HeldOrFiled
  <2>3. /\ Carries
        /\ \A m : <<"work_completed", m>> \in journal' => <<"work_completed", m>> \in journal
        /\ phase'[x] = "hold" => kindOf[x] = "autonomous"
        /\ kindOf[x] = "autonomous" =>
             \/ own'[x] \in {own[x], NoName}
             \/ own'[x] \in Name /\ exists("in-progress", own[x])'
    BY <1>4, OtherStepsCarry
  <2>4. QED BY <1>3, <2>1, <2>2, <2>3
<1>5. CASE ~ExecutorNext
  <2>1. UNCHANGED executorVars
    BY <1>5 DEF Next, Deliver, Reap, Stop, WorkerNext, OwnerAges, vars
  <2>2. Carries
    BY <1>5, TasksWait DEF Carries
  <2>3. \A m : <<"work_completed", m>> \in journal' => <<"work_completed", m>> \in journal
    <3>1. ASSUME NEW w \in Worker, Report(w)
          PROVE  \A m : <<"work_completed", m>> \in journal' => <<"work_completed", m>> \in journal
      BY <3>1, OnlyHandoffsComplete DEF Report
    <3>2. (\A w \in Worker : ~Report(w)) => UNCHANGED journal
      BY <1>5 DEF Next, Deliver, Reap, Stop, StopWorker, WorkerNext, WorkerStep,
         StartWorker, ClaimActiveOwner, ListInbox, ReadFile, WriteCopy, UnlinkSource, MoveFile,
         OwnerAges, OwnerClaimAges, vars
    <3>3. QED BY <3>1, <3>2
  <2>4. \A y \in Executor : phase[y] = "hold" => kindOf[y] = "autonomous"
    BY DEF HeldOrFiled
  <2>5. QED BY <1>3, <2>1, <2>2, <2>3, <2>4 DEF executorVars
<1>6. QED BY <1>2, <1>4, <1>5 DEF ExecutorNext, ActionOf

(* With one autonomous executor at most, what the journal says is completed  *)
(* has been filed as processed, whatever workers, watchers, plain executors  *)
(* and the reaper do, and however often executors crash, throw or are killed *)
(* (autonomous-executor.js 253-328).                                         *)
THEOREM CompletionIsFiled ==
  ASSUME OneAutonomous
  PROVE  Spec => []CompletedIsFiled
<1> DEFINE Inv == LaneInv /\ JobReason /\ FiledInv
<1>1. Init => FiledInv
  BY DEF Init, ExecutorInit, FiledInv, HeldOrFiled, CompletedFiled
<1>2. Init => Inv
  BY <1>1, LaneInit, JobReasonInit
<1>3. Inv /\ [Next]_vars => Inv'
  BY LaneStep, JobReasonStep, FiledStep
<1>4. Inv => CompletedIsFiled
  BY DEF FiledInv, CompletedFiled, CompletedIsFiled, Filed, files
<1>5. QED BY <1>2, <1>3, <1>4, PTL DEF Spec
=============================================================================
