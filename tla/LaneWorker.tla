------------------------------ MODULE LaneWorker ------------------------------
(* The lane workers (scripts/lane-worker.js): each takes the files of the    *)
(* inbox root one by one, decides the queue, writes a stamped copy there and *)
(* only then unlinks the source. Nothing keeps two workers, or a worker and  *)
(* its restarted successor, from the same file.                              *)
EXTENDS LaneFiles, RoutingGate, FiniteSets

CONSTANTS
  Worker,         \* the worker processes of the lane
  maxFiles,       \* option: how many files one pass takes on
  ownerPathShared \* getActiveOwner reads the file claimActiveOwner writes

ASSUME LaneWorkerAssumption ==
  /\ maxFiles \in Nat \ {0}
  /\ ownerPathShared \in BOOLEAN
  /\ \A m \in Msg : wellFormed(Content[m])

VARIABLES
  session,      \* session[w]: the session of the running process, 0 if down
  started,      \* how many sessions have been started
  isOwner,      \* isOwner[w]: what the constructor decided
  activeOwner,  \* the session in active-owner.json, 0 if there is none
  ownerFresh,   \* claimed less than 15 minutes ago
  listing,      \* listing[w]: the files of the current pass not yet read
  job,          \* job[w]: what the worker is doing with the file it read
  admitted,     \* admitted[m]: how often a copy went to an executor's queue
  nacked        \* the messages whose sender was told of a refusal

ownerVars == <<session, started, isOwner, activeOwner, ownerFresh>>
workerVars == <<ownerVars, listing, job, admitted, nacked>>

Step == {"idle", "claim", "write", "move", "unlink", "report"}
Job == [step : Step, name : Name \cup {NoName}, dir : Dirs, to : Name \cup {NoName}]
Idle == [step |-> "idle", name |-> NoName, dir |-> "inbox", to |-> NoName]

WorkerTypeOK ==
  /\ session \in [Worker -> Stamp]
  /\ started \in Stamp
  /\ isOwner \in [Worker -> BOOLEAN]
  /\ activeOwner \in Stamp
  /\ ownerFresh \in BOOLEAN
  /\ job \in [Worker -> Job]
  /\ admitted \in [Msg -> Nat]
  /\ nacked \subseteq Msg
  /\ listing \in [Worker -> SUBSET Name]

WorkerInit ==
  /\ session = [w \in Worker |-> 0]
  /\ started = 0
  /\ isOwner = [w \in Worker |-> FALSE]
  /\ activeOwner = 0
  /\ ownerFresh = FALSE
  /\ job = [w \in Worker |-> Idle]
  /\ admitted = [m \in Msg |-> 0]
  /\ nacked = {}
  /\ listing = [w \in Worker |-> {}]

-----------------------------------------------------------------------------
(* The constructor looks for a live owner once and for all ...               *)
StartWorker(w) ==
  /\ session[w] = 0 /\ started < MaxSession
  /\ started' = started + 1
  /\ session' = [session EXCEPT ![w] = started + 1]
  /\ LET free == activeOwner = 0 \/ ~ownerFresh \/ ~ownerPathShared
     IN /\ job' = [job EXCEPT ![w] = [Idle EXCEPT !.step =
                                        IF free THEN "claim" ELSE "idle"]]
        /\ isOwner' = [isOwner EXCEPT ![w] = FALSE]
  /\ UNCHANGED <<box, activeOwner, ownerFresh, listing, admitted, nacked, journal>>

(* ... and writes its own claim in a second step. *)
ClaimActiveOwner(w) ==
  /\ job[w].step = "claim"
  /\ activeOwner' = session[w]
  /\ ownerFresh' = TRUE
  /\ isOwner' = [isOwner EXCEPT ![w] = TRUE]
  /\ job' = [job EXCEPT ![w] = Idle]
  /\ UNCHANGED <<box, session, started, listing, admitted, nacked, journal>>

(* The claim is never renewed: after 15 minutes it no longer counts. *)
OwnerClaimAges ==
  /\ ownerFresh
  /\ ownerFresh' = FALSE
  /\ UNCHANGED <<box, session, started, isOwner, activeOwner, listing, job,
                 admitted, nacked, journal>>

DirOf(queue) ==
  CASE queue = "actionRequired" -> "action-required"
    [] queue = "inProgress"     -> "in-progress"
    [] OTHER                    -> queue

ExecutorDirs == {"action-required", "in-progress"}

(* A fault for the model checker: no stamp counts as another's stamp.        *)
foreignStamp_Unstamped(w, n) == box[<<"inbox", n>>] # session[w]

(* The message as read was stamped by another session. *)
foreignStamp(w, n) == box[<<"inbox", n>>] \notin {0, session[w]}

(* What processFile does with the file: leave it (the decision threw), move  *)
(* it unread or unjudged, or write the copy and unlink the source.           *)
Disposition(w, n) ==
  LET m == Content[messageOf(n)]
      plan(step, dir) == [step |-> step, dir |-> dir]
  IN IF ~m.json THEN plan("move", "quarantine")
     ELSE IF ~isOwner[w] /\ requiresAction(m) THEN plan("move", "needs-review")
     ELSE IF foreignStamp(w, n) /\ ~m.allow_cross_instance /\ requiresAction(m)
       THEN plan("move", "stale-foreign")
     ELSE IF routeOf(m) = Throw THEN plan("leave", "inbox")
     ELSE plan("write", DirOf(routeOf(m).queue))

(* listInboxFiles: the files of a pass, at most maxFiles of them, in the     *)
(* directory's own order.                                                    *)
ListInbox(w) ==
  /\ session[w] # 0 /\ job[w].step = "idle" /\ listing[w] = {}
  /\ \E some \in SUBSET files("inbox") :
       /\ some # {}
       /\ \/ Cardinality(some) = maxFiles
          \/ Cardinality(some) < maxFiles /\ some = files("inbox")
       /\ listing' = [listing EXCEPT ![w] = some]
  /\ UNCHANGED <<box, ownerVars, job, admitted, nacked, journal>>

(* A fault for the model checker: an exception ends the whole pass.          *)
ReadFile_AbortsPass(w, n) ==
  LET d == Disposition(w, n)
  IN /\ job[w].step = "idle" /\ n \in listing[w]
     /\ IF exists("inbox", n) /\ d.step # "leave"
        THEN /\ \E k \in uniquePath(d.dir, n) :
                  job' = [job EXCEPT ![w] = [step |-> d.step, name |-> n,
                                             dir |-> d.dir, to |-> k]]
             /\ listing' = [listing EXCEPT ![w] = @ \ {n}]
        ELSE UNCHANGED job /\ listing' = [listing EXCEPT ![w] = {}]
     /\ UNCHANGED <<box, ownerVars, admitted, nacked, journal>>

(* Reads a listed file, decides and picks the target name. A file that has   *)
(* gone and a decision that throws are caught by processOnce, which goes on  *)
(* with the next file of the pass.                                           *)
ReadFile(w, n) ==
  LET d == Disposition(w, n)
  IN /\ job[w].step = "idle" /\ n \in listing[w]
     /\ listing' = [listing EXCEPT ![w] = @ \ {n}]
     /\ IF exists("inbox", n) /\ d.step # "leave"
        THEN \E k \in uniquePath(d.dir, n) :
               job' = [job EXCEPT ![w] = [step |-> d.step, name |-> n,
                                          dir |-> d.dir, to |-> k]]
        ELSE UNCHANGED job
     /\ UNCHANGED <<box, ownerVars, admitted, nacked, journal>>

(* A fault for the model checker: a write that fails is not noticed.         *)
WriteCopy_IgnoresError(w) ==
  LET j == job[w]
  IN /\ j.step = "write"
     /\ write(j.dir, j.to, session[w]) \/ UNCHANGED box
     /\ job' = [job EXCEPT ![w].step = "unlink"]
     /\ UNCHANGED <<ownerVars, listing, admitted, nacked, journal>>

(* _writeWithMetadata: the copy carries this session's stamp. *)
WriteCopy(w) ==
  LET j == job[w]
  IN /\ j.step = "write"
     /\ write(j.dir, j.to, session[w])
     /\ admitted' = IF j.dir \in ExecutorDirs
                    THEN [admitted EXCEPT ![messageOf(j.name)] = @ + 1]
                    ELSE admitted
     /\ job' = [job EXCEPT ![w].step = "unlink"]
     /\ UNCHANGED <<ownerVars, listing, nacked, journal>>

(* unlinkSync throws when another worker has removed the source: then        *)
(* nothing is journalled and nobody is told, but the copy stays.             *)
UnlinkSource(w) ==
  LET j == job[w]
  IN /\ j.step = "unlink"
     /\ IF exists("inbox", j.name)
        THEN unlink("inbox", j.name) /\ job' = [job EXCEPT ![w].step = "report"]
        ELSE UNCHANGED box /\ job' = [job EXCEPT ![w] = Idle]
     /\ UNCHANGED <<ownerVars, listing, admitted, nacked, journal>>

EventOf(dir) ==
  CASE dir = "action-required" -> "work_started"
    [] dir = "processed"       -> "work_completed"
    [] dir = "blocked"         -> "work_blocked"
    [] dir = "quarantine"      -> "work_quarantined"
    [] OTHER                   -> "work_routed"

(* Faults for the model checker: the NACK is recorded under the file's name, *)
(* and it is sent for what is blocked only.                                  *)
Report_ByName(w) ==
  /\ job[w].step = "report"
  /\ log(EventOf(job[w].dir), job[w].name, {})
  /\ nacked' = nacked \cup {job[w].name}
  /\ job' = [job EXCEPT ![w] = Idle]
  /\ UNCHANGED <<box, ownerVars, listing, admitted>>

Report_BlockedOnly(w) ==
  LET m == messageOf(job[w].name)
  IN /\ job[w].step = "report"
     /\ log(EventOf(job[w].dir), job[w].name, {})
     /\ nacked' = IF job[w].dir = "blocked" THEN nacked \cup {m} ELSE nacked
     /\ job' = [job EXCEPT ![w] = Idle]
     /\ UNCHANGED <<box, ownerVars, listing, admitted>>

(* The journal entry, and the NACK to the sender of a refused message. *)
Report(w) ==
  LET j == job[w]
      m == messageOf(j.name)
  IN /\ j.step = "report"
     /\ log(EventOf(j.dir), j.name, {})
     /\ nacked' = IF j.dir \in {"blocked", "quarantine"} /\ Content[m].nackable
                  THEN nacked \cup {m} ELSE nacked
     /\ job' = [job EXCEPT ![w] = Idle]
     /\ UNCHANGED <<box, ownerVars, listing, admitted>>

(* The rename of a file that is not judged; it throws when the source has    *)
(* gone, which changes nothing.                                              *)
MoveFile(w) ==
  LET j == job[w]
  IN /\ j.step = "move"
     /\ IF exists("inbox", j.name) THEN rename("inbox", j.name, j.dir, j.to)
                                   ELSE UNCHANGED box
     /\ job' = [job EXCEPT ![w] = Idle]
     /\ UNCHANGED <<ownerVars, listing, admitted, nacked, journal>>

(* The process dies; systemd starts a new one, with a session of its own. *)
StopWorker(w) ==
  /\ session[w] # 0
  /\ session' = [session EXCEPT ![w] = 0]
  /\ isOwner' = [isOwner EXCEPT ![w] = FALSE]
  /\ job' = [job EXCEPT ![w] = Idle]
  /\ listing' = [listing EXCEPT ![w] = {}]
  /\ UNCHANGED <<box, started, activeOwner, ownerFresh, admitted, nacked,
                 journal>>

WorkerStep(w) ==
  \/ ClaimActiveOwner(w)
  \/ ListInbox(w) \/ \E n \in Name : ReadFile(w, n)
  \/ WriteCopy(w) \/ UnlinkSource(w) \/ Report(w) \/ MoveFile(w)
=============================================================================
