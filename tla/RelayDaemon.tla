------------------------------ MODULE RelayDaemon ------------------------------
(* The message transport between lanes (scripts/relay-daemon.js). Each lane  *)
(* runs a daemon that delivers its own outbox, collects what is for it from  *)
(* the outboxes of the others, and collects what the others have left for it *)
(* in their own copies of its inbox. A direct message is thus carried by two *)
(* daemons that do not know of each other.                                   *)
EXTENDS Integers, FiniteSets

CONSTANTS
  Lane,          \* the lanes
  Daemon,        \* the lanes whose relay daemon runs
  Parcel,        \* the messages, each a file name of its own
  from,          \* from[m]: the lane that posts m
  to,            \* to[m]: a lane or All
  via,           \* via[m]: "outbox" or "cross", where m is posted
  accepted,      \* accepted[m]: validateIncomingSignature accepts m
  All,           \* no lane
  NoParcel,      \* no message
  MaxErrors,     \* bound: signings and writes that fail
  MaxCrashes     \* bound: daemons that die

ASSUME RelayAssumption ==
  /\ Daemon \subseteq Lane
  /\ All \notin Lane
  /\ NoParcel \notin Parcel
  /\ from \in [Parcel -> Lane]
  /\ to \in [Parcel -> Lane \cup {All}]
  /\ via \in [Parcel -> {"outbox", "cross"}]
  /\ accepted \in [Parcel -> BOOLEAN]
  /\ MaxErrors \in Nat /\ MaxCrashes \in Nat
  /\ \A m \in Parcel : via[m] = "cross" => to[m] \in Lane \ {from[m]}

VARIABLES
  file,       \* file[m]: the posted file: "absent", "half" written or "whole"
  posting,    \* posting[m]: "no", "writing" or "done"
  committed,  \* the messages whose claims the commit guard finds in git
  inbox,      \* the pairs <<m, l>> such that m lies in the inbox of l
  arrivals,   \* arrivals[<<m, l>>]: how often m was written to the inbox of l
  stage,      \* stage[l]: what the daemon of l is going through
  todo,       \* todo[l]: the lanes it has still to visit
  list,       \* list[l]: the files it has listed and not yet read
  job,        \* job[l]: what it does with the file it has read
  rejected,   \* the messages deleted for their signature
  errors, crashes

postVars == <<posting, committed>>
daemonVars == <<stage, todo, list, job>>
faultVars == <<errors, crashes>>
vars == <<file, postVars, inbox, arrivals, daemonVars, rejected, faultVars>>

Job == [step : {"idle", "send", "copy", "remove", "reject"},
        parcel : Parcel \cup {NoParcel}, left : SUBSET Lane, ok : BOOLEAN]
Idle == [step |-> "idle", parcel |-> NoParcel, left |-> {}, ok |-> TRUE]

TypeOK ==
  /\ file \in [Parcel -> {"absent", "half", "whole"}]
  /\ posting \in [Parcel -> {"no", "writing", "done"}]
  /\ committed \subseteq Parcel
  /\ inbox \subseteq Parcel \X Lane
  /\ arrivals \in [Parcel \X Lane -> Nat]
  /\ stage \in [Lane -> {"rest", "outbound", "incoming", "cross"}]
  /\ todo \in [Lane -> SUBSET Lane]
  /\ list \in [Lane -> SUBSET Parcel]
  /\ job \in [Lane -> Job]
  /\ rejected \subseteq Parcel
  /\ errors \in 0..MaxErrors /\ crashes \in 0..MaxCrashes

Init ==
  /\ file = [m \in Parcel |-> "absent"]
  /\ posting = [m \in Parcel |-> "no"]
  /\ committed = {}
  /\ inbox = {}
  /\ arrivals = [p \in Parcel \X Lane |-> 0]
  /\ stage = [l \in Lane |-> "rest"]
  /\ todo = [l \in Lane |-> {}]
  /\ list = [l \in Lane |-> {}]
  /\ job = [l \in Lane |-> Idle]
  /\ rejected = {}
  /\ errors = 0 /\ crashes = 0

targetLanes(m) == IF to[m] = All THEN Lane \ {from[m]} ELSE {to[m]}

remove(m) == file' = [file EXCEPT ![m] = "absent"]

deliver(m, l) ==
  /\ inbox' = inbox \cup {<<m, l>>}
  /\ arrivals' = [arrivals EXCEPT ![<<m, l>>] = @ + 1]

begin(l, step, m, left) ==
  job' = [job EXCEPT ![l] = [step |-> step, parcel |-> m, left |-> left, ok |-> TRUE]]

rest(l) == job' = [job EXCEPT ![l] = Idle]

idle(l) == job[l].step = "idle"

-----------------------------------------------------------------------------
(* The surroundings: a lane writes a file, which is not one step; what a     *)
(* message claims gets committed; the lane worker takes a file.              *)
BeginPost(m) ==
  /\ posting[m] = "no"
  /\ posting' = [posting EXCEPT ![m] = "writing"]
  /\ file' = [file EXCEPT ![m] = "half"]
  /\ UNCHANGED <<committed, inbox, arrivals, daemonVars, rejected, faultVars>>

FinishPost(m) ==
  /\ posting[m] = "writing"
  /\ posting' = [posting EXCEPT ![m] = "done"]
  /\ file' = [file EXCEPT ![m] = IF @ = "half" THEN "whole" ELSE @]
  /\ UNCHANGED <<committed, inbox, arrivals, daemonVars, rejected, faultVars>>

Commit(m) ==
  /\ m \notin committed
  /\ committed' = committed \cup {m}
  /\ UNCHANGED <<file, posting, inbox, arrivals, daemonVars, rejected, faultVars>>

TakeFromInbox(m, l) ==
  /\ <<m, l>> \in inbox
  /\ inbox' = inbox \ {<<m, l>>}
  /\ UNCHANGED <<file, postVars, arrivals, daemonVars, rejected, faultVars>>

-----------------------------------------------------------------------------
(* deliverOutbox *)
StartTick(l) ==
  /\ stage[l] = "rest"
  /\ stage' = [stage EXCEPT ![l] = "outbound"]
  /\ list' = [list EXCEPT ![l] = {m \in Parcel : /\ via[m] = "outbox" /\ from[m] = l
                                                  /\ file[m] # "absent"}]
  /\ UNCHANGED <<file, postVars, inbox, arrivals, todo, job, rejected, faultVars>>

(* A file that is gone or does not parse and one whose claims are not        *)
(* committed are passed over, as one for a lane nobody knows always is.      *)
ReadOutbox(l, m) ==
  /\ stage[l] = "outbound" /\ idle(l) /\ m \in list[l]
  /\ list' = [list EXCEPT ![l] = @ \ {m}]
  /\ IF file[m] = "whole" /\ m \in committed
     THEN begin(l, "send", m, targetLanes(m)) ELSE UNCHANGED job
  /\ UNCHANGED <<file, postVars, inbox, arrivals, stage, todo, rejected, faultVars>>

(* A signing or a write that fails is noted; the other targets follow.       *)
SendTo(l, t) ==
  /\ job[l].step = "send" /\ t \in job[l].left
  /\ \/ /\ deliver(job[l].parcel, t)
        /\ job' = [job EXCEPT ![l].left = @ \ {t}]
        /\ UNCHANGED errors
     \/ /\ errors < MaxErrors
        /\ errors' = errors + 1
        /\ job' = [job EXCEPT ![l].left = @ \ {t}, ![l].ok = FALSE]
        /\ UNCHANGED <<inbox, arrivals>>
  /\ UNCHANGED <<file, postVars, stage, todo, list, rejected, crashes>>

(* A fault for the model checker: a failed send is waited for.               *)
Archive_OnlyIfOk(l) ==
  /\ job[l].step = "send" /\ job[l].left = {} /\ job[l].ok
  /\ remove(job[l].parcel)
  /\ rest(l)
  /\ UNCHANGED <<postVars, inbox, arrivals, stage, todo, list, rejected, faultVars>>

(* The file leaves the outbox only if each write succeeded. When the target  *)
(* has collected it in the meantime, the rename and the unlink that is tried *)
(* then both fail: the exception ends the tick.                              *)
Archive(l) ==
  LET m == job[l].parcel
      ended == job[l].ok /\ file[m] = "absent"
  IN /\ job[l].step = "send" /\ job[l].left = {}
     /\ IF job[l].ok THEN remove(m) ELSE UNCHANGED file
     /\ stage' = IF ended THEN [stage EXCEPT ![l] = "rest"] ELSE stage
     /\ list' = IF ended THEN [list EXCEPT ![l] = {}] ELSE list
     /\ rest(l)
     /\ UNCHANGED <<postVars, inbox, arrivals, todo, rejected, faultVars>>

-----------------------------------------------------------------------------
(* collectIncoming and collectCrossLaneInbox visit the other lanes in turn.  *)
NextStage(l) ==
  /\ stage[l] # "rest" /\ idle(l) /\ list[l] = {} /\ todo[l] = {}
  /\ LET next == [outbound |-> "incoming", incoming |-> "cross", cross |-> "rest"][stage[l]]
     IN /\ stage' = [stage EXCEPT ![l] = next]
        /\ todo' = [todo EXCEPT ![l] = IF next = "rest" THEN {} ELSE Lane \ {l}]
  /\ UNCHANGED <<file, postVars, inbox, arrivals, list, job, rejected, faultVars>>

ListLane(l, o) ==
  /\ stage[l] \in {"incoming", "cross"} /\ idle(l) /\ list[l] = {} /\ o \in todo[l]
  /\ todo' = [todo EXCEPT ![l] = @ \ {o}]
  /\ list' = [list EXCEPT ![l] =
       {m \in Parcel : /\ from[m] = o /\ file[m] # "absent"
                       /\ IF stage[l] = "incoming" THEN via[m] = "outbox"
                          ELSE via[m] = "cross" /\ to[m] = l}]
  /\ UNCHANGED <<file, postVars, inbox, arrivals, stage, job, rejected, faultVars>>

(* A fault for the model checker: what does not parse is unsigned here, too. *)
ReadIncoming_LikeCross(l, m) ==
  /\ stage[l] = "incoming" /\ idle(l) /\ m \in list[l]
  /\ list' = [list EXCEPT ![l] = @ \ {m}]
  /\ IF to[m] = l
     THEN begin(l, IF file[m] # "whole" \/ ~accepted[m] THEN "reject"
                   ELSE IF <<m, l>> \in inbox THEN "remove" ELSE "copy", m, {})
     ELSE UNCHANGED job
  /\ UNCHANGED <<file, postVars, inbox, arrivals, stage, todo, rejected, faultVars>>

(* What is not for this lane or does not parse is left. What is in the inbox *)
(* already is only removed.                                                  *)
ReadIncoming(l, m) ==
  /\ stage[l] = "incoming" /\ idle(l) /\ m \in list[l]
  /\ list' = [list EXCEPT ![l] = @ \ {m}]
  /\ IF file[m] = "whole" /\ to[m] = l
     THEN begin(l, IF ~accepted[m] THEN "reject"
                   ELSE IF <<m, l>> \in inbox THEN "remove" ELSE "copy", m, {})
     ELSE UNCHANGED job
  /\ UNCHANGED <<file, postVars, inbox, arrivals, stage, todo, rejected, faultVars>>

(* Here a file that does not parse counts as a message without signature.    *)
ReadCross(l, m) ==
  /\ stage[l] = "cross" /\ idle(l) /\ m \in list[l]
  /\ list' = [list EXCEPT ![l] = @ \ {m}]
  /\ begin(l, IF file[m] = "whole" /\ accepted[m] THEN "copy" ELSE "reject", m, {})
  /\ UNCHANGED <<file, postVars, inbox, arrivals, stage, todo, rejected, faultVars>>

Reject(l) ==
  /\ job[l].step = "reject"
  /\ remove(job[l].parcel)
  /\ rejected' = rejected \cup {job[l].parcel}
  /\ rest(l)
  /\ UNCHANGED <<postVars, inbox, arrivals, stage, todo, list, faultVars>>

(* A fault for the model checker: the source of the copy stays.              *)
Copy_KeepsSource(l) ==
  /\ job[l].step = "copy"
  /\ deliver(job[l].parcel, l)
  /\ rest(l)
  /\ UNCHANGED <<file, postVars, stage, todo, list, rejected, faultVars>>

(* A write that fails leaves the source for the next tick.                   *)
Copy(l) ==
  /\ job[l].step = "copy"
  /\ \/ /\ deliver(job[l].parcel, l)
        /\ job' = [job EXCEPT ![l].step = "remove"]
        /\ UNCHANGED errors
     \/ /\ errors < MaxErrors
        /\ errors' = errors + 1
        /\ rest(l)
        /\ UNCHANGED <<inbox, arrivals>>
  /\ UNCHANGED <<file, postVars, stage, todo, list, rejected, crashes>>

(* The unlink of the source; that it has gone already is caught.             *)
Remove(l) ==
  /\ job[l].step = "remove"
  /\ remove(job[l].parcel)
  /\ rest(l)
  /\ UNCHANGED <<postVars, inbox, arrivals, stage, todo, list, rejected, faultVars>>

(* The process dies anywhere; its successor starts with a new tick.          *)
Crash(l) ==
  /\ stage[l] # "rest" /\ crashes < MaxCrashes
  /\ crashes' = crashes + 1
  /\ stage' = [stage EXCEPT ![l] = "rest"]
  /\ todo' = [todo EXCEPT ![l] = {}]
  /\ list' = [list EXCEPT ![l] = {}]
  /\ rest(l)
  /\ UNCHANGED <<file, postVars, inbox, arrivals, rejected, errors>>

DaemonStep(l) ==
  \/ StartTick(l) \/ Archive(l) \/ NextStage(l)
  \/ Reject(l) \/ Copy(l) \/ Remove(l)
  \/ \E m \in Parcel : ReadOutbox(l, m) \/ ReadIncoming(l, m) \/ ReadCross(l, m)
  \/ \E t \in Lane : SendTo(l, t) \/ ListLane(l, t)

Next ==
  \/ \E m \in Parcel : BeginPost(m) \/ FinishPost(m) \/ Commit(m)
  \/ \E m \in Parcel, l \in Lane : TakeFromInbox(m, l)
  \/ \E l \in Daemon : DaemonStep(l) \/ Crash(l)

Spec == Init /\ [][Next]_vars

(* The daemons poll for ever, a lane that has begun to write a file ends.    *)
Fairness ==
  /\ \A l \in Daemon : WF_vars(DaemonStep(l))
  /\ \A m \in Parcel : WF_vars(FinishPost(m))

FairSpec == Spec /\ Fairness

-----------------------------------------------------------------------------
(* Properties *)

byOutbox == {m \in Parcel : via[m] = "outbox"}

(* The state of the abstract transport. *)
Posted == {m \in byOutbox : posting[m] = "done"}
Kept == {m \in byOutbox : file[m] = "whole"}
Got == {p \in byOutbox \X Lane : arrivals[p] > 0}

(* Two daemons carry a direct message and each may fail, die or find that    *)
(* the other was faster (relay-daemon.js 227-236, 275-286): still the outbox *)
(* gives up a message only when each lane it is for has got it, or for its   *)
(* signature. This is the abstract transport of module Courier.              *)
Transport == INSTANCE Courier WITH
  Parcel <- byOutbox, receivers <- [m \in byOutbox |-> targetLanes(m)],
  posted <- Posted, kept <- Kept, got <- Got

TransportSpec == Transport!Spec

(* A lane gets a message at most twice, once from each daemon, and once more *)
(* for each failed send and each crash: what runs it twice is the transport, *)
(* not the number of polls.                                                  *)
ArrivalsAreBounded ==
  \A p \in Parcel \X Lane : arrivals[p] <= 2 + errors + crashes

(* Whatever other files the outbox holds, failed sends of a broadcast and    *)
(* the exception that ends a tick do not keep a committed message from any   *)
(* of its lanes for ever.                                                    *)
EveryTargetIsReached ==
  \A m \in byOutbox, l \in Lane :
    file[m] = "whole" /\ accepted[m] /\ m \in committed /\ l \in targetLanes(m)
      ~> arrivals[<<m, l>>] > 0

(* The comment at relay-daemon.js 327: what is rejected, and deleted, are    *)
(* unsigned messages.                                                        *)
OnlyUnsignedAreRejected == \A m \in rejected : ~accepted[m]
================================================================================
