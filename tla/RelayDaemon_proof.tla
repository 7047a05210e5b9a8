--------------------------- MODULE RelayDaemon_proof ---------------------------
(* The relay daemons implement the abstract transport of module Courier, for *)
(* any number of lanes, daemons, messages, failed writes and crashes.        *)
EXTENDS RelayDaemon, TLAPS

(* A file is whole only once it has been written, and nothing touches a file *)
(* of an outbox that is still being written.                                 *)
FilesFollowPosting ==
  \A m \in Parcel :
    /\ file[m] = "whole" => posting[m] = "done"
    /\ m \in byOutbox /\ posting[m] = "writing" => file[m] = "half"

(* What lies in an inbox has arrived there.                                  *)
InboxesHoldArrivals == \A p \in inbox : arrivals[p] > 0

(* collectCrossLaneInbox never has a file of an outbox at hand.              *)
CrossListsCross ==
  \A l \in Lane : stage[l] = "cross" => list[l] \cap byOutbox = {}

(* A lane that sends knows to whom it has still to send, and has reached the *)
(* others unless a send has failed.                                          *)
SenderOK(l) ==
  LET j == job[l]
  IN j.step = "send" =>
       /\ j.left \subseteq targetLanes(j.parcel)
       /\ j.ok => \A t \in targetLanes(j.parcel) \ j.left : arrivals[<<j.parcel, t>>] > 0

(* A lane that collects from an outbox is the only target of what it has in  *)
(* hand; it removes what has arrived and rejects what is not accepted.       *)
CollectorOK(l) ==
  LET j == job[l]
  IN j.step \in {"copy", "remove", "reject"} /\ j.parcel \in byOutbox =>
       /\ targetLanes(j.parcel) = {l}
       /\ j.step = "remove" => arrivals[<<j.parcel, l>>] > 0
       /\ j.step = "reject" => ~accepted[j.parcel]

(* What a daemon has in hand was posted.                                     *)
InHandOK(l) ==
  job[l].step # "idle" =>
    /\ job[l].parcel \in Parcel
    /\ job[l].parcel \in byOutbox => posting[job[l].parcel] = "done"

JobsOK == \A l \in Lane : SenderOK(l) /\ CollectorOK(l) /\ InHandOK(l)

IInv == TypeOK /\ FilesFollowPosting /\ InboxesHoldArrivals /\ CrossListsCross /\ JobsOK

-----------------------------------------------------------------------------
(* Type correctness. *)

LEMMA TargetType ==
  ASSUME NEW m \in Parcel
  PROVE  targetLanes(m) \subseteq Lane
BY RelayAssumption DEF targetLanes

LEMMA RemoveType ==
  ASSUME TypeOK, NEW m, remove(m)
  PROVE  file' \in [Parcel -> {"absent", "half", "whole"}]
BY DEF remove, TypeOK

LEMMA DeliverType ==
  ASSUME TypeOK, NEW m \in Parcel, NEW l \in Lane, deliver(m, l)
  PROVE  inbox' \subseteq Parcel \X Lane /\ arrivals' \in [Parcel \X Lane -> Nat]
BY DEF deliver, TypeOK

LEMMA JobType ==
  ASSUME TypeOK, NEW l \in Lane, NEW m \in Parcel, NEW left \in SUBSET Lane,
         NEW s \in {"send", "copy", "remove", "reject"},
         begin(l, s, m, left) \/ rest(l)
  PROVE  job' \in [Lane -> Job]
<1>1. CASE begin(l, s, m, left)
  <2>1. [step |-> s, parcel |-> m, left |-> left, ok |-> TRUE] \in Job
    BY DEF Job
  <2>2. QED BY <1>1, <2>1 DEF begin, TypeOK
<1>2. CASE rest(l)
  <2>1. Idle \in Job
    BY DEF Idle, Job
  <2>2. QED BY <1>2, <2>1 DEF rest, TypeOK
<1>3. QED BY <1>1, <1>2

LEMMA PostingTypes ==
  ASSUME TypeOK, NEW m \in Parcel, BeginPost(m) \/ FinishPost(m) \/ Commit(m)
  PROVE  TypeOK'
<1>1. CASE BeginPost(m)
  BY <1>1 DEF BeginPost, TypeOK, daemonVars, faultVars
<1>2. CASE FinishPost(m)
  BY <1>2 DEF FinishPost, TypeOK, daemonVars, faultVars
<1>3. CASE Commit(m)
  BY <1>3 DEF Commit, TypeOK, daemonVars, faultVars
<1>4. QED BY <1>1, <1>2, <1>3

LEMMA TakeType ==
  ASSUME TypeOK, NEW m \in Parcel, NEW l \in Lane, TakeFromInbox(m, l)
  PROVE  TypeOK'
BY DEF TakeFromInbox, TypeOK, daemonVars, faultVars, postVars

LEMMA ListingTypes ==
  ASSUME TypeOK, NEW l \in Lane,
         StartTick(l) \/ NextStage(l) \/ \E o \in Lane : ListLane(l, o)
  PROVE  TypeOK'
<1>1. CASE StartTick(l)
  BY <1>1 DEF StartTick, TypeOK, postVars, faultVars
<1>2. CASE NextStage(l)
  BY <1>2 DEF NextStage, TypeOK, postVars, faultVars
<1>3. CASE \E o \in Lane : ListLane(l, o)
  BY <1>3 DEF ListLane, TypeOK, postVars, faultVars
<1>4. QED BY <1>1, <1>2, <1>3

LEMMA ReadingTypes ==
  ASSUME TypeOK, NEW l \in Lane, NEW m \in Parcel,
         ReadOutbox(l, m) \/ ReadIncoming(l, m) \/ ReadCross(l, m)
  PROVE  TypeOK'
<1>1. CASE ReadOutbox(l, m)
  BY <1>1, JobType, TargetType DEF ReadOutbox, TypeOK, postVars, faultVars
<1>2. CASE ReadIncoming(l, m)
  BY <1>2, JobType DEF ReadIncoming, TypeOK, postVars, faultVars
<1>3. CASE ReadCross(l, m)
  BY <1>3, JobType DEF ReadCross, TypeOK, postVars, faultVars
<1>4. QED BY <1>1, <1>2, <1>3

LEMMA JobField ==
  ASSUME TypeOK, NEW l \in Lane
  PROVE  job[l] \in Job
BY DEF TypeOK

LEMMA InHandType ==
  ASSUME IInv, NEW l \in Lane, ~idle(l)
  PROVE  job[l].parcel \in Parcel
BY DEF IInv, JobsOK, InHandOK, idle

LEMMA SendingTypes ==
  ASSUME IInv, NEW l \in Lane, NEW t \in Lane, SendTo(l, t)
  PROVE  TypeOK'
<1>1. TypeOK /\ job[l].parcel \in Parcel /\ job[l] \in Job
  BY InHandType, JobField DEF IInv, idle, SendTo
<1>2. CASE deliver(job[l].parcel, t) /\ job' = [job EXCEPT ![l].left = @ \ {t}]
           /\ UNCHANGED errors
  <2>1. job' \in [Lane -> Job]
    BY <1>1, <1>2 DEF TypeOK, Job
  <2>2. QED BY <1>1, <1>2, <2>1, DeliverType DEF SendTo, TypeOK, postVars
<1>3. CASE /\ errors < MaxErrors /\ errors' = errors + 1
           /\ job' = [job EXCEPT ![l].left = @ \ {t}, ![l].ok = FALSE]
           /\ UNCHANGED <<inbox, arrivals>>
  <2>1. job' \in [Lane -> Job]
    BY <1>1, <1>3 DEF TypeOK, Job
  <2>2. errors' \in 0..MaxErrors
    BY <1>1, <1>3, RelayAssumption DEF TypeOK
  <2>3. QED BY <1>1, <1>3, <2>1, <2>2 DEF SendTo, TypeOK, postVars
<1>4. QED BY <1>2, <1>3 DEF SendTo

LEMMA CollectingTypes ==
  ASSUME IInv, NEW l \in Lane, Archive(l) \/ Reject(l) \/ Copy(l) \/ Remove(l)
  PROVE  TypeOK'
<1>1. TypeOK /\ job[l].parcel \in Parcel /\ job[l] \in Job
  BY InHandType, JobField DEF IInv, idle, Archive, Reject, Copy, Remove
<1>2. ASSUME rest(l) PROVE job' \in [Lane -> Job]
  BY <1>1, <1>2, JobType DEF rest, TypeOK, Idle, Job
<1>3. CASE Archive(l)
  BY <1>1, <1>2, <1>3, RemoveType DEF Archive, TypeOK, postVars, faultVars
<1>4. CASE Reject(l)
  BY <1>1, <1>2, <1>4, RemoveType DEF Reject, TypeOK, postVars, faultVars
<1>5. CASE Remove(l)
  BY <1>1, <1>2, <1>5, RemoveType DEF Remove, TypeOK, postVars, faultVars
<1>6. CASE Copy(l)
  <2>1. CASE /\ deliver(job[l].parcel, l)
             /\ job' = [job EXCEPT ![l].step = "remove"]
             /\ UNCHANGED errors
    <3>1. job' \in [Lane -> Job]
      BY <1>1, <2>1 DEF TypeOK, Job
    <3>2. QED BY <1>1, <1>6, <2>1, <3>1, DeliverType DEF Copy, TypeOK, postVars
  <2>2. CASE errors < MaxErrors /\ errors' = errors + 1 /\ rest(l)
             /\ UNCHANGED <<inbox, arrivals>>
    <3>1. errors' \in 0..MaxErrors
      BY <1>1, <2>2, RelayAssumption DEF TypeOK
    <3>2. QED BY <1>1, <1>2, <1>6, <2>2, <3>1 DEF Copy, TypeOK, postVars
  <2>3. QED BY <1>6, <2>1, <2>2 DEF Copy
<1>7. QED BY <1>3, <1>4, <1>5, <1>6

LEMMA CrashTypes ==
  ASSUME TypeOK, NEW l \in Lane, Crash(l)
  PROVE  TypeOK'
<1>1. Idle \in Job
  BY DEF Idle, Job
<1>2. job' \in [Lane -> Job]
  BY <1>1 DEF Crash, rest, TypeOK
<1>3. crashes' \in 0..MaxCrashes
  BY RelayAssumption DEF Crash, TypeOK
<1>4. QED BY <1>2, <1>3 DEF Crash, TypeOK, postVars

-----------------------------------------------------------------------------
(* Inductiveness of IInv. *)

(* Nothing that was posted or has arrived is forgotten.                      *)
Grows ==
  /\ \A m \in Parcel : posting[m] = "done" => posting'[m] = "done"
  /\ \A p \in Parcel \X Lane : arrivals[p] > 0 => arrivals'[p] > 0

JobOK(l) == SenderOK(l) /\ CollectorOK(l) /\ InHandOK(l)

LEMMA DeliverGrows ==
  ASSUME TypeOK, NEW m \in Parcel, NEW l \in Lane, deliver(m, l), UNCHANGED posting
  PROVE  Grows /\ arrivals'[<<m, l>>] > 0
BY DEF TypeOK, Grows, deliver

(* What a daemon has in hand stays in order while it does nothing.           *)
LEMMA OtherJob ==
  ASSUME IInv, NEW l \in Lane, Grows, job'[l] = job[l]
  PROVE  JobOK(l)'
<1>1. JobOK(l) /\ TypeOK
  BY DEF IInv, JobsOK, JobOK
<1>2. SenderOK(l)'
  <2>1. CASE job[l].step # "send"
    BY <2>1 DEF SenderOK
  <2>2. CASE job[l].step = "send"
    <3>1. job[l].parcel \in Parcel /\ targetLanes(job[l].parcel) \subseteq Lane
      BY <1>1, <2>2, TargetType DEF JobOK, InHandOK
    <3>2. QED BY <1>1, <2>2, <3>1 DEF JobOK, SenderOK, Grows, targetLanes
  <2>3. QED BY <2>1, <2>2
<1>3. CollectorOK(l)'
  BY <1>1 DEF JobOK, CollectorOK, Grows, targetLanes, byOutbox
<1>4. InHandOK(l)'
  BY <1>1 DEF JobOK, InHandOK, Grows, byOutbox
<1>5. QED BY <1>2, <1>3, <1>4 DEF JobOK

LEMMA IdleJob ==
  ASSUME NEW l \in Lane, TypeOK, rest(l)
  PROVE  JobOK(l)'
BY DEF rest, TypeOK, Idle, JobOK, SenderOK, CollectorOK, InHandOK

(* A removal disturbs no file that is still being written, if the removed    *)
(* file was posted or is not in an outbox.                                   *)
LEMMA RemoveFiles ==
  ASSUME IInv, NEW m \in Parcel, remove(m), UNCHANGED posting,
         m \in byOutbox => posting[m] = "done"
  PROVE  FilesFollowPosting'
BY DEF IInv, TypeOK, FilesFollowPosting, remove, byOutbox

LEMMA PostingStep ==
  ASSUME IInv, NEW m \in Parcel, BeginPost(m) \/ FinishPost(m) \/ Commit(m)
  PROVE  IInv'
<1>1. TypeOK'
  BY PostingTypes DEF IInv
<1>2. FilesFollowPosting'
  <2>1. CASE BeginPost(m)
    BY <2>1 DEF BeginPost, IInv, TypeOK, FilesFollowPosting, byOutbox
  <2>2. CASE FinishPost(m)
    BY <2>2 DEF FinishPost, IInv, TypeOK, FilesFollowPosting, byOutbox
  <2>3. CASE Commit(m)
    BY <2>3 DEF Commit, IInv, FilesFollowPosting, byOutbox
  <2>4. QED BY <2>1, <2>2, <2>3
<1>3. UNCHANGED <<inbox, arrivals, stage, list, job>>
  BY DEF BeginPost, FinishPost, Commit, daemonVars
<1>4. Grows
  <2>1. CASE BeginPost(m) \/ FinishPost(m)
    BY <2>1, <1>3 DEF BeginPost, FinishPost, Grows, IInv, TypeOK
  <2>2. CASE Commit(m)
    BY <2>2, <1>3 DEF Commit, Grows
  <2>3. QED BY <2>1, <2>2
<1>5. JobsOK'
  BY <1>3, <1>4, OtherJob DEF JobsOK, JobOK
<1>6. InboxesHoldArrivals' /\ CrossListsCross'
  BY <1>3 DEF IInv, InboxesHoldArrivals, CrossListsCross, byOutbox
<1>7. QED BY <1>1, <1>2, <1>5, <1>6 DEF IInv

LEMMA TakeStep ==
  ASSUME IInv, NEW m \in Parcel, NEW l \in Lane, TakeFromInbox(m, l)
  PROVE  IInv'
<1>1. TypeOK'
  BY TakeType DEF IInv
<1>2. UNCHANGED <<file, posting, arrivals, stage, list, job>>
  BY DEF TakeFromInbox, postVars, daemonVars
<1>3. JobsOK'
  BY <1>2, OtherJob DEF Grows, JobsOK, JobOK
<1>4. FilesFollowPosting' /\ CrossListsCross'
  BY <1>2 DEF IInv, FilesFollowPosting, CrossListsCross, byOutbox
<1>5. InboxesHoldArrivals'
  BY <1>2 DEF IInv, InboxesHoldArrivals, TakeFromInbox
<1>6. QED BY <1>1, <1>3, <1>4, <1>5 DEF IInv

(* A step of one daemon.                                                     *)
LEMMA OneJob ==
  ASSUME IInv, NEW l \in Lane, Grows, \A k \in Lane \ {l} : job'[k] = job[k], JobOK(l)'
  PROVE  JobsOK'
BY OtherJob DEF JobsOK, JobOK

LEMMA ListingStep ==
  ASSUME IInv, NEW l \in Lane,
         StartTick(l) \/ NextStage(l) \/ \E o \in Lane : ListLane(l, o)
  PROVE  IInv'
<1>1. TypeOK'
  BY ListingTypes DEF IInv
<1>2. UNCHANGED <<file, posting, inbox, arrivals, job>>
  BY DEF StartTick, NextStage, ListLane, postVars
<1>3. FilesFollowPosting' /\ InboxesHoldArrivals'
  BY <1>2 DEF IInv, FilesFollowPosting, InboxesHoldArrivals, byOutbox
<1>4. JobsOK'
  BY <1>2, OtherJob DEF Grows, JobsOK, JobOK
<1>5. CrossListsCross'
  <2>1. CASE StartTick(l)
    BY <2>1 DEF StartTick, IInv, TypeOK, CrossListsCross, byOutbox
  <2>2. CASE NextStage(l)
    BY <2>2 DEF NextStage, IInv, TypeOK, CrossListsCross, byOutbox
  <2>3. CASE \E o \in Lane : ListLane(l, o)
    BY <2>3 DEF ListLane, IInv, TypeOK, CrossListsCross, byOutbox
  <2>4. QED BY <2>1, <2>2, <2>3
<1>6. QED BY <1>1, <1>3, <1>4, <1>5 DEF IInv

(* What begin puts in hand is in order if it was posted and, when collected  *)
(* from an outbox, is for this lane alone.                                   *)
LEMMA BeginSend ==
  ASSUME IInv, NEW l \in Lane, NEW m \in Parcel, file[m] = "whole",
         begin(l, "send", m, targetLanes(m)), UNCHANGED <<posting, arrivals>>
  PROVE  JobOK(l)'
BY DEF begin, IInv, TypeOK, FilesFollowPosting, JobOK, SenderOK, CollectorOK,
       InHandOK, targetLanes, byOutbox

LEMMA BeginCollect ==
  ASSUME IInv, NEW l \in Lane, NEW m \in Parcel,
         NEW s \in {"copy", "remove", "reject"}, begin(l, s, m, {}),
         UNCHANGED <<posting, arrivals>>,
         m \in byOutbox =>
           /\ file[m] = "whole" /\ targetLanes(m) = {l}
           /\ s = "remove" => <<m, l>> \in inbox
           /\ s = "reject" => ~accepted[m]
  PROVE  JobOK(l)'
<1>1. job'[l] = [step |-> s, parcel |-> m, left |-> {}, ok |-> TRUE]
  BY DEF begin, IInv, TypeOK
<1>2. m \in byOutbox => posting[m] = "done"
  BY DEF IInv, FilesFollowPosting
<1>3. m \in byOutbox /\ s = "remove" => arrivals[<<m, l>>] > 0
  BY DEF IInv, InboxesHoldArrivals
<1>4. SenderOK(l)'
  BY <1>1 DEF SenderOK
<1>5. CollectorOK(l)'
  BY <1>1, <1>3 DEF CollectorOK, targetLanes, byOutbox
<1>6. InHandOK(l)'
  BY <1>1, <1>2 DEF InHandOK, byOutbox
<1>7. QED BY <1>4, <1>5, <1>6 DEF JobOK

LEMMA ReadingStep ==
  ASSUME IInv, NEW l \in Lane, NEW m \in Parcel,
         ReadOutbox(l, m) \/ ReadIncoming(l, m) \/ ReadCross(l, m)
  PROVE  IInv'
<1>1. TypeOK'
  BY ReadingTypes DEF IInv
<1>2. UNCHANGED <<file, posting, inbox, arrivals, stage>>
  BY DEF ReadOutbox, ReadIncoming, ReadCross, postVars
<1>3. FilesFollowPosting' /\ InboxesHoldArrivals'
  BY <1>2 DEF IInv, FilesFollowPosting, InboxesHoldArrivals, byOutbox
<1>4. CrossListsCross'
  BY <1>2 DEF ReadOutbox, ReadIncoming, ReadCross, IInv, TypeOK,
              CrossListsCross, byOutbox
<1>5. Grows
  BY <1>2 DEF Grows
<1>6. \A k \in Lane \ {l} : job'[k] = job[k]
  BY DEF ReadOutbox, ReadIncoming, ReadCross, begin, IInv, TypeOK
<1>7. JobOK(l)'
  <2>1. CASE UNCHANGED job
    BY <1>5, <2>1, OtherJob
  <2>2. CASE ReadOutbox(l, m)
    BY <1>2, <2>1, <2>2, BeginSend DEF ReadOutbox
  <2>3. CASE ReadIncoming(l, m)
    <3>1. CASE file[m] = "whole" /\ to[m] = l
      <4>1. targetLanes(m) = {l}
        BY <3>1, RelayAssumption DEF targetLanes
      <4>2. QED BY <1>2, <2>3, <3>1, <4>1, BeginCollect DEF ReadIncoming
    <3>2. QED BY <2>1, <2>3, <3>1 DEF ReadIncoming
  <2>4. CASE ReadCross(l, m)
    <3>1. m \notin byOutbox
      BY <2>4 DEF ReadCross, IInv, CrossListsCross
    <3>2. QED BY <1>2, <2>4, <3>1, BeginCollect DEF ReadCross
  <2>5. QED BY <2>2, <2>3, <2>4
<1>8. JobsOK'
  BY <1>5, <1>6, <1>7, OneJob
<1>9. QED BY <1>1, <1>3, <1>4, <1>8 DEF IInv

LEMMA SendingStep ==
  ASSUME IInv, NEW l \in Lane, NEW t \in Lane, SendTo(l, t)
  PROVE  IInv'
<1>1. TypeOK'
  BY SendingTypes
<1>2. /\ job[l].parcel \in Parcel /\ job[l].step = "send" /\ job[l] \in Job
      /\ t \in job[l].left
  BY InHandType, JobField DEF IInv, idle, SendTo
<1>3. UNCHANGED <<file, posting, stage, list>>
  BY DEF SendTo, postVars
<1>4. FilesFollowPosting' /\ CrossListsCross'
  BY <1>3 DEF IInv, FilesFollowPosting, CrossListsCross, byOutbox
<1>5. CASE deliver(job[l].parcel, t) /\ job' = [job EXCEPT ![l].left = @ \ {t}]
  <2>1. Grows /\ arrivals'[<<job[l].parcel, t>>] > 0
    BY <1>2, <1>3, <1>5, DeliverGrows DEF IInv
  <2>2. InboxesHoldArrivals'
    BY <1>2, <1>5, <2>1 DEF deliver, IInv, TypeOK, InboxesHoldArrivals, Grows
  <2>3. job'[l] = [job[l] EXCEPT !.left = @ \ {t}]
    BY <1>5 DEF IInv, TypeOK
  <2>4. SenderOK(l)'
    <3>1. SenderOK(l) /\ targetLanes(job[l].parcel) \subseteq Lane
      BY <1>2, TargetType DEF IInv, JobsOK
    <3>2. QED BY <1>2, <2>1, <2>3, <3>1 DEF SenderOK, Grows, Job, targetLanes
  <2>5. CollectorOK(l)'
    BY <1>2, <2>3 DEF CollectorOK, Job
  <2>6. InHandOK(l)'
    BY <1>2, <1>3, <2>3 DEF InHandOK, Job, IInv, JobsOK, byOutbox
  <2>7. JobsOK'
    BY <1>5, <2>1, <2>4, <2>5, <2>6, OneJob DEF JobOK, IInv, TypeOK
  <2>8. QED BY <1>1, <1>4, <2>2, <2>7 DEF IInv
<1>6. CASE /\ job' = [job EXCEPT ![l].left = @ \ {t}, ![l].ok = FALSE]
           /\ UNCHANGED <<inbox, arrivals>>
  <2>1. Grows /\ InboxesHoldArrivals'
    BY <1>3, <1>6 DEF Grows, IInv, InboxesHoldArrivals
  <2>2. job'[l] = [job[l] EXCEPT !.left = @ \ {t}, !.ok = FALSE]
    BY <1>6 DEF IInv, TypeOK, Job
  <2>3. SenderOK(l)'
    BY <1>2, <2>2 DEF SenderOK, Job, IInv, JobsOK, targetLanes
  <2>4. CollectorOK(l)'
    BY <1>2, <2>2 DEF CollectorOK, Job
  <2>5. InHandOK(l)'
    BY <1>2, <1>3, <2>2 DEF InHandOK, Job, IInv, JobsOK, byOutbox
  <2>6. JobsOK'
    BY <1>6, <2>1, <2>3, <2>4, <2>5, OneJob DEF JobOK, IInv, TypeOK
  <2>7. QED BY <1>1, <1>4, <2>1, <2>6 DEF IInv
<1>7. QED BY <1>5, <1>6 DEF SendTo

LEMMA ArchiveStep ==
  ASSUME IInv, NEW l \in Lane, Archive(l) \/ Reject(l) \/ Remove(l)
  PROVE  IInv'
<1>1. TypeOK'
  BY CollectingTypes
<1>2. job[l].parcel \in Parcel /\ InHandOK(l) /\ job[l].step # "idle"
  BY InHandType DEF IInv, JobsOK, idle, Archive, Reject, Remove
<1>3. UNCHANGED <<posting, inbox, arrivals>> /\ rest(l)
  BY DEF Archive, Reject, Remove, postVars
<1>4. FilesFollowPosting'
  <2>1. CASE remove(job[l].parcel)
    BY <1>2, <1>3, <2>1, RemoveFiles DEF InHandOK
  <2>2. CASE UNCHANGED file
    BY <1>3, <2>2 DEF IInv, FilesFollowPosting, byOutbox
  <2>3. QED BY <2>1, <2>2 DEF Archive, Reject, Remove
<1>5. InboxesHoldArrivals'
  BY <1>3 DEF IInv, InboxesHoldArrivals
<1>6. CrossListsCross'
  BY DEF Archive, Reject, Remove, IInv, TypeOK, CrossListsCross, byOutbox
<1>7. JobsOK'
  BY <1>3, IdleJob, OneJob DEF rest, Grows, IInv, TypeOK
<1>8. QED BY <1>1, <1>4, <1>5, <1>6, <1>7 DEF IInv

LEMMA CopyStep ==
  ASSUME IInv, NEW l \in Lane, Copy(l)
  PROVE  IInv'
<1>1. TypeOK'
  BY CollectingTypes
<1>2. job[l].parcel \in Parcel /\ job[l].step = "copy" /\ job[l] \in Job
  BY InHandType, JobField DEF IInv, idle, Copy
<1>3. UNCHANGED <<file, posting, stage, list>>
  BY DEF Copy, postVars
<1>4. FilesFollowPosting' /\ CrossListsCross'
  BY <1>3 DEF IInv, FilesFollowPosting, CrossListsCross, byOutbox
<1>5. CASE deliver(job[l].parcel, l) /\ job' = [job EXCEPT ![l].step = "remove"]
  <2>1. Grows /\ arrivals'[<<job[l].parcel, l>>] > 0
    BY <1>2, <1>3, <1>5, DeliverGrows DEF IInv
  <2>2. InboxesHoldArrivals'
    BY <1>2, <1>5, <2>1 DEF deliver, IInv, TypeOK, InboxesHoldArrivals, Grows
  <2>3. job'[l] = [job[l] EXCEPT !.step = "remove"]
    BY <1>5 DEF IInv, TypeOK
  <2>4. SenderOK(l)'
    BY <1>2, <2>3 DEF SenderOK, Job
  <2>5. CollectorOK(l)'
    BY <1>2, <2>1, <2>3 DEF CollectorOK, Job, IInv, JobsOK, byOutbox, targetLanes
  <2>6. InHandOK(l)'
    BY <1>2, <1>3, <2>3 DEF InHandOK, Job, IInv, JobsOK, byOutbox
  <2>7. JobsOK'
    BY <1>5, <2>1, <2>4, <2>5, <2>6, OneJob DEF JobOK, IInv, TypeOK
  <2>8. QED BY <1>1, <1>4, <2>2, <2>7 DEF IInv
<1>6. CASE rest(l) /\ UNCHANGED <<inbox, arrivals>>
  <2>1. Grows /\ InboxesHoldArrivals'
    BY <1>3, <1>6 DEF Grows, IInv, InboxesHoldArrivals
  <2>2. JobsOK'
    BY <1>6, <2>1, IdleJob, OneJob DEF rest, IInv, TypeOK
  <2>3. QED BY <1>1, <1>4, <2>1, <2>2 DEF IInv
<1>7. QED BY <1>5, <1>6 DEF Copy

LEMMA CrashStep ==
  ASSUME IInv, NEW l \in Lane, Crash(l)
  PROVE  IInv'
<1>1. TypeOK'
  BY CrashTypes DEF IInv
<1>2. UNCHANGED <<file, posting, inbox, arrivals>> /\ rest(l)
  BY DEF Crash, postVars
<1>3. FilesFollowPosting' /\ InboxesHoldArrivals'
  BY <1>2 DEF IInv, FilesFollowPosting, InboxesHoldArrivals, byOutbox
<1>4. CrossListsCross'
  BY DEF Crash, IInv, TypeOK, CrossListsCross, byOutbox
<1>5. JobsOK'
  BY <1>2, IdleJob, OneJob DEF rest, Grows, IInv, TypeOK
<1>6. QED BY <1>1, <1>3, <1>4, <1>5 DEF IInv

LEMMA InvInit == Init => IInv
<1> SUFFICES ASSUME Init PROVE IInv
  OBVIOUS
<1>2. Idle \in Job
  BY DEF Idle, Job
<1>3. TypeOK
  BY <1>2, RelayAssumption DEF Init, TypeOK
<1>4. FilesFollowPosting /\ InboxesHoldArrivals /\ CrossListsCross
  BY DEF Init, FilesFollowPosting, InboxesHoldArrivals, CrossListsCross, byOutbox
<1>5. JobsOK
  BY DEF Init, JobsOK, SenderOK, CollectorOK, InHandOK, Idle
<1>6. QED BY <1>3, <1>4, <1>5 DEF IInv

LEMMA InvNext == IInv /\ [Next]_vars => IInv'
<1> SUFFICES ASSUME IInv, [Next]_vars PROVE IInv'
  OBVIOUS
<1>2. CASE UNCHANGED vars
  BY <1>2 DEF vars, postVars, daemonVars, faultVars, IInv, TypeOK,
     FilesFollowPosting, InboxesHoldArrivals, CrossListsCross, JobsOK, SenderOK,
     CollectorOK, InHandOK, targetLanes, byOutbox
<1>3. CASE \E m \in Parcel : BeginPost(m) \/ FinishPost(m) \/ Commit(m)
  BY <1>3, PostingStep
<1>4. CASE \E m \in Parcel, l \in Lane : TakeFromInbox(m, l)
  BY <1>4, TakeStep
<1>5. ASSUME NEW l \in Daemon, DaemonStep(l) \/ Crash(l) PROVE IInv'
  <2>1. l \in Lane
    BY RelayAssumption
  <2>2. CASE StartTick(l) \/ NextStage(l) \/ \E o \in Lane : ListLane(l, o)
    BY <2>1, <2>2, ListingStep
  <2>3. CASE \E m \in Parcel : ReadOutbox(l, m) \/ ReadIncoming(l, m) \/ ReadCross(l, m)
    BY <2>1, <2>3, ReadingStep
  <2>4. CASE \E t \in Lane : SendTo(l, t)
    BY <2>1, <2>4, SendingStep
  <2>5. CASE Archive(l) \/ Reject(l) \/ Remove(l)
    BY <2>1, <2>5, ArchiveStep
  <2>6. CASE Copy(l) \/ Crash(l)
    BY <2>1, <2>6, CopyStep, CrashStep
  <2>7. QED BY <1>5, <2>2, <2>3, <2>4, <2>5, <2>6 DEF DaemonStep
<1>6. QED BY <1>2, <1>3, <1>4, <1>5 DEF Next

(* The invariant of the relay daemons: what each has in hand, of whichever   *)
(* lanes, daemons and messages, after failed writes and crashes.             *)
THEOREM RelayInvariant == Spec => []IInv
BY InvInit, InvNext, PTL DEF Spec

-----------------------------------------------------------------------------
(* The refinement. *)

AbstractStep == [Transport!Next]_(Transport!courierVars)

LEMMA AbstractStutter ==
  ASSUME Posted' = Posted, Kept' = Kept, Got' = Got
  PROVE  AbstractStep
BY DEF AbstractStep, Transport!courierVars

LEMMA ConcreteStutter ==
  ASSUME UNCHANGED <<posting, file, arrivals>>
  PROVE  AbstractStep
BY AbstractStutter DEF Posted, Kept, Got, byOutbox

LEMMA PostRefines ==
  ASSUME IInv, NEW m \in Parcel, BeginPost(m) \/ FinishPost(m) \/ Commit(m)
  PROVE  AbstractStep
<1>1. CASE Commit(m)
  BY <1>1, ConcreteStutter DEF Commit
<1>2. CASE BeginPost(m)
  <2>1. Posted' = Posted /\ Got' = Got
    BY <1>2 DEF BeginPost, Posted, Got, byOutbox, IInv, TypeOK
  <2>2. Kept' = Kept
    BY <1>2 DEF BeginPost, Kept, byOutbox, IInv, TypeOK, FilesFollowPosting
  <2>3. QED BY <2>1, <2>2, AbstractStutter
<1>3. CASE FinishPost(m)
  <2>1. CASE m \in byOutbox
    <3>1. file[m] = "half"
      BY <1>3, <2>1 DEF FinishPost, IInv, FilesFollowPosting
    <3>2. m \notin Posted /\ Posted' = Posted \cup {m}
      BY <1>3, <2>1 DEF FinishPost, Posted, byOutbox, IInv, TypeOK
    <3>3. Kept' = Kept \cup {m}
      BY <1>3, <2>1, <3>1 DEF FinishPost, Kept, byOutbox, IInv, TypeOK
    <3>4. Got' = Got
      BY <1>3 DEF FinishPost, Got, byOutbox
    <3>5. Transport!Post(m)
      BY <3>2, <3>3, <3>4 DEF Transport!Post
    <3>6. QED BY <2>1, <3>5 DEF AbstractStep, Transport!Next
  <2>2. CASE m \notin byOutbox
    <3>1. Posted' = Posted /\ Kept' = Kept /\ Got' = Got
      BY <1>3, <2>2 DEF FinishPost, Posted, Kept, Got, byOutbox, IInv, TypeOK
    <3>2. QED BY <3>1, AbstractStutter
  <2>3. QED BY <2>1, <2>2
<1>4. QED BY <1>1, <1>2, <1>3

LEMMA DeliverRefines ==
  ASSUME IInv, NEW m \in Parcel, NEW l \in Lane, deliver(m, l),
         m \in byOutbox => posting[m] = "done" /\ l \in targetLanes(m),
         UNCHANGED <<file, posting>>
  PROVE  AbstractStep
<1>1. Posted' = Posted /\ Kept' = Kept
  BY DEF Posted, Kept, byOutbox
<1>2. CASE m \in byOutbox
  <2>1. Got' = Got \cup {<<m, l>>}
    BY <1>2 DEF Got, deliver, IInv, TypeOK, byOutbox
  <2>2. m \in Posted /\ l \in [k \in byOutbox |-> targetLanes(k)][m]
    BY <1>2 DEF Posted
  <2>3. Transport!Arrive(m, l)
    BY <1>1, <2>1, <2>2 DEF Transport!Arrive
  <2>4. QED BY <1>2, <2>3 DEF AbstractStep, Transport!Next
<1>3. CASE m \notin byOutbox
  <2>1. Got' = Got
    BY <1>3 DEF Got, deliver, IInv, TypeOK, byOutbox
  <2>2. QED BY <1>1, <2>1, AbstractStutter
<1>4. QED BY <1>2, <1>3

LEMMA RemoveRefines ==
  ASSUME IInv, NEW m \in Parcel, remove(m),
         m \in byOutbox /\ accepted[m] =>
           \A l \in targetLanes(m) : l \in Lane /\ arrivals[<<m, l>>] > 0,
         UNCHANGED <<posting, arrivals>>
  PROVE  AbstractStep
<1>1. Posted' = Posted /\ Got' = Got
  BY DEF Posted, Got, byOutbox
<1>2. Kept' = Kept \ {m}
  BY DEF Kept, remove, IInv, TypeOK, byOutbox
<1>3. CASE m \in Kept
  <2>1. m \in byOutbox
    BY <1>3 DEF Kept
  <2>2. accepted[m] => \A l \in [k \in byOutbox |-> targetLanes(k)][m] : <<m, l>> \in Got
    BY <2>1 DEF Got
  <2>3. Transport!Forget(m)
    BY <1>1, <1>2, <1>3, <2>2 DEF Transport!Forget
  <2>4. QED BY <2>1, <2>3 DEF AbstractStep, Transport!Next
<1>4. CASE m \notin Kept
  BY <1>1, <1>2, <1>4, AbstractStutter
<1>5. QED BY <1>3, <1>4

LEMMA DaemonRefines ==
  ASSUME IInv, NEW l \in Lane, DaemonStep(l)
  PROVE  AbstractStep
<1>1. SenderOK(l) /\ CollectorOK(l) /\ InHandOK(l)
  BY DEF IInv, JobsOK
<1>2. CASE StartTick(l) \/ NextStage(l) \/ \E o \in Lane : ListLane(l, o)
  BY <1>2, ConcreteStutter DEF StartTick, NextStage, ListLane, postVars
<1>3. CASE \E m \in Parcel : ReadOutbox(l, m) \/ ReadIncoming(l, m) \/ ReadCross(l, m)
  BY <1>3, ConcreteStutter DEF ReadOutbox, ReadIncoming, ReadCross, postVars
<1>4. ASSUME NEW t \in Lane, SendTo(l, t) PROVE AbstractStep
  <2>1. job[l].parcel \in Parcel
    BY <1>4, InHandType DEF SendTo, idle
  <2>2. CASE deliver(job[l].parcel, t)
    BY <1>1, <1>4, <2>1, <2>2, DeliverRefines DEF SendTo, SenderOK, InHandOK, postVars
  <2>3. CASE UNCHANGED arrivals
    BY <1>4, <2>3, ConcreteStutter DEF SendTo, postVars
  <2>4. QED BY <1>4, <2>2, <2>3 DEF SendTo
<1>5. CASE Archive(l)
  <2>1. job[l].parcel \in Parcel
    BY <1>5, InHandType DEF Archive, idle
  <2>2. CASE job[l].ok
    <3>1. \A t \in targetLanes(job[l].parcel) : t \in Lane /\ arrivals[<<job[l].parcel, t>>] > 0
      BY <1>1, <1>5, <2>1, <2>2, TargetType DEF Archive, SenderOK
    <3>2. QED BY <1>5, <2>1, <2>2, <3>1, RemoveRefines DEF Archive, postVars
  <2>3. CASE ~job[l].ok
    BY <1>5, <2>3, ConcreteStutter DEF Archive, postVars
  <2>4. QED BY <2>2, <2>3
<1>6. CASE Reject(l)
  <2>1. job[l].parcel \in Parcel
    BY <1>6, InHandType DEF Reject, idle
  <2>2. QED BY <1>1, <1>6, <2>1, RemoveRefines DEF Reject, CollectorOK, postVars
<1>7. CASE Remove(l)
  <2>1. job[l].parcel \in Parcel
    BY <1>7, InHandType DEF Remove, idle
  <2>2. QED BY <1>1, <1>7, <2>1, RemoveRefines DEF Remove, CollectorOK, postVars
<1>8. CASE Copy(l)
  <2>1. job[l].parcel \in Parcel
    BY <1>8, InHandType DEF Copy, idle
  <2>2. CASE deliver(job[l].parcel, l)
    BY <1>1, <1>8, <2>1, <2>2, DeliverRefines DEF Copy, CollectorOK, InHandOK, postVars
  <2>3. CASE UNCHANGED arrivals
    BY <1>8, <2>3, ConcreteStutter DEF Copy, postVars
  <2>4. QED BY <1>8, <2>2, <2>3 DEF Copy
<1>9. QED BY <1>2, <1>3, <1>4, <1>5, <1>6, <1>7, <1>8 DEF DaemonStep

LEMMA InitRefines == Init => Transport!Init
BY DEF Init, Transport!Init, Posted, Kept, Got, byOutbox

LEMMA NextRefines == IInv /\ [Next]_vars => AbstractStep
<1> SUFFICES ASSUME IInv, [Next]_vars PROVE AbstractStep
  OBVIOUS
<1>1. CASE UNCHANGED vars
  BY <1>1, ConcreteStutter DEF vars, postVars
<1>2. CASE \E m \in Parcel : BeginPost(m) \/ FinishPost(m) \/ Commit(m)
  BY <1>2, PostRefines
<1>3. CASE \E m \in Parcel, l \in Lane : TakeFromInbox(m, l)
  BY <1>3, ConcreteStutter DEF TakeFromInbox, postVars
<1>4. CASE \E l \in Daemon : DaemonStep(l)
  BY <1>4, RelayAssumption, DaemonRefines
<1>5. CASE \E l \in Daemon : Crash(l)
  BY <1>5, ConcreteStutter DEF Crash, postVars
<1>6. QED BY <1>1, <1>2, <1>3, <1>4, <1>5 DEF Next

(* Whatever the daemons do, alone or to each other, and however often they   *)
(* fail or die, an outbox gives up a message only when each lane it is for   *)
(* has received it, or for its signature.                                    *)
THEOREM RelayImplementsCourier == Spec => TransportSpec
<1>1. Init => Transport!Init
  BY InitRefines
<1>2. IInv /\ [Next]_vars => [Transport!Next]_(Transport!courierVars)
  BY NextRefines DEF AbstractStep
<1>3. QED BY <1>1, <1>2, RelayInvariant, PTL DEF Spec, TransportSpec, Transport!Spec

-----------------------------------------------------------------------------
(* How often a message arrives. Each of the two daemons that may carry m to  *)
(* l can still write it so many times; what it has written, what is left to  *)
(* it and to the other, never exceed two and what has gone wrong.            *)

(* Whether m may be read again: it has not left the outbox yet.              *)
mayRead(m) == IF file[m] = "absent" /\ posting[m] # "no" THEN 0 ELSE 1

(* How often the daemon of the sender may still write m to l.                *)
sends(m, l) ==
  LET j == job[from[m]]
  IN IF j.step = "send" /\ j.parcel = m
     THEN (IF l \in j.left THEN 1 ELSE 0) + (IF j.ok THEN 0 ELSE mayRead(m))
     ELSE mayRead(m)

(* How often the daemon of l may still do so.                                *)
copies(m, l) ==
  LET j == job[l]
  IN IF j.step = "copy" /\ j.parcel = m THEN 1
     ELSE IF j.step = "remove" /\ j.parcel = m THEN 0
     ELSE mayRead(m)

CarryOK(m, l) ==
  arrivals[<<m, l>>] + sends(m, l) + copies(m, l) <= 2 + errors + crashes

(* A lane sends what it has posted itself, and nothing is carried before it  *)
(* was posted.                                                               *)
OwnJob(l) ==
  /\ job[l].step = "send" => from[job[l].parcel] = l
  /\ job[l].step \in {"send", "copy", "remove"} => posting[job[l].parcel] = "done"

OwnList(l) == stage[l] = "outbound" => \A m \in list[l] : from[m] = l

CarryInv ==
  /\ \A l \in Lane : OwnJob(l) /\ OwnList(l)
  /\ \A m \in Parcel, l \in Lane : CarryOK(m, l)

(* A message that cannot be read any more never can be again.                *)
ReadableOnce == \A m \in Parcel : mayRead(m) = 0 => mayRead(m)' = 0

LEMMA CarryTypes ==
  ASSUME TypeOK, NEW m \in Parcel, NEW l \in Lane
  PROVE  /\ mayRead(m) \in {0, 1} /\ sends(m, l) \in Nat /\ copies(m, l) \in {0, 1}
         /\ arrivals[<<m, l>>] \in Nat /\ errors \in Nat /\ crashes \in Nat
<1>1. mayRead(m) \in {0, 1}
  BY DEF mayRead
<1>2. sends(m, l) \in Nat /\ copies(m, l) \in {0, 1}
  BY <1>1 DEF sends, copies
<1>3. errors \in Nat /\ crashes \in Nat /\ arrivals[<<m, l>>] \in Nat
  BY RelayAssumption DEF TypeOK
<1>4. QED BY <1>1, <1>2, <1>3

(* What a daemon that stands still may write does not grow.                  *)
LEMMA SendsQuiet ==
  ASSUME TypeOK, ReadableOnce, NEW m \in Parcel, NEW l \in Lane,
         job'[from[m]] = job[from[m]]
  PROVE  sends(m, l)' \in Nat /\ sends(m, l)' <= sends(m, l)
<1>1. mayRead(m) \in {0, 1} /\ mayRead(m)' \in {0, 1} /\ mayRead(m)' <= mayRead(m)
  BY DEF mayRead, ReadableOnce
<1> HIDE DEF mayRead
<1>2. QED BY <1>1 DEF sends

LEMMA CopiesQuiet ==
  ASSUME TypeOK, ReadableOnce, NEW m \in Parcel, NEW l \in Lane, job'[l] = job[l]
  PROVE  copies(m, l)' \in {0, 1} /\ copies(m, l)' <= copies(m, l)
<1>1. mayRead(m) \in {0, 1} /\ mayRead(m)' \in {0, 1} /\ mayRead(m)' <= mayRead(m)
  BY DEF mayRead, ReadableOnce
<1> HIDE DEF mayRead
<1>2. QED BY <1>1 DEF copies

LEMMA CarryQuiet ==
  ASSUME IInv, CarryInv, ReadableOnce,
         UNCHANGED <<arrivals, job>>, errors' = errors, crashes' = crashes,
         NEW m \in Parcel, NEW l \in Lane
  PROVE  CarryOK(m, l)'
<1>1. /\ sends(m, l)' \in Nat /\ sends(m, l)' <= sends(m, l)
      /\ copies(m, l)' \in {0, 1} /\ copies(m, l)' <= copies(m, l)
  BY SendsQuiet, CopiesQuiet DEF IInv
<1>2. /\ sends(m, l) \in Nat /\ copies(m, l) \in {0, 1} /\ arrivals[<<m, l>>] \in Nat
      /\ errors \in Nat /\ crashes \in Nat
  BY CarryTypes DEF IInv
<1>3. CarryOK(m, l)
  BY DEF CarryInv
<1>4. QED BY <1>1, <1>2, <1>3 DEF CarryOK

LEMMA Readable ==
  ASSUME IInv, [Next]_vars
  PROVE  ReadableOnce /\ \A m \in Parcel : posting[m] = "done" => posting'[m] = "done"
<1> USE DEF ReadableOnce, mayRead
<1>1. CASE UNCHANGED vars
  BY <1>1 DEF vars, postVars
<1>2. ASSUME NEW p \in Parcel, BeginPost(p) \/ FinishPost(p) \/ Commit(p)
      PROVE  ReadableOnce /\ \A m \in Parcel : posting[m] = "done" => posting'[m] = "done"
  BY <1>2 DEF BeginPost, FinishPost, Commit, IInv, TypeOK
<1>3. CASE \E m \in Parcel, l \in Lane : TakeFromInbox(m, l)
  BY <1>3 DEF TakeFromInbox, postVars
<1>4. ASSUME NEW l \in Daemon, DaemonStep(l) \/ Crash(l)
      PROVE  ReadableOnce /\ \A m \in Parcel : posting[m] = "done" => posting'[m] = "done"
  <2>1. posting' = posting
    BY <1>4 DEF DaemonStep, StartTick, Archive, NextStage, Reject, Copy, Remove,
       ReadOutbox, ReadIncoming, ReadCross, SendTo, ListLane, Crash, postVars
  <2>2. file' = file \/ remove(job[l].parcel)
    BY <1>4 DEF DaemonStep, StartTick, Archive, NextStage, Reject, Copy, Remove,
       ReadOutbox, ReadIncoming, ReadCross, SendTo, ListLane, Crash
  <2>3. QED BY <2>1, <2>2 DEF remove, IInv, TypeOK
<1>5. QED BY <1>1, <1>2, <1>3, <1>4 DEF Next

(* What a step does to the work of a daemon it is not about: nothing.        *)
LEMMA OthersRest ==
  ASSUME IInv, NEW l \in Lane, DaemonStep(l) \/ Crash(l), NEW k \in Lane \ {l}
  PROVE  job'[k] = job[k] /\ stage'[k] = stage[k] /\ list'[k] = list[k]
<1>1. TypeOK
  BY DEF IInv
<1>2. CASE StartTick(l) \/ NextStage(l) \/ \E t \in Lane : ListLane(l, t)
  BY <1>1, <1>2 DEF StartTick, NextStage, ListLane, TypeOK
<1>3. CASE Archive(l) \/ Reject(l) \/ Remove(l) \/ Crash(l)
  BY <1>1, <1>3 DEF Archive, Reject, Remove, Crash, rest, TypeOK
<1>4. CASE Copy(l) \/ \E t \in Lane : SendTo(l, t)
  BY <1>1, <1>4 DEF Copy, SendTo, rest, TypeOK
<1>5. CASE \E m \in Parcel : ReadOutbox(l, m) \/ ReadIncoming(l, m) \/ ReadCross(l, m)
  BY <1>1, <1>5 DEF ReadOutbox, ReadIncoming, ReadCross, begin, TypeOK
<1>6. QED BY <1>2, <1>3, <1>4, <1>5 DEF DaemonStep

(* The daemon of l itself: what it takes in hand was whole, and it sends     *)
(* only from its own list.                                                   *)
LEMMA OwnSelf ==
  ASSUME IInv, NEW l \in Lane, OwnJob(l), OwnList(l), DaemonStep(l) \/ Crash(l)
  PROVE  OwnJob(l)' /\ OwnList(l)'
<1>1. TypeOK /\ FilesFollowPosting /\ job[l] \in Job
  BY JobField DEF IInv
<1>2. posting' = posting
  BY DEF DaemonStep, StartTick, Archive, NextStage, Reject, Copy, Remove,
     ReadOutbox, ReadIncoming, ReadCross, SendTo, ListLane, Crash, postVars
<1>3. CASE StartTick(l) \/ NextStage(l) \/ \E t \in Lane : ListLane(l, t)
  BY <1>1, <1>2, <1>3 DEF StartTick, NextStage, ListLane, TypeOK, OwnJob, OwnList
<1>4. CASE Archive(l) \/ Reject(l) \/ Remove(l) \/ Crash(l)
  BY <1>1, <1>2, <1>4 DEF Archive, Reject, Remove, Crash, rest, Idle, TypeOK,
     OwnJob, OwnList
<1>5. CASE Copy(l) \/ \E t \in Lane : SendTo(l, t)
  <2>1. \/ rest(l)
        \/ job'[l].step \in {job[l].step, "remove"} /\ job'[l].parcel = job[l].parcel
           /\ job[l].step \in {"copy", "send"}
    <3>1. CASE Copy(l)
      BY <1>1, <3>1 DEF Copy, TypeOK, Job
    <3>2. CASE \E t \in Lane : SendTo(l, t)
      BY <1>1, <3>2 DEF SendTo, TypeOK, Job
    <3>3. QED BY <1>5, <3>1, <3>2
  <2>2. UNCHANGED <<stage, list>>
    BY <1>5 DEF Copy, SendTo
  <2>3. QED BY <1>1, <1>2, <2>1, <2>2 DEF rest, Idle, TypeOK, OwnJob, OwnList
<1>6. ASSUME NEW m \in Parcel, ReadOutbox(l, m) \/ ReadIncoming(l, m) \/ ReadCross(l, m)
      PROVE  OwnJob(l)' /\ OwnList(l)'
  <2>1. stage' = stage /\ list'[l] \subseteq list[l]
    BY <1>1, <1>6 DEF ReadOutbox, ReadIncoming, ReadCross, TypeOK
  <2>2. OwnList(l)'
    BY <2>1 DEF OwnList
  <2>3. OwnJob(l)'
    <3>1. CASE ReadOutbox(l, m)
      BY <1>1, <1>2, <3>1 DEF ReadOutbox, begin, TypeOK, OwnJob, OwnList,
         FilesFollowPosting
    <3>2. CASE ReadIncoming(l, m)
      <4>1. file[m] = "whole" => posting[m] = "done"
        BY <1>1 DEF FilesFollowPosting
      <4>2. QED BY <1>1, <1>2, <3>2, <4>1 DEF ReadIncoming, begin, TypeOK, OwnJob
    <3>3. CASE ReadCross(l, m)
      <4>1. file[m] = "whole" => posting[m] = "done"
        BY <1>1 DEF FilesFollowPosting
      <4>2. QED BY <1>1, <1>2, <3>3, <4>1 DEF ReadCross, begin, TypeOK, OwnJob
    <3>4. QED BY <1>6, <3>1, <3>2, <3>3
  <2>4. QED BY <2>2, <2>3
<1>7. QED BY <1>3, <1>4, <1>5, <1>6 DEF DaemonStep

LEMMA OwnNext ==
  ASSUME IInv, CarryInv, [Next]_vars, NEW k \in Lane
  PROVE  OwnJob(k)' /\ OwnList(k)'
<1>1. OwnJob(k) /\ OwnList(k)
  BY DEF CarryInv
<1>2. \A m \in Parcel : posting[m] = "done" => posting'[m] = "done"
  BY Readable
<1>3. ASSUME job'[k] = job[k], stage'[k] = stage[k], list'[k] = list[k]
      PROVE  OwnJob(k)' /\ OwnList(k)'
  <2>1. job[k].step # "idle" => job[k].parcel \in Parcel
    BY DEF IInv, JobsOK, InHandOK
  <2>2. OwnJob(k)'
    BY <1>1, <1>2, <1>3, <2>1 DEF OwnJob
  <2>3. QED BY <1>1, <1>3, <2>2 DEF OwnList
<1>4. CASE UNCHANGED vars
  BY <1>3, <1>4 DEF vars, daemonVars
<1>5. CASE \E m \in Parcel : BeginPost(m) \/ FinishPost(m) \/ Commit(m)
  BY <1>3, <1>5 DEF BeginPost, FinishPost, Commit, daemonVars
<1>6. CASE \E m \in Parcel, l \in Lane : TakeFromInbox(m, l)
  BY <1>3, <1>6 DEF TakeFromInbox, daemonVars
<1>7. ASSUME NEW l \in Daemon, DaemonStep(l) \/ Crash(l) PROVE OwnJob(k)' /\ OwnList(k)'
  <2>1. l \in Lane
    BY RelayAssumption
  <2>2. CASE l = k
    BY <1>1, <1>7, <2>2, OwnSelf
  <2>3. CASE l # k
    BY <1>3, <1>7, <2>1, <2>3, OthersRest
  <2>4. QED BY <2>2, <2>3
<1>8. QED BY <1>4, <1>5, <1>6, <1>7 DEF Next

(* Reading: only a whole file is taken in hand to be written somewhere.      *)
LEMMA ReadingCarry ==
  ASSUME IInv, CarryInv, ReadableOnce, NEW l \in Lane, NEW p \in Parcel,
         ReadOutbox(l, p) \/ ReadIncoming(l, p) \/ ReadCross(l, p),
         NEW m \in Parcel, NEW k \in Lane
  PROVE  CarryOK(m, k)'
<1>1. TypeOK /\ OwnList(l) /\ CarryOK(m, k) /\ job[l].step = "idle"
  BY DEF IInv, CarryInv, ReadOutbox, ReadIncoming, ReadCross, idle
<1>2. UNCHANGED <<file, posting, arrivals, errors, crashes>>
  BY DEF ReadOutbox, ReadIncoming, ReadCross, postVars, faultVars
<1>3. \A o \in Lane \ {l} : job'[o] = job[o]
  BY <1>1 DEF ReadOutbox, ReadIncoming, ReadCross, begin, TypeOK
<1>4. \/ job'[l] = job[l]
      \/ /\ job'[l].step = "send" /\ job'[l].parcel = p /\ job'[l].ok
         /\ file[p] = "whole"
      \/ job'[l].step = "copy" /\ job'[l].parcel = p /\ file[p] = "whole"
      \/ job'[l].step \in {"remove", "reject"}
  BY <1>1 DEF ReadOutbox, ReadIncoming, ReadCross, begin, TypeOK
<1>5. sends(m, k)' \in Nat /\ sends(m, k)' <= sends(m, k)
  <2>1. CASE job'[from[m]] = job[from[m]]
    BY <1>1, <2>1, SendsQuiet
  <2>2. CASE from[m] = l /\ job'[l] # job[l]
    <3>1. sends(m, k) = mayRead(m) /\ mayRead(m)' = mayRead(m)
      BY <1>1, <1>2, <2>2 DEF sends, mayRead
    <3>2. mayRead(m) \in {0, 1} /\ (file[m] = "whole" => mayRead(m) = 1)
      BY DEF mayRead
    <3> HIDE DEF mayRead
    <3>3. QED BY <1>4, <2>2, <3>1, <3>2 DEF sends
  <2>3. QED BY <1>3, <2>1, <2>2, RelayAssumption
<1>6. copies(m, k)' \in {0, 1} /\ copies(m, k)' <= copies(m, k)
  <2>1. CASE job'[k] = job[k]
    BY <1>1, <2>1, CopiesQuiet
  <2>2. CASE k = l /\ job'[l] # job[l]
    <3>1. copies(m, k) = mayRead(m) /\ mayRead(m)' = mayRead(m)
      BY <1>1, <1>2, <2>2 DEF copies, mayRead
    <3>2. mayRead(m) \in {0, 1} /\ (file[m] = "whole" => mayRead(m) = 1)
      BY DEF mayRead
    <3> HIDE DEF mayRead
    <3>3. QED BY <1>4, <2>2, <3>1, <3>2 DEF copies
  <2>3. QED BY <1>3, <2>1, <2>2
<1>7. /\ sends(m, k) \in Nat /\ copies(m, k) \in {0, 1} /\ arrivals[<<m, k>>] \in Nat
      /\ errors \in Nat /\ crashes \in Nat
  BY <1>1, CarryTypes
<1>8. QED BY <1>1, <1>2, <1>5, <1>6, <1>7 DEF CarryOK

(* A delivery counts once, for its message and its lane.                     *)
LEMMA DeliverCounts ==
  ASSUME TypeOK, NEW p \in Parcel, NEW t \in Lane, deliver(p, t),
         NEW m \in Parcel, NEW k \in Lane
  PROVE  arrivals'[<<m, k>>] =
           arrivals[<<m, k>>] + (IF m = p /\ k = t THEN 1 ELSE 0)
<1>1. arrivals[<<m, k>>] \in Nat /\ <<m, k>> \in Parcel \X Lane
  BY DEF TypeOK
<1>2. CASE m = p /\ k = t
  BY <1>1, <1>2 DEF deliver, TypeOK
<1>3. CASE ~(m = p /\ k = t)
  <2>1. <<m, k>> # <<p, t>>
    BY <1>3
  <2>2. arrivals'[<<m, k>>] = arrivals[<<m, k>>]
    BY <1>1, <2>1 DEF deliver, TypeOK
  <2>3. QED BY <1>1, <1>3, <2>2
<1>4. QED BY <1>2, <1>3

(* A send that succeeds has used up one write; one that fails, which is      *)
(* counted, lets the message be read again.                                  *)
LEMMA SendingCarry ==
  ASSUME IInv, CarryInv, ReadableOnce, NEW l \in Lane, NEW t \in Lane, SendTo(l, t),
         NEW m \in Parcel, NEW k \in Lane
  PROVE  CarryOK(m, k)'
<1> DEFINE p == job[l].parcel
<1>1. /\ TypeOK /\ CarryOK(m, k) /\ from[p] = l /\ job[l] \in Job
      /\ job[l].step = "send" /\ p \in Parcel /\ t \in job[l].left
  BY JobField, InHandType DEF IInv, CarryInv, OwnJob, SendTo, idle
<1>2. UNCHANGED <<file, posting, crashes>> /\ mayRead(m)' = mayRead(m)
  BY DEF SendTo, postVars, mayRead
<1>3. mayRead(m) \in {0, 1}
  BY DEF mayRead
<1>4. job'[l].step = "send" /\ job'[l].parcel = p /\ job'[l].left = job[l].left \ {t}
  BY <1>1 DEF SendTo, TypeOK, Job
<1>5. \A o \in Lane \ {l} : job'[o] = job[o]
  BY <1>1 DEF SendTo, TypeOK
<1>6. copies(m, k)' = copies(m, k)
  BY <1>1, <1>2, <1>4, <1>5 DEF copies
<1>7. /\ sends(m, k) \in Nat /\ copies(m, k) \in {0, 1} /\ arrivals[<<m, k>>] \in Nat
      /\ errors \in Nat /\ crashes \in Nat
  BY <1>1, CarryTypes
<1>8. CASE m # p
  <2>1. sends(m, k)' = sends(m, k)
    BY <1>1, <1>2, <1>4, <1>5, <1>8, RelayAssumption DEF sends
  <2>2. arrivals'[<<m, k>>] = arrivals[<<m, k>>] /\ errors' \in Nat /\ errors <= errors'
    BY <1>1, <1>7, <1>8 DEF SendTo, deliver, TypeOK
  <2>3. QED BY <1>1, <1>2, <1>6, <1>7, <2>1, <2>2 DEF CarryOK
<1>9. CASE m = p
  <2>1. sends(m, k) = (IF k \in job[l].left THEN 1 ELSE 0)
                      + (IF job[l].ok THEN 0 ELSE mayRead(m))
    BY <1>1, <1>9 DEF sends
  <2>2. sends(m, k)' = (IF k \in job[l].left \ {t} THEN 1 ELSE 0)
                       + (IF job'[l].ok THEN 0 ELSE mayRead(m))
    BY <1>1, <1>2, <1>4, <1>9 DEF sends
  <2> HIDE DEF mayRead
  <2>3. CASE deliver(p, t) /\ errors' = errors
             /\ job' = [job EXCEPT ![l].left = @ \ {t}]
    <3>1. job'[l].ok = job[l].ok
      BY <1>1, <2>3 DEF TypeOK, Job
    <3>2. arrivals'[<<m, k>>] = arrivals[<<m, k>>] + (IF k = t THEN 1 ELSE 0)
      BY <1>1, <1>7, <1>9, <2>3, DeliverCounts
    <3>3. sends(m, k)' = sends(m, k) - (IF k = t THEN 1 ELSE 0)
      <4>1. CASE k = t
        BY <1>1, <1>3, <2>1, <2>2, <3>1, <4>1
      <4>2. CASE k # t
        BY <1>1, <1>3, <2>1, <2>2, <3>1, <4>2
      <4>3. QED BY <4>1, <4>2
    <3>4. QED BY <1>1, <1>2, <1>6, <1>7, <2>3, <3>2, <3>3 DEF CarryOK
  <2>4. CASE errors' = errors + 1 /\ arrivals' = arrivals
    <3>1. sends(m, k)' \in Nat /\ sends(m, k)' <= sends(m, k) + 1
      BY <1>3, <2>1, <2>2
    <3>2. QED BY <1>1, <1>2, <1>6, <1>7, <2>4, <3>1 DEF CarryOK
  <2>5. QED BY <2>3, <2>4 DEF SendTo
<1>10. QED BY <1>8, <1>9

(* A copy made leaves nothing for this daemon to write; one that fails, as   *)
(* is counted, leaves what there was.                                        *)
LEMMA CopyingCarry ==
  ASSUME IInv, CarryInv, NEW l \in Lane, Copy(l), NEW m \in Parcel, NEW k \in Lane
  PROVE  CarryOK(m, k)'
<1> DEFINE p == job[l].parcel
<1>1. TypeOK /\ CarryOK(m, k) /\ job[l] \in Job /\ job[l].step = "copy" /\ p \in Parcel
  BY JobField, InHandType DEF IInv, CarryInv, Copy, idle
<1>2. UNCHANGED <<file, posting, crashes>> /\ mayRead(m)' = mayRead(m)
  BY DEF Copy, postVars, mayRead
<1>3. mayRead(m) \in {0, 1}
  BY DEF mayRead
<1>4. \A o \in Lane \ {l} : job'[o] = job[o]
  BY <1>1 DEF Copy, rest, TypeOK
<1>5. job'[l].step # "send"
  <2>1. CASE job' = [job EXCEPT ![l].step = "remove"]
    BY <1>1, <2>1 DEF TypeOK, Job
  <2>2. CASE rest(l)
    BY <1>1, <2>2 DEF rest, Idle, TypeOK
  <2>3. QED BY <2>1, <2>2 DEF Copy
<1>6. sends(m, k)' = sends(m, k)
  BY <1>1, <1>2, <1>4, <1>5, RelayAssumption DEF sends
<1>7. /\ sends(m, k) \in Nat /\ copies(m, k) \in {0, 1} /\ arrivals[<<m, k>>] \in Nat
      /\ errors \in Nat /\ crashes \in Nat
  BY <1>1, CarryTypes
<1>8. copies(m, k) = IF k = l /\ m = p THEN 1 ELSE copies(m, k)
  BY <1>1 DEF copies
<1>9. CASE deliver(p, l) /\ job' = [job EXCEPT ![l].step = "remove"] /\ errors' = errors
  <2>1. job'[l].step = "remove" /\ job'[l].parcel = p
    BY <1>1, <1>9 DEF TypeOK, Job
  <2>2. copies(m, k)' = IF k = l /\ m = p THEN 0 ELSE copies(m, k)
    BY <1>1, <1>2, <1>4, <2>1 DEF copies
  <2>3. arrivals'[<<m, k>>] = arrivals[<<m, k>>] + (IF m = p /\ k = l THEN 1 ELSE 0)
    BY <1>1, <1>9, DeliverCounts
  <2>4. QED BY <1>1, <1>2, <1>6, <1>7, <1>8, <1>9, <2>2, <2>3 DEF CarryOK
<1>10. CASE errors' = errors + 1 /\ rest(l) /\ UNCHANGED <<inbox, arrivals>>
  <2>1. copies(m, k)' \in {0, 1}
    BY <1>2, <1>3 DEF copies
  <2>2. copies(m, k)' <= copies(m, k) + 1
    BY <1>7, <2>1
  <2>3. QED BY <1>1, <1>2, <1>6, <1>7, <1>10, <2>1, <2>2 DEF CarryOK
<1>11. QED BY <1>9, <1>10 DEF Copy

(* What leaves the outbox cannot be read again.                              *)
LEMMA ArchiveCarry ==
  ASSUME IInv, CarryInv, ReadableOnce, NEW l \in Lane,
         Archive(l) \/ Reject(l) \/ Remove(l), NEW m \in Parcel, NEW k \in Lane
  PROVE  CarryOK(m, k)'
<1> DEFINE p == job[l].parcel
<1>1. /\ TypeOK /\ CarryOK(m, k) /\ OwnJob(l) /\ p \in Parcel
      /\ job[l].step \in {"send", "reject", "remove"}
  BY InHandType DEF IInv, CarryInv, Archive, Reject, Remove, idle
<1>2. UNCHANGED <<posting, arrivals, errors, crashes>> /\ job'[l] = Idle
  BY <1>1 DEF Archive, Reject, Remove, rest, postVars, faultVars, TypeOK
<1>3. \A o \in Lane \ {l} : job'[o] = job[o]
  BY <1>1 DEF Archive, Reject, Remove, rest, TypeOK
<1>4. mayRead(m) \in {0, 1} /\ mayRead(m)' \in {0, 1} /\ mayRead(m)' <= mayRead(m)
  BY DEF mayRead, ReadableOnce
<1>5. remove(p) /\ m = p /\ posting[p] = "done" => mayRead(m)' = 0
  BY <1>1, <1>2 DEF remove, mayRead, TypeOK
<1>6. sends(m, k)' \in Nat /\ sends(m, k)' <= sends(m, k)
  <2>1. CASE from[m] # l
    BY <1>1, <1>3, <2>1, SendsQuiet, RelayAssumption
  <2>2. CASE from[m] = l
    <3>1. sends(m, k)' = mayRead(m)'
      BY <1>2, <2>2 DEF sends, Idle
    <3>2. CASE job[l].step = "send" /\ m = p
      <4>1. sends(m, k) = IF job[l].ok THEN 0 ELSE mayRead(m)
        BY <1>4, <2>2, <3>2 DEF sends, Archive, Reject, Remove
      <4>2. job[l].ok => remove(p) /\ posting[p] = "done"
        BY <1>1, <3>2 DEF OwnJob, Archive, Reject, Remove
      <4> HIDE DEF mayRead
      <4>3. QED BY <1>4, <1>5, <3>1, <3>2, <4>1, <4>2
    <3>3. CASE ~(job[l].step = "send" /\ m = p)
      <4>1. sends(m, k) = mayRead(m)
        BY <2>2, <3>3 DEF sends
      <4>2. QED BY <1>4, <3>1, <4>1
    <3>4. QED BY <3>2, <3>3
  <2>3. QED BY <2>1, <2>2
<1>7. copies(m, k)' \in {0, 1} /\ copies(m, k)' <= copies(m, k)
  <2>1. CASE k # l
    BY <1>1, <1>3, <2>1, CopiesQuiet
  <2>2. CASE k = l
    <3>1. copies(m, k)' = mayRead(m)'
      BY <1>2, <2>2 DEF copies, Idle
    <3>2. CASE job[l].step = "remove" /\ m = p
      <4>1. remove(p) /\ posting[p] = "done"
        BY <1>1, <3>2 DEF OwnJob, Archive, Reject, Remove
      <4>2. copies(m, k) = 0
        BY <2>2, <3>2 DEF copies
      <4>3. QED BY <1>5, <3>1, <3>2, <4>1, <4>2
    <3>3. CASE ~(job[l].step = "remove" /\ m = p)
      <4>1. copies(m, k) = mayRead(m)
        BY <1>1, <2>2, <3>3 DEF copies
      <4>2. QED BY <1>4, <3>1, <4>1
    <3>4. QED BY <3>2, <3>3
  <2>3. QED BY <2>1, <2>2
<1>8. /\ sends(m, k) \in Nat /\ copies(m, k) \in {0, 1} /\ arrivals[<<m, k>>] \in Nat
      /\ errors \in Nat /\ crashes \in Nat
  BY <1>1, CarryTypes
<1>9. QED BY <1>1, <1>2, <1>6, <1>7, <1>8 DEF CarryOK

(* A daemon that dies had one file in hand, as sender or as receiver: what   *)
(* may be written for m grows by one at most, and the crash is counted.      *)
LEMMA CrashCarry ==
  ASSUME IInv, CarryInv, ReadableOnce, NEW l \in Lane, Crash(l),
         NEW m \in Parcel, NEW k \in Lane
  PROVE  CarryOK(m, k)'
<1>1. TypeOK /\ CarryOK(m, k)
  BY DEF IInv, CarryInv
<1>2. /\ UNCHANGED <<file, posting, arrivals, errors>> /\ crashes' = crashes + 1
      /\ job'[l] = Idle
  BY <1>1 DEF Crash, rest, postVars, TypeOK
<1>3. \A o \in Lane \ {l} : job'[o] = job[o]
  BY <1>1 DEF Crash, rest, TypeOK
<1>4. mayRead(m) \in {0, 1} /\ mayRead(m)' = mayRead(m)
  BY <1>2 DEF mayRead
<1>5. /\ sends(m, k) \in Nat /\ copies(m, k) \in {0, 1} /\ arrivals[<<m, k>>] \in Nat
      /\ errors \in Nat /\ crashes \in Nat
  BY <1>1, CarryTypes
<1>6. CASE job[l].step = "send"
  <2>1. copies(m, k)' = copies(m, k)
    BY <1>2, <1>3, <1>4, <1>6 DEF copies, Idle
  <2>2. sends(m, k)' \in Nat /\ sends(m, k)' <= sends(m, k) + 1
    <3>1. CASE from[m] # l
      BY <1>1, <1>3, <1>5, <3>1, SendsQuiet, RelayAssumption
    <3>2. CASE from[m] = l
      <4>1. sends(m, k)' = mayRead(m)
        BY <1>2, <1>4, <3>2 DEF sends, Idle
      <4>2. QED BY <1>4, <1>5, <4>1
    <3>3. QED BY <3>1, <3>2
  <2>3. QED BY <1>1, <1>2, <1>5, <2>1, <2>2 DEF CarryOK
<1>7. CASE job[l].step # "send"
  <2>1. sends(m, k)' = sends(m, k)
    BY <1>2, <1>3, <1>4, <1>7, RelayAssumption DEF sends, Idle
  <2>2. copies(m, k)' \in {0, 1} /\ copies(m, k)' <= copies(m, k) + 1
    BY <1>4, <1>5 DEF copies
  <2>3. QED BY <1>1, <1>2, <1>5, <2>1, <2>2 DEF CarryOK
<1>8. QED BY <1>6, <1>7

LEMMA CarryInit == Init => CarryInv
<1> SUFFICES ASSUME Init PROVE CarryInv
  OBVIOUS
<1>1. \A l \in Lane : OwnJob(l) /\ OwnList(l)
  BY DEF Init, OwnJob, OwnList, Idle
<1>2. ASSUME NEW m \in Parcel, NEW l \in Lane PROVE CarryOK(m, l)
  <2>1. sends(m, l) = 1 /\ copies(m, l) = 1
    BY RelayAssumption DEF Init, sends, copies, mayRead, Idle
  <2>2. arrivals[<<m, l>>] = 0 /\ errors = 0 /\ crashes = 0
    BY DEF Init
  <2>3. QED BY <2>1, <2>2 DEF CarryOK
<1>3. QED BY <1>1, <1>2 DEF CarryInv

LEMMA CarryNext == IInv /\ CarryInv /\ [Next]_vars => CarryInv'
<1> SUFFICES ASSUME IInv, CarryInv, [Next]_vars PROVE CarryInv'
  OBVIOUS
<1>1. ReadableOnce
  BY Readable
<1>2. ASSUME NEW m \in Parcel, NEW k \in Lane PROVE CarryOK(m, k)'
  <2>1. CASE UNCHANGED vars
    BY <1>1, <1>2, <2>1, CarryQuiet DEF vars, daemonVars, faultVars
  <2>2. CASE \E p \in Parcel : BeginPost(p) \/ FinishPost(p) \/ Commit(p)
    BY <1>1, <1>2, <2>2, CarryQuiet DEF BeginPost, FinishPost, Commit, daemonVars, faultVars
  <2>3. CASE \E p \in Parcel, l \in Lane : TakeFromInbox(p, l)
    BY <1>1, <1>2, <2>3, CarryQuiet DEF TakeFromInbox, daemonVars, faultVars
  <2>4. ASSUME NEW l \in Daemon, DaemonStep(l) \/ Crash(l) PROVE CarryOK(m, k)'
    <3>1. l \in Lane
      BY RelayAssumption
    <3>2. CASE StartTick(l) \/ NextStage(l) \/ \E o \in Lane : ListLane(l, o)
      BY <1>1, <1>2, <3>2, CarryQuiet DEF StartTick, NextStage, ListLane, faultVars
    <3>3. CASE \E p \in Parcel : ReadOutbox(l, p) \/ ReadIncoming(l, p) \/ ReadCross(l, p)
      BY <1>1, <1>2, <3>1, <3>3, ReadingCarry
    <3>4. CASE \E t \in Lane : SendTo(l, t)
      BY <1>1, <1>2, <3>1, <3>4, SendingCarry
    <3>5. CASE Archive(l) \/ Reject(l) \/ Remove(l)
      BY <1>1, <1>2, <3>1, <3>5, ArchiveCarry
    <3>6. CASE Copy(l) \/ Crash(l)
      BY <1>1, <1>2, <3>1, <3>6, CopyingCarry, CrashCarry
    <3>7. QED BY <2>4, <3>2, <3>3, <3>4, <3>5, <3>6 DEF DaemonStep
  <2>5. QED BY <2>1, <2>2, <2>3, <2>4 DEF Next
<1>3. QED BY <1>2, OwnNext DEF CarryInv

(* However many lanes and daemons there are and however often they poll, a   *)
(* message is written to an inbox at most twice, and once more for each      *)
(* failed write and each crash.                                              *)
THEOREM ArrivalsStayBounded == Spec => []ArrivalsAreBounded
<1>1. IInv /\ CarryInv => ArrivalsAreBounded
  <2> SUFFICES ASSUME IInv, CarryInv, NEW m \in Parcel, NEW l \in Lane
               PROVE  arrivals[<<m, l>>] <= 2 + errors + crashes
    BY DEF ArrivalsAreBounded
  <2>1. CarryOK(m, l)
    BY DEF CarryInv
  <2>2. /\ sends(m, l) \in Nat /\ copies(m, l) \in {0, 1} /\ arrivals[<<m, l>>] \in Nat
        /\ errors \in Nat /\ crashes \in Nat
    BY CarryTypes DEF IInv
  <2>3. QED BY <2>1, <2>2 DEF CarryOK
<1>2. QED BY <1>1, CarryInit, CarryNext, RelayInvariant, PTL DEF Spec
================================================================================
