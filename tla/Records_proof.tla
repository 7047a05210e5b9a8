---------------------------- MODULE Records_proof ----------------------------
(* What the queue of signed items, the journal, the task chains, the         *)
(* remediator, the memory of the sessions and the edit leases keep straight. *)
EXTENDS StatusQueue, StoreJournal, TaskChain, BlockedRemediator, SessionMemory, EditLease,
        LeasedWrite, FiniteSetTheorems, SequenceTheorems, WellFoundedInduction, TLAPS

-----------------------------------------------------------------------------
(* Every set of natural numbers that has an element has a least one.         *)
LEMMA LeastIsThere ==
  ASSUME NEW S \in SUBSET Nat, S # {}
  PROVE  \E n \in S : \A m \in S : n <= m
<1>1. IsWellFoundedOn({p \in Nat \X Nat : p[1] < p[2]}, Nat)
  BY NatLessThanWellFounded, Zenon DEF OpToRel
<1>2. PICK n \in S : \A m \in S : <<m, n>> \notin {p \in Nat \X Nat : p[1] < p[2]}
  BY <1>1, WFMin, Zenon
<1>3. ASSUME NEW m \in S PROVE n <= m
  <2>1. m \in Nat /\ n \in Nat /\ <<m, n>> \notin {p \in Nat \X Nat : p[1] < p[2]}
    BY <1>2
  <2>2. ~(m < n)
    BY <2>1
  <2> QED BY <2>1, <2>2
<1> QED BY <1>3

(* A set whose elements are all the same has one at most.                    *)
LEMMA AtMostOne ==
  ASSUME NEW S, \A c, d \in S : c = d
  PROVE  Cardinality(S) <= 1
<1>1. CASE S = {}
  BY <1>1, FS_EmptySet
<1>2. CASE S # {}
  <2>1. PICK c : c \in S
    BY <1>2
  <2>2. S = {c}
    BY <2>1
  <2>3. Cardinality(S) = 1
    BY <2>2, FS_Singleton, Zenon
  <2> QED BY <2>3
<1> QED BY <1>1, <1>2

-----------------------------------------------------------------------------
(* Verification                                                              *)

VerificationTypes ==
  /\ keyKnown \in BOOLEAN /\ handoff \in BOOLEAN /\ wiped \subseteq QItem
  /\ retryCount \in [QItem -> Nat] /\ timers \in [QItem -> Nat]
  /\ calls \in [QItem -> Nat]

VerificationInvariant == VerificationTypes /\ HandoffIsSignalled /\ OneRetryPerCall

LEMMA VerificationStart == VerificationInit => VerificationInvariant
<1> SUFFICES ASSUME VerificationInit PROVE VerificationInvariant
  OBVIOUS
<1> USE DEF VerificationInit
<1>1. VerificationTypes
  BY DEF VerificationTypes
<1>2. HandoffIsSignalled
  BY VerificationAssumption DEF HandoffIsSignalled, overLimit
<1>3. OneRetryPerCall
  BY DEF OneRetryPerCall
<1> QED BY <1>1, <1>2, <1>3 DEF VerificationInvariant

(* A verification, called or retried: the item's own count and timer change, *)
(* and the signal with them.                                                 *)
LEMMA VerifyItemStep ==
  ASSUME VerificationTypes, HandoffIsSignalled, NEW i \in QItem, NEW fired \in 0..1,
         fired <= timers[i], verifyItem(i, fired)
  PROVE  /\ keyKnown' \in BOOLEAN /\ handoff' \in BOOLEAN /\ wiped' \subseteq QItem
         /\ retryCount' \in [QItem -> Nat] /\ timers' \in [QItem -> Nat]
         /\ timers'[i] <= timers[i] - fired + 1
         /\ \A j \in QItem \ {i} : timers'[j] = timers[j]
         /\ HandoffIsSignalled'
<1> USE DEF VerificationTypes
<1>1. /\ timers[i] - fired \in Nat /\ timers' \in [QItem -> Nat]
      /\ timers'[i] <= timers[i] - fired + 1
      /\ \A j \in QItem \ {i} : timers'[j] = timers[j]
  BY DEF verifyItem
<1> DEFINE beyond == retryable(i) /\ overLimit(retryCount[i] + 1)
<1>2. CASE retryable(i)
  <2>1. retryCount' = [retryCount EXCEPT ![i] = @ + 1] /\ keyKnown' = keyKnown
        /\ handoff' = (handoff \/ overLimit(retryCount[i] + 1))
        /\ wiped' = IF overLimit(retryCount[i] + 1) THEN {}
                    ELSE IF verifyQueueItem(i) = "valid" THEN wiped \ {i} ELSE wiped
    BY <1>2 DEF verifyItem
  <2>2. verifyQueueItem(i) # "valid"
    BY <1>2 DEF retryable
  <2>3. HandoffIsSignalled'
    BY <2>1, <2>2, VerificationAssumption DEF HandoffIsSignalled, overLimit
  <2> QED BY <1>1, <2>1, <2>3
<1>3. CASE ~retryable(i) /\ verifyQueueItem(i) = "valid"
  <2>1. retryCount' = [retryCount EXCEPT ![i] = 0] /\ keyKnown' = keyKnown
        /\ handoff' = handoff /\ wiped' = wiped \ {i}
    BY <1>3 DEF verifyItem
  <2>2. HandoffIsSignalled'
    BY <2>1, VerificationAssumption DEF HandoffIsSignalled, overLimit
  <2> QED BY <1>1, <2>1, <2>2
<1>4. CASE ~retryable(i) /\ verifyQueueItem(i) # "valid"
  <2>1. retryCount' = retryCount /\ UNCHANGED <<keyKnown, handoff, wiped>>
    BY <1>4 DEF verifyItem
  <2>2. HandoffIsSignalled'
    BY <2>1 DEF HandoffIsSignalled, overLimit
  <2> QED BY <1>1, <2>1, <2>2
<1> QED BY <1>2, <1>3, <1>4

LEMMA VerificationStep ==
  VerificationInvariant /\ VerificationNext => VerificationInvariant'
<1> SUFFICES ASSUME VerificationInvariant, VerificationNext PROVE VerificationInvariant'
  OBVIOUS
<1> USE DEF VerificationInvariant
<1>1. ASSUME NEW i \in QItem, verify(i) PROVE VerificationInvariant'
  <2>1. verifyItem(i, 0) /\ calls' = [calls EXCEPT ![i] = @ + 1]
    BY <1>1 DEF verify
  <2>2. 0 \in 0..1 /\ 0 <= timers[i]
    BY DEF VerificationTypes
  <2> QED BY <2>1, <2>2, VerifyItemStep DEF VerificationTypes, OneRetryPerCall
<1>2. ASSUME NEW i \in QItem, timerFires(i) PROVE VerificationInvariant'
  <2>1. timers[i] > 0 /\ UNCHANGED calls
    BY <1>2 DEF timerFires
  <2>2. CASE retryCount[i] > 0
    <3>1. verifyItem(i, 1) /\ 1 \in 0..1 /\ 1 <= timers[i]
      BY <1>2, <2>1, <2>2 DEF timerFires, VerificationTypes
    <3> QED BY <2>1, <3>1, VerifyItemStep DEF VerificationTypes, OneRetryPerCall
  <2>3. CASE ~(retryCount[i] > 0)
    BY <1>2, <2>1, <2>3 DEF timerFires, VerificationTypes, OneRetryPerCall,
                            HandoffIsSignalled, overLimit
  <2> QED BY <2>2, <2>3
<1>3. ASSUME NEW i \in QItem, forceRelease(i) PROVE VerificationInvariant'
  <2>1. /\ handoff' = FALSE /\ retryCount' = [retryCount EXCEPT ![i] = 0]
        /\ wiped' = (wiped \cup {j \in QItem : overLimit(retryCount[j])}) \ {i}
        /\ UNCHANGED <<keyKnown, timers, calls>>
    BY <1>3 DEF forceRelease
  <2>2. VerificationTypes' /\ OneRetryPerCall'
    BY <2>1 DEF VerificationTypes, OneRetryPerCall
  <2>3. HandoffIsSignalled'
    BY <2>1, VerificationAssumption DEF VerificationTypes, HandoffIsSignalled, overLimit
  <2> QED BY <2>2, <2>3
<1>4. ASSUME reloadTrustStore PROVE VerificationInvariant'
  BY <1>4 DEF reloadTrustStore, VerificationTypes, OneRetryPerCall, HandoffIsSignalled, overLimit
<1> QED BY <1>1, <1>2, <1>3, <1>4 DEF VerificationNext

(* An item that has been tried more often than the limit is signalled to a   *)
(* human as long as it stays, unless another item's release has removed the  *)
(* signal they share (QuarantineManager.js).                                 *)
THEOREM HandoffIsAlwaysSignalled == VerificationSpec => []HandoffIsSignalled
<1>1. VerificationInvariant /\ UNCHANGED verificationVars => VerificationInvariant'
  BY DEF verificationVars, VerificationInvariant, VerificationTypes, HandoffIsSignalled,
         OneRetryPerCall, overLimit
<1>2. VerificationInvariant => HandoffIsSignalled
  BY DEF VerificationInvariant
<1> QED BY VerificationStart, VerificationStep, <1>1, <1>2, PTL DEF VerificationSpec

(* Retries do not multiply, whatever overlaps: there is at most one for each *)
(* call of verify (VerifierWrapper.js, scheduleRetry).                       *)
THEOREM OneRetryPerCallAlways == VerificationSpec => []OneRetryPerCall
<1>1. VerificationInvariant /\ UNCHANGED verificationVars => VerificationInvariant'
  BY DEF verificationVars, VerificationInvariant, VerificationTypes, HandoffIsSignalled,
         OneRetryPerCall, overLimit
<1>2. VerificationInvariant => OneRetryPerCall
  BY DEF VerificationInvariant
<1> QED BY VerificationStart, VerificationStep, <1>1, <1>2, PTL DEF VerificationSpec

-----------------------------------------------------------------------------
(* The queue                                                                 *)

QueueTypes ==
  /\ attested \in BOOLEAN /\ interleaved \in BOOLEAN
  /\ queue \in Content /\ tempFile \subseteq Content
  /\ DOMAIN update = QProcess
  /\ \A p \in QProcess : update[p] = NoUpdate \/
       update[p] \in [step : {"verify", "write", "rename"}, item : QItem,
                     to : Decision, all : Content]
  /\ entered \subseteq QItem /\ decided \in [QItem -> Nat]

(* A call that is alone works on what the file holds.                        *)
Alone ==
  /\ \A p, q \in running : p = q
  /\ \A p \in running :
       /\ update[p].all = queue /\ queue[update[p].item] # "absent"
       /\ update[p].step = "rename" =>
            /\ tempFile = {[queue EXCEPT ![update[p].item] = update[p].to]}
            /\ queue[update[p].item] = "pending"

Standing ==
  \A i \in QItem :
    /\ i \in entered <=> queue[i] # "absent"
    /\ decided[i] <= 1
    /\ decided[i] = 1 => queue[i] # "pending"
    /\ i \notin entered => decided[i] = 0

QueueInvariant == QueueTypes /\ (~interleaved => Alone /\ Standing)

LEMMA DecisionsDiffer == "pending" \notin Decision /\ "absent" \notin Decision
BY QueueAssumption

LEMMA QueueStart == QueueInit => QueueInvariant
<1> SUFFICES ASSUME QueueInit PROVE QueueInvariant
  OBVIOUS
<1> USE DEF QueueInit
<1>1. QueueTypes
  BY DEF QueueTypes, Content, Status
<1>2. running = {}
  BY DEF running
<1>3. Alone /\ Standing
  BY <1>2 DEF Alone, Standing
<1> QED BY <1>1, <1>3 DEF QueueInvariant

LEMMA EnqueueStep ==
  ASSUME QueueInvariant, NEW i \in QItem, enqueue(i)
  PROVE  QueueInvariant'
<1> USE DEF QueueInvariant
<1>1. /\ i \notin entered /\ queue' = [queue EXCEPT ![i] = "pending"]
      /\ entered' = entered \cup {i} /\ interleaved' = (interleaved \/ running # {})
      /\ UNCHANGED <<attested, tempFile, update, decided>>
  BY DEF enqueue, queueVars
<1>2. QueueTypes'
  BY <1>1 DEF QueueTypes, Content, Status
<1>3. ASSUME ~interleaved' PROVE Alone' /\ Standing'
  <2>1. ~interleaved /\ running = {} /\ running' = {}
    BY <1>1, <1>3 DEF running
  <2>2. Alone'
    BY <2>1 DEF Alone
  <2>3. Standing'
    BY <1>1, <2>1 DEF Standing, QueueTypes, Content, Status
  <2> QED BY <2>2, <2>3
<1> QED BY <1>2, <1>3

LEMMA LoadAllStep ==
  ASSUME QueueInvariant, NEW p \in QProcess, NEW i \in QItem, NEW to \in Decision,
         loadAll(p, i, to)
  PROVE  QueueInvariant'
<1> USE DEF QueueInvariant
<1> DEFINE loaded == [step |-> IF attested THEN "verify" ELSE "write",
                      item |-> i, to |-> to, all |-> queue]
<1>1. /\ queue[i] # "absent" /\ update' = [update EXCEPT ![p] = loaded]
      /\ interleaved' = (interleaved \/ running # {})
      /\ UNCHANGED <<attested, queue, tempFile, entered, decided>>
  BY DEF loadAll
<1>2. loaded \in [step : {"verify", "write", "rename"}, item : QItem, to : Decision, all : Content]
  BY DEF QueueTypes
<1>3. loaded.step # "rename" /\ loaded.all = queue /\ loaded.item = i
  OBVIOUS
<1> HIDE DEF loaded
<1>4. update'[p] = loaded /\ \A q \in QProcess \ {p} : update'[q] = update[q]
  BY <1>1 DEF QueueTypes
<1>5. QueueTypes'
  BY <1>1, <1>2, <1>4 DEF QueueTypes
<1>6. ASSUME ~interleaved' PROVE Alone' /\ Standing'
  <2>1. ~interleaved /\ running = {}
    BY <1>1, <1>6
  <2>2. running' \subseteq {p}
    BY <1>4, <2>1 DEF running
  <2>3. Alone'
    BY <1>1, <1>3, <1>4, <2>2 DEF Alone
  <2>4. Standing'
    BY <1>1, <2>1 DEF Standing
  <2> QED BY <2>3, <2>4
<1> QED BY <1>5, <1>6

(* A call that ends, or dies: nobody else is running.                        *)
LEMMA EndStep ==
  ASSUME QueueInvariant, NEW p \in QProcess, update[p] # NoUpdate, endUpdate(p),
         tempFile' \subseteq Content, UNCHANGED <<attested, queue, entered, decided, interleaved>>
  PROVE  QueueInvariant'
<1> USE DEF QueueInvariant
<1>1. update'[p] = NoUpdate /\ \A q \in QProcess \ {p} : update'[q] = update[q]
  BY DEF endUpdate, QueueTypes
<1>2. QueueTypes'
  BY <1>1 DEF QueueTypes, endUpdate
<1>3. ASSUME ~interleaved PROVE Alone' /\ Standing'
  <2>1. p \in running /\ running' = {}
    BY <1>1, <1>3 DEF running, Alone
  <2> QED BY <1>3, <2>1 DEF Alone, Standing
<1> QED BY <1>2, <1>3

(* A call that goes on to its next step.                                     *)
LEMMA GoOnStep ==
  ASSUME QueueInvariant, NEW p \in QProcess, NEW s \in {"write", "rename"}, update[p] # NoUpdate,
         update' = [update EXCEPT ![p].step = s], tempFile' \subseteq Content,
         UNCHANGED <<attested, queue, entered, decided, interleaved>>,
         s = "rename" => /\ update[p].all[update[p].item] = "pending"
                         /\ tempFile' = {[update[p].all EXCEPT ![update[p].item] = update[p].to]}
  PROVE  QueueInvariant'
<1> USE DEF QueueInvariant
<1>1. update[p] \in [step : {"verify", "write", "rename"}, item : QItem,
                     to : Decision, all : Content]
  BY DEF QueueTypes
<1>2. /\ update'[p] = [update[p] EXCEPT !.step = s]
      /\ \A q \in QProcess \ {p} : update'[q] = update[q]
  BY DEF QueueTypes
<1>3. /\ update'[p] \in [step : {"verify", "write", "rename"}, item : QItem,
                         to : Decision, all : Content]
      /\ update'[p].step = s /\ update'[p].item = update[p].item
      /\ update'[p].to = update[p].to /\ update'[p].all = update[p].all
  BY <1>1, <1>2
<1>4. QueueTypes'
  BY <1>2, <1>3 DEF QueueTypes
<1>5. ASSUME ~interleaved PROVE Alone' /\ Standing'
  <2>1. running = {p}
    BY <1>5 DEF running, Alone
  <2>2. running' \subseteq {p}
    BY <1>2, <2>1 DEF running
  <2>3. Alone'
    BY <1>3, <1>5, <2>1, <2>2 DEF Alone
  <2> QED BY <1>5, <2>3 DEF Standing
<1> QED BY <1>4, <1>5

LEMMA AwaitStep ==
  ASSUME QueueInvariant, NEW p \in QProcess, awaitVerification(p)
  PROVE  QueueInvariant'
<1>1. /\ update[p] # NoUpdate
      /\ update' = [update EXCEPT ![p].step = "write"] \/ endUpdate(p)
      /\ UNCHANGED <<attested, queue, tempFile, entered, decided, interleaved>>
  BY DEF awaitVerification
<1>2. tempFile' \subseteq Content
  BY <1>1 DEF QueueInvariant, QueueTypes
<1> QED BY <1>1, <1>2, EndStep, GoOnStep

LEMMA WriteTempStep ==
  ASSUME QueueInvariant, NEW p \in QProcess, writeTemp(p)
  PROVE  QueueInvariant'
<1>1. /\ update[p] # NoUpdate
      /\ UNCHANGED <<attested, queue, entered, decided, interleaved>>
  BY DEF writeTemp
<1>2. CASE update[p].all[update[p].item] # "pending"
  <2>1. endUpdate(p) /\ tempFile' \subseteq Content
    BY <1>2 DEF writeTemp, QueueInvariant, QueueTypes
  <2> QED BY <1>1, <2>1, EndStep
<1>3. CASE update[p].all[update[p].item] = "pending"
  <2>1. /\ tempFile' = {[update[p].all EXCEPT ![update[p].item] = update[p].to]}
        /\ update' = [update EXCEPT ![p].step = "rename"]
    BY <1>3 DEF writeTemp
  <2>2. tempFile' \subseteq Content
    BY <1>1, <2>1 DEF QueueInvariant, QueueTypes, Content, Status
  <2> QED BY <1>1, <1>3, <2>1, <2>2, GoOnStep
<1> QED BY <1>2, <1>3

LEMMA RenameStep ==
  ASSUME QueueInvariant, NEW p \in QProcess, renameTemp(p)
  PROVE  QueueInvariant'
<1> USE DEF QueueInvariant
<1>1. /\ update[p] # NoUpdate /\ update[p].step = "rename" /\ tempFile' = {} /\ endUpdate(p)
      /\ UNCHANGED <<attested, entered, interleaved>>
  BY DEF renameTemp
<1>2. CASE tempFile = {}
  <2>1. UNCHANGED <<queue, decided>> /\ tempFile' \subseteq Content
    BY <1>1, <1>2 DEF renameTemp
  <2> QED BY <1>1, <2>1, EndStep
<1>3. CASE tempFile # {}
  <2>1. /\ queue' \in tempFile /\ decided' = [decided EXCEPT ![update[p].item] = @ + 1]
    BY <1>3 DEF renameTemp
  <2>2. update[p].item \in QItem /\ update[p].to \in Decision
    BY <1>1 DEF QueueTypes
  <2>3. update'[p] = NoUpdate /\ \A q \in QProcess \ {p} : update'[q] = update[q]
    BY <1>1 DEF endUpdate, QueueTypes
  <2>4. QueueTypes'
    BY <1>1, <2>1, <2>2, <2>3 DEF QueueTypes, endUpdate
  <2>5. ASSUME ~interleaved PROVE Alone' /\ Standing'
    <3>1. running = {p} /\ running' = {}
      BY <1>1, <2>3, <2>5 DEF running, Alone
    <3>2. /\ queue' = [queue EXCEPT ![update[p].item] = update[p].to]
          /\ queue[update[p].item] = "pending"
      BY <1>1, <2>1, <2>5, <3>1 DEF Alone
    <3>3. Standing'
      BY <1>1, <2>1, <2>2, <2>5, <3>2, DecisionsDiffer DEF Standing, QueueTypes, Content
    <3> QED BY <3>1, <3>3 DEF Alone
  <2> QED BY <1>1, <2>4, <2>5
<1> QED BY <1>2, <1>3

LEMMA QueueStep ==
  ASSUME QueueInvariant, [QueueNext]_<<verificationVars, queueVars>>
  PROVE  QueueInvariant'
<1>1. ASSUME NEW p \in QProcess, Die(p) PROVE QueueInvariant'
  <2>1. /\ update[p] # NoUpdate /\ endUpdate(p) /\ tempFile' \subseteq Content
        /\ UNCHANGED <<attested, queue, entered, decided, interleaved>>
    BY <1>1 DEF Die, QueueInvariant, QueueTypes
  <2> QED BY <2>1, EndStep
<1>2. ASSUME UNCHANGED queueVars PROVE QueueInvariant'
  BY <1>2 DEF queueVars, QueueInvariant, QueueTypes, Alone, Standing, running
<1> QED BY <1>1, <1>2, EnqueueStep, LoadAllStep, AwaitStep, WriteTempStep, RenameStep
        DEF QueueNext

(* As long as no two calls overlap, whoever dies in whichever place, an item *)
(* that came stays, is decided at most once, and its decision stands         *)
(* (Queue.js, updateStatus).                                                 *)
THEOREM DecisionsAlwaysStandInTurn == QueueSpec => []DecisionsStandInTurn
<1>1. QueueInvariant => DecisionsStandInTurn
  BY DEF QueueInvariant, Standing, DecisionsStandInTurn
<1> QED BY QueueStart, QueueStep, <1>1, PTL DEF QueueSpec

-----------------------------------------------------------------------------
Undecided ==
  attested => /\ \A i \in QItem : decided[i] = 0
              /\ \A p \in QProcess : update[p] # NoUpdate => update[p].step = "verify"

(* No outcome of the wrapper passes for a success.                           *)
LEMMA NothingPasses == \A i : ~passing(outcome(i))
BY DEF passing, outcome

(* A queue with a verifier never changes a status, valid as a signature may  *)
(* be: updateStatus asks for the status "SUCCESS", and the wrapper says      *)
(* "success" (Queue.js:136-139, core/protocols/outcome.js:8).                *)
THEOREM AttestedQueueNeverDecides == QueueSpec => [](attested => \A i \in QItem : decided[i] = 0)
<1>1. QueueInit => Undecided
  BY DEF QueueInit, Undecided
<1>2. ASSUME QueueInvariant, Undecided, [QueueNext]_<<verificationVars, queueVars>>
      PROVE  Undecided'
  <2>1. \A i \in QItem : enqueue(i) => Undecided'
    BY <1>2 DEF enqueue, Undecided
  <2>2. \A p \in QProcess, i \in QItem, to \in Decision : loadAll(p, i, to) => Undecided'
    BY <1>2 DEF loadAll, Undecided, QueueInvariant, QueueTypes
  <2>3. \A p \in QProcess : awaitVerification(p) => Undecided'
    BY <1>2, NothingPasses
       DEF awaitVerification, endUpdate, Undecided, QueueInvariant, QueueTypes
  <2>4. \A p \in QProcess : writeTemp(p) => Undecided'
    BY <1>2 DEF writeTemp, Undecided
  <2>5. \A p \in QProcess : renameTemp(p) => Undecided'
    BY <1>2 DEF renameTemp, Undecided
  <2>6. \A p \in QProcess : Die(p) => Undecided'
    BY <1>2 DEF Die, endUpdate, Undecided, QueueInvariant, QueueTypes
  <2>7. UNCHANGED queueVars => Undecided'
    BY <1>2 DEF queueVars, Undecided
  <2> QED BY <1>2, <2>1, <2>2, <2>3, <2>4, <2>5, <2>6, <2>7 DEF QueueNext
<1>3. Undecided => (attested => \A i \in QItem : decided[i] = 0)
  BY DEF Undecided
<1> QED BY <1>1, <1>2, <1>3, QueueStart, QueueStep, PTL DEF QueueSpec

-----------------------------------------------------------------------------
(* The journal                                                               *)

RenderingInTurn ==
  (~overlapped /\ autofixes = 0) =>
    /\ \A a, b \in busy : a = b
    /\ \A a \in busy : process[a].step = "write" => process[a].seen = Len(entries)
    /\ busy = {} => snapshot = Len(entries)
    /\ \A r \in Run : fixing[r].left = {}

JournalInvariant ==
  /\ process \in [Agent -> Rendering] /\ autofixes \in Nat /\ overlapped \in BOOLEAN
  /\ RenderingInTurn

LEMMA JournalStart == JournalInit => JournalInvariant
<1> SUFFICES ASSUME JournalInit PROVE JournalInvariant
  OBVIOUS
<1> USE DEF JournalInit
<1>1. process \in [Agent -> Rendering] /\ \A a \in Agent : idle(a)
  BY DEF NoCommand, Rendering, idle
<1>2. busy = {} /\ Len(entries) = 0
  BY <1>1 DEF busy
<1>3. RenderingInTurn
  BY <1>2 DEF RenderingInTurn
<1> QED BY <1>1, <1>3 DEF JournalInvariant

(* A command begins: it appends, and is the only one.                        *)
LEMMA AppendStep ==
  ASSUME JournalInvariant, NEW a \in Agent, NEW event, NEW ownership, cmdAppend(a, event, ownership)
  PROVE  JournalInvariant'
<1> USE DEF JournalInvariant
<1>1. /\ process' = [process EXCEPT ![a] = [step |-> "read", seen |-> 0]]
      /\ overlapped' = (overlapped \/ busy # {})
      /\ UNCHANGED <<snapshot, fixing, autofixes>>
  BY DEF cmdAppend
<1>2. process' \in [Agent -> Rendering] /\ process'[a].step = "read"
      /\ \A b \in Agent \ {a} : process'[b] = process[b]
  BY <1>1 DEF Rendering
<1>3. ASSUME ~overlapped', autofixes = 0
      PROVE  busy' = {a} /\ \A r \in Run : fixing'[r].left = {}
  BY <1>1, <1>2, <1>3 DEF busy, idle, RenderingInTurn
<1>4. RenderingInTurn'
  BY <1>1, <1>2, <1>3 DEF RenderingInTurn
<1> QED BY <1>1, <1>2, <1>4

LEMMA RenderStep ==
  ASSUME JournalInvariant, NEW a \in Agent, readAllLanes(a) \/ cmdSnapshot(a)
  PROVE  JournalInvariant'
<1> USE DEF JournalInvariant
<1>1. UNCHANGED <<entries, fixing, autofixes, overlapped>>
  BY DEF readAllLanes, cmdSnapshot
<1>2. CASE readAllLanes(a)
  <2>1. process[a].step = "read" /\ UNCHANGED snapshot
        /\ process' = [process EXCEPT ![a] = [step |-> "write", seen |-> Len(entries)]]
    BY <1>2 DEF readAllLanes
  <2>2. process'[a] = [step |-> "write", seen |-> Len(entries)]
        /\ \A b \in Agent \ {a} : process'[b] = process[b]
    BY <2>1
  <2>3. busy' = busy /\ a \in busy
    BY <2>1, <2>2 DEF busy, idle
  <2>4. RenderingInTurn'
    BY <1>1, <2>1, <2>2, <2>3 DEF RenderingInTurn
  <2>5. Len(entries) \in Nat
    OBVIOUS
  <2>6. process' \in [Agent -> Rendering]
    BY <2>1, <2>5 DEF Rendering
  <2> QED BY <1>1, <2>4, <2>6
<1>3. CASE cmdSnapshot(a)
  <2>1. process[a].step = "write" /\ snapshot' = process[a].seen
        /\ process' = [process EXCEPT ![a] = NoCommand]
    BY <1>3 DEF cmdSnapshot
  <2>2. process'[a].step = "idle" /\ \A b \in Agent \ {a} : process'[b] = process[b]
    BY <2>1 DEF NoCommand
  <2>3. busy' = busy \ {a} /\ a \in busy
    BY <2>1, <2>2 DEF busy, idle
  <2>4. RenderingInTurn'
    BY <1>1, <2>1, <2>2, <2>3 DEF RenderingInTurn
  <2>5. process' \in [Agent -> Rendering]
    BY <2>1 DEF Rendering, NoCommand
  <2> QED BY <1>1, <2>4, <2>5
<1> QED BY <1>2, <1>3

LEMMA JournalStep ==
  ASSUME JournalInvariant, [JournalNext]_journalVars
  PROVE  JournalInvariant'
<1> USE DEF JournalInvariant, RenderingInTurn, busy, idle
<1>1. ASSUME NEW a \in Agent, NEW event, NEW ownership,
             \/ StartWork(a, ownership) \/ CompleteWork(a) \/ Release(a, ownership)
             \/ \E p \in JournalPath : Claim(a, p)
      PROVE  JournalInvariant'
  BY <1>1, AppendStep DEF StartWork, CompleteWork, Release, Claim
<1>2. ASSUME NEW a \in Agent, NEW p \in JournalPath, cmdPreflight(a, p) PROVE JournalInvariant'
  BY <1>2 DEF cmdPreflight
<1>3. ASSUME NEW a \in Agent, NEW r \in Run, completeOrphan(r, a) PROVE JournalInvariant'
  <2>1. a \in fixing[r].left /\ UNCHANGED <<snapshot, process, autofixes, overlapped>>
    BY <1>3 DEF completeOrphan
  <2>2. overlapped \/ autofixes # 0
    BY <2>1
  <2> QED BY <2>1, <2>2
<1>4. ASSUME NEW i \in DOMAIN entries, Lapse(i) PROVE JournalInvariant'
  BY <1>4 DEF Lapse
<1>5. ASSUME cmdAutofix PROVE JournalInvariant'
  <2>1. autofixes' = autofixes + 1 /\ UNCHANGED <<process, overlapped>>
    BY <1>5 DEF cmdAutofix
  <2>2. autofixes' \in Nat /\ autofixes' # 0
    BY <2>1
  <2> QED BY <2>1, <2>2
<1>6. ASSUME Midnight PROVE JournalInvariant'
  BY <1>6 DEF Midnight
<1>7. ASSUME UNCHANGED journalVars PROVE JournalInvariant'
  BY <1>7 DEF journalVars
<1> QED BY <1>1, <1>2, <1>3, <1>4, <1>5, <1>6, <1>7, RenderStep DEF JournalNext

(* Commands that never overlap leave a complete snapshot behind, as long as  *)
(* autofix has not run, which makes none (store-journal.js, cmdAppend).      *)
THEOREM SnapshotAlwaysCurrentInTurn == JournalSpec => []SnapshotIsCurrentInTurn
<1>1. JournalInvariant => SnapshotIsCurrentInTurn
  BY DEF JournalInvariant, RenderingInTurn, SnapshotIsCurrentInTurn
<1> QED BY JournalStart, JournalStep, <1>1, PTL DEF JournalSpec

(* What autofix adds.                                                        *)
startsOf(a) == {i \in DOMAIN entries : entries[i].session = a /\ entries[i].event = "work_started"}
own(a) == IF work[a] = "completed" THEN 1 ELSE 0

JournalTypes ==
  /\ entries \in Seq(Entry) /\ today \in 0..MaxDay
  /\ fixing \in [Run -> [day : 0..MaxDay, left : SUBSET Agent]]
  /\ contested \in [Agent -> Nat] /\ autofixes \in Nat
  /\ work \in [Agent -> {"none", "started", "completed"}]

(* What has completed a session and what is still to complete it add up; no  *)
(* run completes it on a day before the one on which it began.               *)
CompletedOnce(a) ==
  /\ IsFiniteSet(completions(a))
  /\ Cardinality(completions(a)) + Cardinality(autofixing(a)) <= 1 + own(a) + contested[a]
  /\ (autofixing(a) # {} \/ startsOf(a) # {} \/ completions(a) # {} => work[a] # "none")
  /\ \A i \in startsOf(a), j \in completions(a) : entries[i].day <= entries[j].day
  /\ \A i \in startsOf(a), r \in autofixing(a) : entries[i].day <= fixing[r].day

AutofixInvariant ==
  /\ JournalTypes
  /\ \A i \in DOMAIN entries : entries[i].day <= today
  /\ \A r \in Run : fixing[r].day <= today
  /\ \A a \in Agent : CompletedOnce(a)

LEMMA Runs == /\ IsFiniteSet(Run) /\ Run \subseteq Nat /\ \A a : autofixing(a) \subseteq Run
<1>1. IsFiniteSet(1..MaxAutofix)
  BY JournalAssumption, FS_Interval
<1> QED BY <1>1, JournalAssumption DEF Run, autofixing

LEMMA AppendedEntry ==
  ASSUME JournalTypes, NEW a \in Agent, NEW ownership \in Ownership, NEW day \in 0..MaxDay,
         NEW event \in {"work_started", "work_completed", "claimed", "released"},
         append(a, day, event, ownership)
  PROVE  /\ entries' \in Seq(Entry) /\ Len(entries) + 1 \notin DOMAIN entries
         /\ DOMAIN entries' = DOMAIN entries \cup {Len(entries) + 1}
         /\ \A i \in DOMAIN entries : entries'[i] = entries[i] /\ entries[i].day \in Nat
         /\ entries'[Len(entries) + 1].day = day
         /\ entries'[Len(entries) + 1].session = a
         /\ entries'[Len(entries) + 1].event = event
         /\ entries'[Len(entries) + 1].ownership = ownership
<1> DEFINE e == [lane |-> agentLane[a], day |-> day, session |-> a, event |-> event,
                 ownership |-> ownership]
<1>1. e \in Entry /\ e.day = day /\ e.session = a /\ e.event = event /\ e.ownership = ownership
  BY DEF JournalTypes, Entry
<1>2. entries' = Append(entries, e)
  BY DEF append
<1> HIDE DEF e
<1>3. \A i \in DOMAIN entries : entries[i] \in Entry
  BY DEF JournalTypes
<1>4. \A i \in DOMAIN entries : entries[i].day \in Nat
  BY <1>3, JournalAssumption DEF Entry
<1> QED BY <1>1, <1>2, <1>4 DEF JournalTypes

(* An entry that completes nothing.                                          *)
LEMMA OtherEntryStep ==
  ASSUME AutofixInvariant, NEW a \in Agent, NEW ownership \in Ownership,
         NEW event \in {"work_started", "work_completed", "claimed", "released"},
         event # "work_completed", append(a, today, event, ownership),
         UNCHANGED <<today, fixing, contested, autofixes>>,
         event = "work_started" => work[a] = "none" /\ work' = [work EXCEPT ![a] = "started"],
         event # "work_started" => UNCHANGED work
  PROVE  AutofixInvariant'
<1> DEFINE n == Len(entries) + 1
<1>0. JournalTypes /\ (\A i \in DOMAIN entries : entries[i].day <= today)
      /\ today \in 0..MaxDay /\ today \in Nat /\ \A r \in Run : fixing[r].day <= today
  BY JournalAssumption DEF AutofixInvariant, JournalTypes
<1>1. /\ entries' \in Seq(Entry) /\ n \notin DOMAIN entries
      /\ DOMAIN entries' = DOMAIN entries \cup {n}
      /\ \A i \in DOMAIN entries : entries'[i] = entries[i] /\ entries[i].day \in Nat
      /\ entries'[n].day = today /\ entries'[n].session = a /\ entries'[n].event = event
  <2>1. entries' \in Seq(Entry) /\ n \notin DOMAIN entries
    BY <1>0, AppendedEntry
  <2>2. DOMAIN entries' = DOMAIN entries \cup {n}
    BY <1>0, AppendedEntry
  <2>3. \A i \in DOMAIN entries : entries'[i] = entries[i] /\ entries[i].day \in Nat
    BY <1>0, AppendedEntry
  <2>4. entries'[n].day = today /\ entries'[n].session = a /\ entries'[n].event = event
    BY <1>0, AppendedEntry
  <2> QED BY <2>1, <2>2, <2>3, <2>4
<1> HIDE DEF n
<1>2. JournalTypes' /\ \A b \in Agent : own(b)' = own(b)
  <2>1. CASE event = "work_started"
    BY <1>0, <1>1, <2>1 DEF JournalTypes, own
  <2>2. CASE event # "work_started"
    BY <1>0, <1>1, <2>2 DEF JournalTypes, own
  <2> QED BY <2>1, <2>2
<1>3. (\A i \in DOMAIN entries' : entries'[i].day <= today') /\ \A r \in Run : fixing'[r].day <= today'
  BY <1>0, <1>1
<1>4. ASSUME NEW b \in Agent PROVE CompletedOnce(b)'
  <2>1. completions(b)' = completions(b)
    BY <1>1 DEF completions
  <2>2. startsOf(b)' = IF b = a /\ event = "work_started" THEN startsOf(b) \cup {n} ELSE startsOf(b)
    BY <1>1 DEF startsOf
  <2>3. CompletedOnce(b) /\ autofixing(b)' = autofixing(b) /\ contested'[b] = contested[b]
    BY DEF AutofixInvariant, autofixing
  <2>4. CASE b = a /\ event = "work_started"
    <3>1. completions(b) = {} /\ autofixing(b) = {} /\ work'[b] # "none"
      BY <1>0, <2>3, <2>4 DEF CompletedOnce, JournalTypes
    <3> QED BY <1>2, <2>1, <2>3, <3>1 DEF CompletedOnce
  <2>5. CASE ~(b = a /\ event = "work_started")
    <3>1. work'[b] = work[b] /\ startsOf(b)' = startsOf(b) /\ startsOf(b) \subseteq DOMAIN entries
      BY <1>0, <2>2, <2>5 DEF JournalTypes, startsOf
    <3>2. \A i \in startsOf(b), j \in completions(b) : entries'[i].day <= entries'[j].day
      BY <1>1, <2>3 DEF CompletedOnce, startsOf, completions
    <3>3. \A i \in startsOf(b), r \in autofixing(b) : entries'[i].day <= fixing'[r].day
      BY <1>1, <2>3, <3>1 DEF CompletedOnce
    <3> QED BY <1>2, <2>1, <2>3, <3>1, <3>2, <3>3 DEF CompletedOnce
  <2> QED BY <2>4, <2>5
<1> QED BY <1>2, <1>3, <1>4 DEF AutofixInvariant

(* A session is completed, by itself or by a run of autofix.                 *)
LEMMA CompletionStep ==
  ASSUME AutofixInvariant, NEW a \in Agent, NEW day \in 0..MaxDay, day <= today,
         append(a, day, "work_completed", {}), UNCHANGED <<today, contested, autofixes>>,
         work[a] # "none", \A i \in startsOf(a) : entries[i].day <= day,
         \/ work[a] = "started" /\ work' = [work EXCEPT ![a] = "completed"] /\ UNCHANGED fixing
         \/ UNCHANGED work /\ \E r \in autofixing(a) : fixing' = [fixing EXCEPT ![r].left = @ \ {a}]
  PROVE  AutofixInvariant'
<1> DEFINE n == Len(entries) + 1
<1>0. JournalTypes /\ (\A i \in DOMAIN entries : entries[i].day <= today)
      /\ today \in Nat /\ \A r \in Run : fixing[r].day <= today
  BY JournalAssumption DEF AutofixInvariant, JournalTypes
<1>a. {} \in Ownership
  BY DEF Ownership
<1>1. /\ entries' \in Seq(Entry) /\ n \notin DOMAIN entries
      /\ DOMAIN entries' = DOMAIN entries \cup {n}
      /\ \A i \in DOMAIN entries : entries'[i] = entries[i] /\ entries[i].day \in Nat
      /\ entries'[n].day = day /\ entries'[n].session = a
      /\ entries'[n].event = "work_completed"
  BY <1>0, <1>a, AppendedEntry
<1> HIDE DEF n
<1>2. /\ fixing' \in [Run -> [day : 0..MaxDay, left : SUBSET Agent]]
      /\ \A r \in Run : fixing'[r].day = fixing[r].day
      /\ \A b \in Agent \ {a} : autofixing(b)' = autofixing(b)
      /\ \/ autofixing(a)' = autofixing(a) /\ own(a)' = own(a) + 1
         \/ own(a)' = own(a) /\ \E r \in autofixing(a) : autofixing(a)' = autofixing(a) \ {r}
  <2>1. CASE work[a] = "started" /\ work' = [work EXCEPT ![a] = "completed"] /\ UNCHANGED fixing
    BY <1>0, <2>1 DEF JournalTypes, autofixing, own
  <2>2. CASE UNCHANGED work /\ \E r \in autofixing(a) : fixing' = [fixing EXCEPT ![r].left = @ \ {a}]
    <3>1. PICK r \in autofixing(a) : fixing' = [fixing EXCEPT ![r].left = @ \ {a}]
      BY <2>2
    <3>2. r \in Run /\ a \in fixing[r].left
          /\ fixing \in [Run -> [day : 0..MaxDay, left : SUBSET Agent]]
      BY <1>0 DEF autofixing, JournalTypes
    <3>3. /\ fixing' \in [Run -> [day : 0..MaxDay, left : SUBSET Agent]]
          /\ \A q \in Run : fixing'[q].day = fixing[q].day
          /\ \A q \in Run \ {r} : fixing'[q] = fixing[q]
          /\ fixing'[r].left = fixing[r].left \ {a}
      BY <3>1, <3>2
    <3>4. autofixing(a)' = autofixing(a) \ {r} /\ \A b \in Agent \ {a} : autofixing(b)' = autofixing(b)
      BY <3>2, <3>3 DEF autofixing
    <3>5. own(a)' = own(a)
      BY <2>2 DEF own
    <3> QED BY <3>3, <3>4, <3>5
  <2> QED BY <2>1, <2>2
<1>3. work' \in [Agent -> {"none", "started", "completed"}] /\ work'[a] # "none"
      /\ \A b \in Agent \ {a} : work'[b] = work[b]
  BY <1>0 DEF JournalTypes
<1>4. JournalTypes'
  BY <1>0, <1>1, <1>2, <1>3 DEF JournalTypes
<1>5. (\A i \in DOMAIN entries' : entries'[i].day <= today') /\ \A r \in Run : fixing'[r].day <= today'
  BY <1>0, <1>1, <1>2
<1>6. ASSUME NEW b \in Agent PROVE CompletedOnce(b)'
  <2>1. startsOf(b)' = startsOf(b) /\ startsOf(b) \subseteq DOMAIN entries
    BY <1>1 DEF startsOf
  <2>2. completions(b)' = IF b = a THEN completions(b) \cup {n} ELSE completions(b)
    BY <1>1 DEF completions
  <2>3. CompletedOnce(b) /\ n \notin completions(b) /\ completions(b) \subseteq DOMAIN entries
    BY <1>1 DEF AutofixInvariant, completions
  <2>4. \A i \in startsOf(b), j \in completions(b) : entries'[i].day <= entries'[j].day
    BY <1>1, <2>1, <2>3 DEF CompletedOnce
  <2>5. autofixing(b)' \subseteq autofixing(b) /\ autofixing(b) \subseteq Run /\ contested'[b] = contested[b]
    BY <1>2, Runs
  <2>6. \A i \in startsOf(b), r \in autofixing(b)' : entries'[i].day <= fixing'[r].day
    BY <1>1, <1>2, <2>1, <2>3, <2>5 DEF CompletedOnce
  <2>7. CASE b # a
    <3>1. work'[b] = work[b] /\ autofixing(b)' = autofixing(b) /\ completions(b)' = completions(b)
      BY <1>2, <1>3, <2>2, <2>7
    <3>2. own(b)' = own(b)
      BY <3>1 DEF own
    <3> QED BY <2>1, <2>3, <2>4, <2>5, <2>6, <3>1, <3>2 DEF CompletedOnce
  <2>8. CASE b = a
    <3>1. IsFiniteSet(completions(b)') /\ Cardinality(completions(b)') = Cardinality(completions(b)) + 1
          /\ Cardinality(completions(b)) \in Nat
      BY <2>2, <2>3, <2>8, FS_AddElement, FS_CardinalityType DEF CompletedOnce
    <3>2. IsFiniteSet(autofixing(b)) /\ Cardinality(autofixing(b)) \in Nat
      BY Runs, FS_Subset, FS_CardinalityType
    <3>3. \/ Cardinality(autofixing(b)') = Cardinality(autofixing(b)) /\ own(b)' = own(b) + 1
          \/ Cardinality(autofixing(b)') = Cardinality(autofixing(b)) - 1 /\ own(b)' = own(b)
      BY <1>2, <2>8, <3>2, FS_RemoveElement
    <3>4. own(b) \in Nat /\ contested[b] \in Nat
      BY <1>0 DEF own, JournalTypes
    <3>5. Cardinality(completions(b)') + Cardinality(autofixing(b)') <= 1 + own(b)' + contested'[b]
      BY <2>3, <2>5, <3>1, <3>2, <3>3, <3>4 DEF CompletedOnce
    <3>6. work'[b] # "none"
      BY <1>3, <2>8
    <3>7. \A i \in startsOf(b), j \in completions(b)' : entries'[i].day <= entries'[j].day
      BY <1>1, <2>1, <2>2, <2>4, <2>8
    <3> QED BY <2>1, <2>6, <3>1, <3>5, <3>6, <3>7 DEF CompletedOnce
  <2> QED BY <2>7, <2>8
<1> QED BY <1>4, <1>5, <1>6 DEF AutofixInvariant

(* Autofix takes no session that has been completed: what completes it is    *)
(* not older than what began it.                                             *)
LEMMA OrphansAreOpen ==
  ASSUME AutofixInvariant, NEW a \in orphans
  PROVE  a \in Agent /\ startsOf(a) # {} /\ completions(a) = {}
<1>0. today \in Nat
  BY JournalAssumption DEF AutofixInvariant, JournalTypes
<1>1. PICK i \in DOMAIN entries : /\ entries[i].day \in {today, today - 1}
                                  /\ entries[i].event = "work_started" /\ entries[i].session = a
  BY DEF orphans
<1>2. a \in Agent /\ i \in startsOf(a)
  <2>1. entries[i] \in Entry
    BY <1>1 DEF AutofixInvariant, JournalTypes
  <2> QED BY <1>1, <2>1 DEF Entry, startsOf
<1>3. ASSUME NEW j \in completions(a) PROVE FALSE
  <2>1. /\ j \in DOMAIN entries /\ entries[j].session = a /\ entries[j].event = "work_completed"
        /\ entries[j].day <= today /\ entries[i].day <= entries[j].day
    BY <1>2, <1>3 DEF completions, AutofixInvariant, CompletedOnce
  <2>2. entries[j] \in Entry
    BY <2>1 DEF AutofixInvariant, JournalTypes
  <2>3. entries[j].day \in Nat
    BY <2>2, JournalAssumption DEF Entry
  <2>4. entries[j].day \in {today, today - 1}
    BY <1>0, <1>1, <2>1, <2>3
  <2> QED BY <2>1, <2>4 DEF orphans
<1> QED BY <1>2, <1>3

LEMMA AutofixStep ==
  ASSUME AutofixInvariant, cmdAutofix
  PROVE  AutofixInvariant'
<1> DEFINE new == autofixes + 1
<1>0. /\ JournalTypes /\ autofixes \in Nat /\ today \in 0..MaxDay /\ today \in Nat
      /\ fixing \in [Run -> [day : 0..MaxDay, left : SUBSET Agent]] /\ contested \in [Agent -> Nat]
      /\ \A r \in Run : fixing[r].day <= today
  BY JournalAssumption DEF AutofixInvariant, JournalTypes
<1>1. PICK found \in SUBSET orphans \ {{}} :
        /\ fixing' = [fixing EXCEPT ![autofixes + 1] = [day |-> today, left |-> found]]
        /\ contested' = [a \in Agent |->
             contested[a] + (IF a \in found /\ autofixing(a) # {} THEN 1 ELSE 0)]
  BY DEF cmdAutofix
<1>2. autofixes' = new /\ UNCHANGED <<entries, today, work>> /\ new \in Run
  BY <1>0, JournalAssumption DEF cmdAutofix, Run
<1>3. found \subseteq Agent
  BY OrphansAreOpen
<1>4. /\ fixing' \in [Run -> [day : 0..MaxDay, left : SUBSET Agent]]
      /\ fixing'[new].day = today /\ fixing'[new].left = found
      /\ \A r \in Run \ {new} : fixing'[r] = fixing[r]
  BY <1>0, <1>1, <1>2, <1>3
<1>5. contested' \in [Agent -> Nat]
      /\ \A a \in Agent : contested'[a] = contested[a] + (IF a \in found /\ autofixing(a) # {} THEN 1 ELSE 0)
  BY <1>0, <1>1
<1>6. JournalTypes'
  BY <1>0, <1>2, <1>4, <1>5 DEF JournalTypes
<1> HIDE DEF new
<1>7. ASSUME NEW a \in Agent PROVE CompletedOnce(a)'
  <2>1. completions(a)' = completions(a) /\ startsOf(a)' = startsOf(a) /\ own(a)' = own(a)
    BY <1>2 DEF completions, startsOf, own
  <2>2. CompletedOnce(a) /\ contested[a] \in Nat /\ own(a) \in Nat
    BY <1>0 DEF AutofixInvariant, own
  <2>3. \A i \in startsOf(a) : i \in DOMAIN entries /\ entries[i].day <= today
    BY DEF AutofixInvariant, startsOf
  <2>4. autofixing(a)' = IF a \in found THEN autofixing(a) \cup {new} ELSE autofixing(a) \ {new}
    BY <1>2, <1>4 DEF autofixing
  <2>5. \A i \in startsOf(a), r \in autofixing(a)' : entries'[i].day <= fixing'[r].day
    <3>1. ASSUME NEW i \in startsOf(a), NEW r \in autofixing(a)' PROVE entries[i].day <= fixing'[r].day
      <4>1. CASE r = new
        BY <1>4, <2>3, <4>1
      <4>2. CASE r # new
        <5>1. r \in autofixing(a) /\ fixing'[r] = fixing[r]
          BY <1>4, <2>4, <3>1, <4>2 DEF autofixing
        <5> QED BY <2>2, <5>1 DEF CompletedOnce
      <4> QED BY <4>1, <4>2
    <3> QED BY <1>2, <2>1, <3>1
  <2>6. /\ IsFiniteSet(autofixing(a)) /\ Cardinality(autofixing(a)) \in Nat
        /\ IsFiniteSet(completions(a)) /\ Cardinality(completions(a)) \in Nat
    BY <2>2, Runs, FS_Subset, FS_CardinalityType DEF CompletedOnce
  <2>7. Cardinality(completions(a)) + Cardinality(autofixing(a)') <= 1 + own(a) + contested'[a]
    <3>1. CASE a \notin found
      <4>0. contested'[a] = contested[a] + 0
        BY <1>5, <3>1, Zenon
      <4>1. autofixing(a)' \subseteq autofixing(a) /\ contested'[a] = contested[a]
        BY <2>2, <2>4, <3>1, <4>0
      <4>2. Cardinality(autofixing(a)') <= Cardinality(autofixing(a)) /\ Cardinality(autofixing(a)') \in Nat
        BY <2>6, <4>1, FS_Subset, FS_CardinalityType
      <4> QED BY <2>2, <2>6, <4>1, <4>2 DEF CompletedOnce
    <3>2. CASE a \in found /\ autofixing(a) = {}
      <4>0. contested'[a] = contested[a] + 0
        BY <1>5, <3>2, Zenon
      <4>1. autofixing(a)' = {new} /\ completions(a) = {} /\ contested'[a] = contested[a]
        BY <2>2, <2>4, <3>2, <4>0, OrphansAreOpen
      <4>2. Cardinality(autofixing(a)') = 1 /\ Cardinality(completions(a)) = 0
        BY <4>1, FS_Singleton, FS_EmptySet, Zenon
      <4> QED BY <2>2, <4>1, <4>2
    <3>3. CASE a \in found /\ autofixing(a) # {}
      <4>0. contested'[a] = contested[a] + 1
        BY <1>5, <3>3, Zenon
      <4>1. autofixing(a)' = autofixing(a) \cup {new} /\ contested'[a] = contested[a] + 1
        BY <2>4, <3>3, <4>0
      <4>2. Cardinality(autofixing(a)') \in {Cardinality(autofixing(a)), Cardinality(autofixing(a)) + 1}
        BY <2>6, <4>1, FS_AddElement
      <4> QED BY <2>2, <2>6, <4>1, <4>2 DEF CompletedOnce
    <3> QED BY <3>1, <3>2, <3>3
  <2>8. autofixing(a)' # {} => work[a] # "none"
    BY <2>2, <2>4, OrphansAreOpen DEF CompletedOnce
  <2> QED BY <1>2, <2>1, <2>2, <2>5, <2>7, <2>8 DEF CompletedOnce
<1>8. (\A i \in DOMAIN entries' : entries'[i].day <= today') /\ \A r \in Run : fixing'[r].day <= today'
  BY <1>0, <1>2, <1>4 DEF AutofixInvariant
<1> QED BY <1>6, <1>7, <1>8 DEF AutofixInvariant

LEMMA AutofixInvariantStep == AutofixInvariant /\ [JournalNext]_journalVars => AutofixInvariant'
<1> SUFFICES ASSUME AutofixInvariant, [JournalNext]_journalVars PROVE AutofixInvariant'
  OBVIOUS
<1>0. /\ {} \in Ownership /\ {{}} \in Ownership /\ \A p \in JournalPath : {{p}} \in Ownership
      /\ today \in 0..MaxDay /\ today <= today /\ JournalTypes
      /\ \A a \in Agent : \A i \in startsOf(a) : entries[i].day <= today
  <2>1. {} \in Ownership /\ {{}} \in Ownership /\ \A p \in JournalPath : {{p}} \in Ownership
    BY DEF Ownership
  <2>2. today \in 0..MaxDay /\ today <= today /\ JournalTypes
    BY JournalAssumption DEF AutofixInvariant, JournalTypes
  <2>3. \A a \in Agent : \A i \in startsOf(a) : entries[i].day <= today
    BY DEF AutofixInvariant, startsOf
  <2> QED BY <2>1, <2>2, <2>3
<1>1. ASSUME NEW a \in Agent, NEW ownership \in Ownership, StartWork(a, ownership) PROVE AutofixInvariant'
  BY <1>1, OtherEntryStep DEF StartWork, cmdAppend
<1>2. ASSUME NEW a \in Agent, CompleteWork(a) PROVE AutofixInvariant'
  <2>1. work[a] = "started" /\ work' = [work EXCEPT ![a] = "completed"]
        /\ append(a, today, "work_completed", {}) /\ UNCHANGED <<today, fixing, contested, autofixes>>
    BY <1>2 DEF CompleteWork, cmdAppend
  <2> QED BY <1>0, <2>1, CompletionStep
<1>3. ASSUME NEW a \in Agent, NEW ownership \in Ownership, Release(a, ownership) PROVE AutofixInvariant'
  BY <1>3, OtherEntryStep DEF Release, cmdAppend
<1>4. ASSUME NEW a \in Agent, NEW p \in JournalPath, Claim(a, p) PROVE AutofixInvariant'
  BY <1>0, <1>4, OtherEntryStep DEF Claim, cmdAppend
<1>5. ASSUME NEW a \in Agent, NEW r \in Run, completeOrphan(r, a) PROVE AutofixInvariant'
  <2>1. /\ r \in autofixing(a) /\ append(a, fixing[r].day, "work_completed", {})
        /\ fixing' = [fixing EXCEPT ![r].left = @ \ {a}]
        /\ UNCHANGED <<today, work, contested, autofixes>>
    BY <1>5 DEF completeOrphan, autofixing
  <2>2. fixing[r].day \in 0..MaxDay /\ fixing[r].day <= today
    BY <1>0 DEF AutofixInvariant, JournalTypes
  <2>3. work[a] # "none" /\ \A i \in startsOf(a) : entries[i].day <= fixing[r].day
    BY <2>1 DEF AutofixInvariant, CompletedOnce
  <2> QED BY <2>1, <2>2, <2>3, CompletionStep
<1>6. ASSUME UNCHANGED <<entries, work, fixing, contested, autofixes>>,
             today' \in 0..MaxDay, today' \in {today, today + 1}
      PROVE  AutofixInvariant'
  <2>1. \A a \in Agent : CompletedOnce(a)'
    BY <1>6 DEF AutofixInvariant, CompletedOnce, completions, startsOf, own, autofixing
  <2>2. JournalTypes'
    BY <1>6 DEF AutofixInvariant, JournalTypes
  <2>3. /\ \A i \in DOMAIN entries : entries[i].day \in Nat /\ entries[i].day <= today
        /\ \A r \in Run : fixing[r].day \in Nat /\ fixing[r].day <= today
        /\ today \in Nat
    <3>1. \A i \in DOMAIN entries : entries[i] \in Entry
      BY <1>0 DEF JournalTypes
    <3> QED BY <1>0, <3>1, JournalAssumption DEF AutofixInvariant, JournalTypes, Entry
  <2>4. (\A i \in DOMAIN entries' : entries'[i].day <= today') /\ \A r \in Run : fixing'[r].day <= today'
    BY <1>6, <2>3
  <2> QED BY <2>1, <2>2, <2>4 DEF AutofixInvariant
<1>7. ASSUME NEW a \in Agent, NEW p \in JournalPath, cmdPreflight(a, p)
      PROVE  UNCHANGED <<entries, work, fixing, contested, autofixes, today>>
  BY <1>7 DEF cmdPreflight
<1>8. ASSUME NEW a \in Agent, readAllLanes(a) \/ cmdSnapshot(a)
      PROVE  UNCHANGED <<entries, work, fixing, contested, autofixes, today>>
  BY <1>8 DEF readAllLanes, cmdSnapshot
<1>9. ASSUME NEW i \in DOMAIN entries, Lapse(i)
      PROVE  UNCHANGED <<entries, work, fixing, contested, autofixes, today>>
  BY <1>9 DEF Lapse
<1>10. ASSUME Midnight
       PROVE  UNCHANGED <<entries, work, fixing, contested, autofixes>> /\ today' = today + 1
              /\ today' \in 0..MaxDay
  BY <1>0, <1>10, JournalAssumption DEF Midnight
<1>11. ASSUME UNCHANGED journalVars
       PROVE  UNCHANGED <<entries, work, fixing, contested, autofixes, today>>
  BY <1>11 DEF journalVars
<1>12. /\ {{}} \cup {{{p}} : p \in JournalPath} \subseteq Ownership
       /\ {{}, {{}}} \cup {{{p}} : p \in JournalPath} \subseteq Ownership
  BY <1>0
<1>13. CASE JournalNext
  <2>1. ASSUME NEW a \in Agent,
               \/ \E ownership \in {{}} \cup {{{p}} : p \in JournalPath} : StartWork(a, ownership)
               \/ \E ownership \in {{}, {{}}} \cup {{{p}} : p \in JournalPath} : Release(a, ownership)
        PROVE  AutofixInvariant'
    BY <1>1, <1>3, <1>12, <2>1
  <2> QED BY <1>0, <1>2, <1>4, <1>5, <1>6, <1>7, <1>8, <1>9, <1>10, <1>13, <2>1, AutofixStep
          DEF JournalNext
<1> QED BY <1>0, <1>6, <1>11, <1>13

LEMMA AutofixHolds == JournalSpec => []AutofixInvariant
<1>1. JournalInit => AutofixInvariant
  <2> SUFFICES ASSUME JournalInit PROVE AutofixInvariant
    OBVIOUS
  <2>1. /\ entries = <<>> /\ DOMAIN entries = {} /\ entries \in Seq(Entry) /\ today = 0
        /\ fixing = [r \in Run |-> [day |-> 0, left |-> {}]] /\ autofixes = 0
        /\ contested = [a \in Agent |-> 0] /\ work = [a \in Agent |-> "none"]
    BY DEF JournalInit
  <2>2. JournalTypes /\ \A r \in Run : fixing[r].day = 0 /\ fixing[r].left = {}
    BY <2>1, JournalAssumption DEF JournalTypes
  <2>3. ASSUME NEW a \in Agent PROVE CompletedOnce(a)
    <3>1. completions(a) = {} /\ startsOf(a) = {} /\ autofixing(a) = {} /\ own(a) \in Nat
          /\ contested[a] = 0
      BY <2>1, <2>2 DEF completions, startsOf, autofixing, own
    <3>2. Cardinality(completions(a)) = 0 /\ Cardinality(autofixing(a)) = 0 /\ IsFiniteSet(completions(a))
      BY <3>1, FS_EmptySet, Zenon
    <3> QED BY <3>1, <3>2 DEF CompletedOnce
  <2> QED BY <2>1, <2>2, <2>3 DEF AutofixInvariant
<1> QED BY <1>1, AutofixInvariantStep, PTL DEF JournalSpec

(* For any agents, days and number of runs, autofix completes a session once *)
(* at most, on top of what the session writes itself, and once more for each *)
(* find of it by a run while another one had it to complete.                 *)
THEOREM AutofixAlwaysCompletesOnce == JournalSpec => []AutofixCompletesOnce
<1>1. AutofixInvariant => AutofixCompletesOnce
  <2> SUFFICES ASSUME AutofixInvariant, NEW a \in Agent
               PROVE  Cardinality(completions(a)) <= 1 + contested[a] + (IF work[a] = "completed" THEN 1 ELSE 0)
    BY DEF AutofixCompletesOnce
  <2>1. IsFiniteSet(autofixing(a))
    BY Runs, FS_Subset
  <2>2. /\ Cardinality(completions(a)) + Cardinality(autofixing(a)) <= 1 + own(a) + contested[a]
        /\ Cardinality(completions(a)) \in Nat /\ Cardinality(autofixing(a)) \in Nat
        /\ own(a) \in Nat /\ contested[a] \in Nat
    BY <2>1, FS_CardinalityType DEF AutofixInvariant, CompletedOnce, JournalTypes, own
  <2> QED BY <2>2 DEF own
<1> QED BY <1>1, AutofixHolds, PTL

-----------------------------------------------------------------------------
(* Who owns a path                                                           *)

afterEntry(es, s, i) == IF i \in es THEN applyEntry(s, i) ELSE s

(* The loop over the entries is a function: its recursion has a solution.    *)
LEMMA OwnershipLoop ==
  ASSUME NEW es, Len(entries) \in Nat
  PROVE  /\ ownershipAfter(es)[0] = Unowned
         /\ \A i \in 1..Len(entries) :
              ownershipAfter(es)[i] = afterEntry(es, ownershipAfter(es)[i - 1], i)
<1> DEFINE Solves(f, n) ==
             f = [i \in 0..n |-> IF i = 0 THEN Unowned ELSE afterEntry(es, f[i - 1], i)]
           Unsolved == {n \in Nat : \A f : ~Solves(f, n)}
<1>1. Unsolved = {}
  <2> SUFFICES ASSUME Unsolved # {} PROVE FALSE
    OBVIOUS
  <2>1. PICK n \in Unsolved : \A m \in Unsolved : n <= m
    BY LeastIsThere
  <2>2. CASE n = 0
    <3>1. Solves([i \in 0..n |-> Unowned], n)
      BY <2>2
    <3> QED BY <3>1
  <2>3. CASE n # 0
    <3>1. n - 1 \in Nat /\ n - 1 \notin Unsolved
      BY <2>1, <2>3
    <3>2. PICK f : Solves(f, n - 1)
      BY <3>1
    <3> DEFINE g == [i \in 0..n |-> IF i = n THEN afterEntry(es, f[n - 1], n) ELSE f[i]]
               h == [i \in 0..n |-> IF i = 0 THEN Unowned ELSE afterEntry(es, g[i - 1], i)]
    <3>3. ASSUME NEW i \in 0..n PROVE g[i] = h[i]
      <4>1. CASE i = n
        BY <2>3, <3>1, <4>1
      <4>2. CASE i # n
        <5>1. i \in 0..n - 1 /\ g[i] = f[i]
          BY <3>1, <4>2
        <5>2. f[i] = IF i = 0 THEN Unowned ELSE afterEntry(es, f[i - 1], i)
          BY <3>2, <5>1
        <5>3. i # 0 => g[i - 1] = f[i - 1]
          BY <3>1, <4>2
        <5> QED BY <5>1, <5>2, <5>3
      <4> QED BY <4>1, <4>2
    <3>4. g = h
      BY <3>3
    <3>5. Solves(g, n)
      BY <3>4
    <3> HIDE DEF Solves
    <3> QED BY <3>5
  <2> QED BY <2>2, <2>3
<1>2. \E f : Solves(f, Len(entries))
  BY <1>1
<1>3. Solves(ownershipAfter(es), Len(entries))
  BY <1>2, Zenon DEF ownershipAfter, afterEntry
<1> QED BY <1>3


(* The claims on p among the entries es up to the i-th, and what ends one:   *)
(* a later empty list, or a later list that has run out, of the same session.*)
claimsOn(es, i, p) == {k \in es \ lapsed : k <= i /\ p \in paths(entries[k])}
endsIn(es, i, last) ==
  {k \in es : /\ last < k /\ k <= i /\ entries[k].session = entries[last].session
              /\ entries[k].ownership = {{}} \/ k \in lapsed}
latestOf(S, last) == last \in S /\ \A k \in S : k <= last

(* What the state says of a path after the i-th entry.                       *)
SaysOf(es, i, p, s) ==
  /\ claimsOn(es, i, p) = {} => s.active = FALSE
  /\ \A last : latestOf(claimsOn(es, i, p), last) =>
       /\ s.owner = entries[last].session
       /\ s.active = (endsIn(es, i, last) = {})

Slot == [owner : Agent \cup {"nobody"}, active : BOOLEAN]

JournalEntries ==
  /\ entries \in Seq(Entry)
  /\ lapsed \subseteq {i \in DOMAIN entries : paths(entries[i]) # {}}

LEMMA EntryFacts ==
  ASSUME JournalEntries
  PROVE  /\ Len(entries) \in Nat /\ DOMAIN entries = 1..Len(entries)
         /\ \A i \in 1..Len(entries) : /\ entries[i] \in Entry /\ entries[i].session \in Agent
                                       /\ paths(entries[i]) \subseteq JournalPath
                                       /\ \/ entries[i].ownership = {} /\ paths(entries[i]) = {}
                                          \/ entries[i].ownership = {{}} /\ paths(entries[i]) = {}
                                          \/ /\ entries[i].ownership \notin {{}, {{}}}
                                             /\ paths(entries[i]) # {}
<1>1. entries \in Seq(Entry)
  BY DEF JournalEntries
<1>2. \A i \in 1..Len(entries) : entries[i] \in Entry
  BY <1>1
<1>3. \A e \in Entry : e.session \in Agent /\ e.ownership \in Ownership
  BY DEF Entry
<1> DEFINE Says(e) ==
             /\ paths(e) \subseteq JournalPath
             /\ \/ e.ownership = {} /\ paths(e) = {}
                \/ e.ownership = {{}} /\ paths(e) = {}
                \/ e.ownership \notin {{}, {{}}} /\ paths(e) # {}
<1>4. ASSUME NEW e \in Entry PROVE Says(e)
  <2>1. CASE e.ownership = {}
    BY <2>1 DEF paths
  <2>2. ASSUME NEW ps \in SUBSET JournalPath, e.ownership = {ps}
        PROVE  /\ paths(e) = ps
               /\ \/ e.ownership = {{}} /\ paths(e) = {}
                  \/ e.ownership \notin {{}, {{}}} /\ paths(e) # {}
    <3>1. paths(e) = ps
      BY <2>2 DEF paths
    <3> QED BY <2>2, <3>1
  <2> QED BY <1>3, <2>1, <2>2 DEF Ownership
<1>5. Len(entries) \in Nat /\ DOMAIN entries = 1..Len(entries)
  BY <1>1
<1>6. ASSUME NEW i \in 1..Len(entries) PROVE entries[i] \in Entry /\ entries[i].session \in Agent /\ Says(entries[i])
  <2> HIDE DEF Says
  <2> QED BY <1>2, <1>3, <1>4
<1> QED BY <1>5, <1>6, Zenon

(* One entry keeps what the state says of every path.                        *)
LEMMA OneEntry ==
  ASSUME JournalEntries, NEW es \in SUBSET (DOMAIN entries), NEW i \in 1..Len(entries),
         NEW s \in [JournalPath -> Slot], \A p \in JournalPath : SaysOf(es, i - 1, p, s[p])
  PROVE  /\ afterEntry(es, s, i) \in [JournalPath -> Slot]
         /\ \A p \in JournalPath : SaysOf(es, i, p, afterEntry(es, s, i)[p])
<1> DEFINE t == afterEntry(es, s, i)
           e == entries[i]
<1>0. /\ Len(entries) \in Nat /\ e \in Entry /\ e.session \in Agent /\ paths(e) \subseteq JournalPath
      /\ es \subseteq 1..Len(entries) /\ i \in Nat /\ i - 1 \in Nat
      /\ \A k \in es : k \in Nat
      /\ \/ e.ownership = {} /\ paths(e) = {}
         \/ e.ownership = {{}} /\ paths(e) = {}
         \/ e.ownership \notin {{}, {{}}} /\ paths(e) # {}
      /\ i \in lapsed => paths(e) # {}
  <2>1. /\ Len(entries) \in Nat /\ DOMAIN entries = 1..Len(entries)
        /\ entries[i] \in Entry /\ entries[i].session \in Agent /\ paths(entries[i]) \subseteq JournalPath
        /\ \/ entries[i].ownership = {} /\ paths(entries[i]) = {}
           \/ entries[i].ownership = {{}} /\ paths(entries[i]) = {}
           \/ entries[i].ownership \notin {{}, {{}}} /\ paths(entries[i]) # {}
    BY EntryFacts, Zenon
  <2>2. i \in lapsed => paths(entries[i]) # {}
    BY DEF JournalEntries
  <2> QED BY <2>1, <2>2
<1>1. \A p \in JournalPath : s[p] \in Slot /\ s[p].owner \in Agent \cup {"nobody"} /\ s[p].active \in BOOLEAN
  BY DEF Slot
<1>2. CASE i \notin es \/ e.ownership = {}
  <2>0. i \in es => e.ownership # {{}} /\ i \notin lapsed /\ paths(e) = {}
    BY <1>0, <1>2
  <2>1. t = s
    <3>1. CASE i \notin es
      BY <3>1 DEF afterEntry
    <3>2. CASE i \in es
      BY <1>2, <3>2, Zenon DEF afterEntry, applyEntry
    <3> QED BY <3>1, <3>2
  <2>2. \A p \in JournalPath : claimsOn(es, i, p) = claimsOn(es, i - 1, p)
    <3>1. ASSUME NEW p \in JournalPath, NEW k \in es, k <= i, p \in paths(entries[k])
          PROVE  k <= i - 1
      BY <1>0, <2>0, <3>1
    <3>2. \A k \in es : k <= i - 1 => k <= i
      BY <1>0
    <3> QED BY <3>1, <3>2 DEF claimsOn
  <2>3. \A last : endsIn(es, i, last) = endsIn(es, i - 1, last)
    <3>1. ASSUME NEW k \in es, k <= i, entries[k].ownership = {{}} \/ k \in lapsed
          PROVE  k <= i - 1
      BY <1>0, <2>0, <3>1
    <3>2. \A k \in es : k <= i - 1 => k <= i
      BY <1>0
    <3> QED BY <3>1, <3>2 DEF endsIn
  <2> HIDE DEF t
  <2> QED BY <2>1, <2>2, <2>3 DEF SaysOf, t
<1>3. CASE i \in es /\ (e.ownership = {{}} \/ i \in lapsed)
  <2>0. e.ownership # {} /\ (paths(e) = {} \/ i \in lapsed)
    BY <1>0, <1>3
  <2>1. t = dropAll(s, e.session)
    BY <1>3, <2>0, Zenon DEF afterEntry, applyEntry
  <2>2. ASSUME NEW p \in JournalPath
        PROVE  /\ t[p] \in Slot /\ t[p].owner = s[p].owner
               /\ s[p].owner = e.session => t[p].active = FALSE
               /\ s[p].owner # e.session => t[p].active = s[p].active
    BY <1>1, <2>1 DEF dropAll, Slot
  <2>3. t \in [JournalPath -> Slot]
    BY <1>1, <2>1 DEF dropAll, Slot
  <2> HIDE DEF t
  <2>4. \A p \in JournalPath : claimsOn(es, i, p) = claimsOn(es, i - 1, p)
    <3>1. ASSUME NEW p \in JournalPath, NEW k \in es \ lapsed, k <= i, p \in paths(entries[k])
          PROVE  k <= i - 1
      BY <1>0, <1>3, <3>1
    <3>2. \A k \in es : k <= i - 1 => k <= i
      BY <1>0
    <3> QED BY <3>1, <3>2 DEF claimsOn
  <2>5. ASSUME NEW p \in JournalPath, claimsOn(es, i, p) = {} PROVE t[p].active = FALSE
    <3>1. s[p].active = FALSE
      BY <2>4, <2>5 DEF SaysOf
    <3> QED BY <2>2, <3>1
  <2>6. ASSUME NEW p \in JournalPath, NEW last, latestOf(claimsOn(es, i, p), last)
        PROVE  /\ t[p].owner = entries[last].session
               /\ t[p].active = (endsIn(es, i, last) = {})
    <3>1. /\ s[p].owner = entries[last].session
          /\ s[p].active = (endsIn(es, i - 1, last) = {})
      BY <2>4, <2>6 DEF SaysOf
    <3>2. last \in es /\ last <= i - 1 /\ last \in Nat
      BY <1>0, <2>4, <2>6 DEF latestOf, claimsOn
    <3>3. CASE e.session = entries[last].session
      <4>1. i \in endsIn(es, i, last)
        BY <1>0, <1>3, <3>2, <3>3 DEF endsIn
      <4> QED BY <2>2, <3>1, <3>3, <4>1
    <3>4. CASE e.session # entries[last].session
      <4>1. ASSUME NEW k \in es, k <= i, entries[k].session = entries[last].session PROVE k <= i - 1
        BY <1>0, <3>4, <4>1
      <4>2. \A k \in es : k <= i - 1 => k <= i
        BY <1>0
      <4>3. endsIn(es, i, last) = endsIn(es, i - 1, last)
        BY <4>1, <4>2 DEF endsIn
      <4> QED BY <2>2, <3>1, <3>4, <4>3
    <3> QED BY <3>3, <3>4
  <2> QED BY <2>3, <2>5, <2>6 DEF SaysOf, t
<1>4. CASE i \in es /\ e.ownership \notin {{}, {{}}} /\ i \notin lapsed
  <2>0. e.ownership # {} /\ paths(e) # {}
    BY <1>0, <1>4
  <2>1. t = [p \in JournalPath |-> IF p \in paths(e) THEN [owner |-> e.session, active |-> TRUE] ELSE s[p]]
    BY <1>4, <2>0, Zenon DEF afterEntry, applyEntry
  <2>2. t \in [JournalPath -> Slot]
    BY <1>0, <1>1, <2>1 DEF Slot
  <2>3. ASSUME NEW p \in JournalPath
        PROVE  /\ p \in paths(e) => t[p].owner = e.session /\ t[p].active = TRUE
               /\ p \notin paths(e) => t[p] = s[p]
    BY <2>1
  <2> HIDE DEF t
  <2>4. \A last : endsIn(es, i, last) = endsIn(es, i - 1, last)
    <3>1. ASSUME NEW k \in es, k <= i, entries[k].ownership = {{}} \/ k \in lapsed PROVE k <= i - 1
      BY <1>0, <1>4, <3>1
    <3>2. \A k \in es : k <= i - 1 => k <= i
      BY <1>0
    <3> QED BY <3>1, <3>2 DEF endsIn
  <2>5. ASSUME NEW p \in JournalPath, p \notin paths(e) PROVE SaysOf(es, i, p, t[p])
    <3>1. claimsOn(es, i, p) = claimsOn(es, i - 1, p)
      <4>1. ASSUME NEW k \in es, k <= i, p \in paths(entries[k]) PROVE k <= i - 1
        BY <1>0, <2>5, <4>1
      <4>2. \A k \in es : k <= i - 1 => k <= i
        BY <1>0
      <4> QED BY <4>1, <4>2 DEF claimsOn
    <3>2. t[p] = s[p] /\ SaysOf(es, i - 1, p, s[p])
      BY <2>3, <2>5
    <3> QED BY <2>4, <3>1, <3>2, Zenon DEF SaysOf
  <2>6. ASSUME NEW p \in JournalPath, p \in paths(e) PROVE SaysOf(es, i, p, t[p])
    <3>1. i \in claimsOn(es, i, p)
      BY <1>0, <1>4, <2>6 DEF claimsOn
    <3>2. ASSUME NEW last, latestOf(claimsOn(es, i, p), last) PROVE last = i
      BY <1>0, <3>1, <3>2 DEF latestOf, claimsOn
    <3>3. endsIn(es, i, i) = {}
      BY <1>0 DEF endsIn
    <3>4. t[p].owner = e.session /\ t[p].active = TRUE
      BY <2>3, <2>6
    <3>5. ASSUME NEW last, latestOf(claimsOn(es, i, p), last)
          PROVE  t[p].owner = entries[last].session /\ t[p].active = (endsIn(es, i, last) = {})
      <4>1. last = i
        BY <3>2, <3>5
      <4> QED BY <3>3, <3>4, <4>1
    <3> QED BY <3>1, <3>5 DEF SaysOf
  <2> QED BY <2>2, <2>5, <2>6 DEF t
<1> QED BY <1>2, <1>3, <1>4


(* The loop says of every path, after every entry, what the entries so far   *)
(* say: the first entry after which it did not would refute OneEntry.        *)
LEMMA LoopSays ==
  ASSUME JournalEntries, NEW es \in SUBSET (DOMAIN entries)
  PROVE  /\ Len(entries) \in Nat
         /\ \A p \in JournalPath :
              SaysOf(es, Len(entries), p, ownershipAfter(es)[Len(entries)][p])
<1> DEFINE st(i) == ownershipAfter(es)[i]
           Good(i) == /\ st(i) \in [JournalPath -> Slot]
                      /\ \A p \in JournalPath : SaysOf(es, i, p, st(i)[p])
           Bad == {i \in 0..Len(entries) : ~Good(i)}
<1>0. Len(entries) \in Nat /\ es \subseteq 1..Len(entries)
  BY EntryFacts
<1>1. st(0) = Unowned /\ \A i \in 1..Len(entries) : st(i) = afterEntry(es, st(i - 1), i)
  BY <1>0, OwnershipLoop
<1>2. Good(0)
  <2>1. Unowned \in [JournalPath -> Slot] /\ \A p \in JournalPath : Unowned[p].active = FALSE
    BY DEF Unowned, Slot
  <2>2. \A p \in JournalPath : claimsOn(es, 0, p) = {}
    BY <1>0 DEF claimsOn
  <2> HIDE DEF st
  <2> QED BY <1>1, <2>1, <2>2 DEF SaysOf, latestOf
<1> HIDE DEF st
<1>3. ASSUME NEW i \in 1..Len(entries), Good(i - 1) PROVE Good(i)
  <2>1. PICK s : s = st(i - 1)
    OBVIOUS
  <2>2. s \in [JournalPath -> Slot] /\ \A p \in JournalPath : SaysOf(es, i - 1, p, s[p])
    BY <1>3, <2>1
  <2>3. /\ afterEntry(es, s, i) \in [JournalPath -> Slot]
        /\ \A p \in JournalPath : SaysOf(es, i, p, afterEntry(es, s, i)[p])
    BY <2>2, OneEntry
  <2>4. st(i) = afterEntry(es, s, i)
    BY <1>1, <2>1
  <2> QED BY <2>3, <2>4
<1> HIDE DEF Good
<1>4. Bad = {}
  <2> SUFFICES ASSUME Bad # {} PROVE FALSE
    OBVIOUS
  <2>1. Bad \in SUBSET Nat
    BY <1>0
  <2>2. PICK n \in Bad : \A m \in Bad : n <= m
    BY <2>1, LeastIsThere
  <2>3. n \in 0..Len(entries) /\ ~Good(n) /\ n # 0
    BY <1>2
  <2>4. n \in 1..Len(entries) /\ n - 1 \in 0..Len(entries) /\ n - 1 \notin Bad
    BY <1>0, <2>2, <2>3
  <2> QED BY <1>3, <2>3, <2>4
<1>5. Good(Len(entries))
  BY <1>0, <1>4
<1> QED BY <1>0, <1>5 DEF Good, st

(* Every set of numbers up to N that has an element has a greatest one.      *)
LEMMA GreatestIsThere ==
  ASSUME NEW N \in Nat, NEW S \in SUBSET (0..N), S # {}
  PROVE  latestOf(S, Max(S))
<1> DEFINE B == {n \in Nat : \A k \in S : k <= n}
<1>1. N \in B /\ B \in SUBSET Nat
  OBVIOUS
<1>2. PICK n \in B : \A m \in B : n <= m
  BY <1>1, LeastIsThere
<1>3. n \in S
  <2> SUFFICES ASSUME n \notin S PROVE FALSE
    OBVIOUS
  <2>1. \A k \in S : k \in Nat /\ k <= n /\ k # n
    BY <1>2
  <2>2. n # 0 /\ n - 1 \in Nat
    <3>1. PICK k \in S : TRUE
      OBVIOUS
    <3>2. k \in Nat /\ k <= n /\ k # n /\ n \in Nat
      BY <2>1
    <3> QED BY <3>2
  <2>3. n - 1 \in B
    BY <2>1, <2>2
  <2> QED BY <1>2, <2>2, <2>3
<1>4. \E x \in S : \A y \in S : x >= y
  BY <1>2, <1>3
<1>5. Max(S) \in S /\ \A y \in S : Max(S) >= y
  BY <1>4, Zenon DEF Max
<1> QED BY <1>5 DEF latestOf

LEMMA OwnershipIsRead == JournalEntries => OwnershipIsTheLatestClaim
<1> SUFFICES ASSUME JournalEntries, NEW a \in Agent, NEW p \in JournalPath
             PROVE  BLOCK(a, p) <=> Owned(agentLane[a], {today}, p)
  BY DEF OwnershipIsTheLatestClaim
<1> DEFINE es == readJournal(agentLane[a], {today})
           n == Len(entries)
           C == claimsOn(es, n, p)
<1>1. es \in SUBSET (DOMAIN entries) /\ n \in Nat /\ DOMAIN entries = 1..n
  BY EntryFacts DEF readJournal
<1>2. SaysOf(es, n, p, ownershipAfter(es)[n][p])
  BY <1>1, LoopSays
<1>3. BLOCK(a, p) = ownershipAfter(es)[n][p].active
  BY DEF BLOCK, buildOwnershipState
<1>4. C = {i \in es \ lapsed : p \in paths(entries[i])}
  <2>1. \A i \in es : i <= n
    BY <1>1
  <2> HIDE DEF n, es
  <2> QED BY <2>1 DEF claimsOn
<1>5. C \in SUBSET (0..n)
  <2>1. \A i \in es : i \in 0..n
    BY <1>1
  <2> HIDE DEF n, es
  <2> QED BY <2>1 DEF claimsOn
<1>6. \A last : (endsIn(es, n, last) = {})
        <=> ~\E i \in es : /\ i > last /\ entries[i].session = entries[last].session
                           /\ entries[i].ownership = {{}} \/ i \in lapsed
  <2>1. \A i \in es : i <= n
    BY <1>1
  <2> HIDE DEF n, es
  <2> QED BY <2>1 DEF endsIn
<1>7. Owned(agentLane[a], {today}, p) <=> C # {} /\ endsIn(es, n, Max(C)) = {}
  BY <1>4, <1>6, Zenon DEF Owned
<1> HIDE DEF es, n, C
<1>8. CASE C = {}
  BY <1>2, <1>3, <1>7, <1>8 DEF SaysOf, C
<1>9. CASE C # {}
  <2>1. latestOf(C, Max(C))
    BY <1>1, <1>5, <1>9, GreatestIsThere
  <2>2. ownershipAfter(es)[n][p].active = (endsIn(es, n, Max(C)) = {})
    BY <1>2, <2>1, Zenon DEF SaysOf, C
  <2> QED BY <1>3, <1>7, <1>9, <2>2
<1> QED BY <1>8, <1>9


LapsedAreClaims == lapsed \subseteq {i \in DOMAIN entries : paths(entries[i]) # {}}

LEMMA LapsedStep == AutofixInvariant /\ LapsedAreClaims /\ [JournalNext]_journalVars => LapsedAreClaims'
<1> SUFFICES ASSUME AutofixInvariant, LapsedAreClaims, [JournalNext]_journalVars
             PROVE  LapsedAreClaims'
  OBVIOUS
<1>0. /\ {} \in Ownership /\ {{}} \in Ownership /\ \A p \in JournalPath : {{p}} \in Ownership
      /\ JournalTypes /\ today \in 0..MaxDay /\ \A r \in Run : fixing[r].day \in 0..MaxDay
  BY DEF Ownership, AutofixInvariant, JournalTypes
<1>1. ASSUME NEW a \in Agent, NEW ownership \in Ownership, NEW day \in 0..MaxDay,
             NEW event \in {"work_started", "work_completed", "claimed", "released"},
             append(a, day, event, ownership), UNCHANGED lapsed
      PROVE  LapsedAreClaims'
  BY <1>0, <1>1, AppendedEntry DEF LapsedAreClaims
<1>2. ASSUME NEW i \in DOMAIN entries, Lapse(i) PROVE LapsedAreClaims'
  BY <1>2 DEF Lapse, LapsedAreClaims
<1>3. ASSUME UNCHANGED <<entries, lapsed>> PROVE LapsedAreClaims'
  BY <1>3 DEF LapsedAreClaims
<1>4. ASSUME NEW a \in Agent,
             \/ \E ownership \in {{}} \cup {{{p}} : p \in JournalPath} : StartWork(a, ownership)
             \/ \E ownership \in {{}, {{}}} \cup {{{p}} : p \in JournalPath} : Release(a, ownership)
             \/ CompleteWork(a) \/ \E r \in Run : completeOrphan(r, a)
             \/ \E p \in JournalPath : Claim(a, p)
      PROVE  LapsedAreClaims'
  <2>1. ASSUME NEW ownership \in Ownership, StartWork(a, ownership) PROVE LapsedAreClaims'
    BY <1>0, <1>1, <2>1 DEF StartWork, cmdAppend
  <2>2. CASE CompleteWork(a)
    BY <1>0, <1>1, <2>2 DEF CompleteWork, cmdAppend
  <2>3. ASSUME NEW ownership \in Ownership, Release(a, ownership) PROVE LapsedAreClaims'
    BY <1>0, <1>1, <2>3 DEF Release, cmdAppend
  <2>4. ASSUME NEW r \in Run, completeOrphan(r, a) PROVE LapsedAreClaims'
    BY <1>0, <1>1, <2>4 DEF completeOrphan
  <2>5. ASSUME NEW p \in JournalPath, Claim(a, p) PROVE LapsedAreClaims'
    BY <1>0, <1>1, <2>5 DEF Claim, cmdAppend
  <2> QED BY <1>0, <1>4, <2>1, <2>2, <2>3, <2>4, <2>5
<1>5. ASSUME NEW a \in Agent, \/ \E p \in JournalPath : cmdPreflight(a, p)
                              \/ readAllLanes(a) \/ cmdSnapshot(a)
      PROVE  LapsedAreClaims'
  BY <1>3, <1>5 DEF cmdPreflight, readAllLanes, cmdSnapshot
<1>6. ASSUME cmdAutofix \/ Midnight \/ UNCHANGED journalVars PROVE LapsedAreClaims'
  BY <1>3, <1>6 DEF cmdAutofix, Midnight, journalVars
<1> QED BY <1>2, <1>4, <1>5, <1>6 DEF JournalNext

(* For any lanes, agents, paths and entries, claims that run out and days    *)
(* that end: a preflight blocks a path just when the latest claim on it      *)
(* stands, be it made by a claim, by the start of a session or by a release. *)
THEOREM OwnershipIsAlwaysTheLatestClaim == JournalSpec => []OwnershipIsTheLatestClaim
<1>1. JournalInit => LapsedAreClaims
  BY DEF JournalInit, LapsedAreClaims
<1>2. AutofixInvariant /\ LapsedAreClaims => JournalEntries
  BY DEF AutofixInvariant, JournalTypes, LapsedAreClaims, JournalEntries
<1> QED BY <1>1, <1>2, LapsedStep, AutofixHolds, OwnershipIsRead, PTL DEF JournalSpec

-----------------------------------------------------------------------------
(* The engine of the task chains                                             *)

waitingTasks == tasks \cup followup \cup listing

(* The depth that the engine has on record, or finds when it is started.     *)
chainDepth(c) == IF engine = "off" THEN savedDepths[c] ELSE depths[c]

ChainTypes ==
  /\ depths \in [Chain -> Nat] /\ savedDepths \in [Chain -> Nat] /\ crashes \in Nat
  /\ \A t \in waitingTasks : t.chain \in Chain /\ t.as \in {"start", "followup", "foreign"}

(* A chain that has reached the limit is forgotten.                          *)
BelowTheLimit == \A c \in Chain : depths[c] < maxChainDepth /\ savedDepths[c] < maxChainDepth

FollowUpsAreKnown ==
  crashes > 0 \/ \A t \in waitingTasks : t.as = "followup" => chainDepth(t.chain) > 0 \/ t.chain \in closed

orphaned == blocked \cup {m.moved : m \in {x \in task : x.orphan}}

ChainInvariant ==
  /\ ChainTypes /\ BelowTheLimit /\ FollowUpsAreKnown
  /\ \A t \in orphaned : t.as = "foreign" \/ crashes > 0 \/ t.chain \in closed

LEMMA ProcessTaskStep ==
  ASSUME ChainInvariant, NEW t \in listing, processTask(t)
  PROVE  ChainInvariant'
<1> DEFINE depth == depthOf(t)
           full == depth = maxChainDepth \/ (depth = 0 /\ depths[t.chain] # 0)
           next == IF depth = 0 \/ full THEN {} ELSE generated(t.kind)
<1>0. /\ maxChainDepth \in Nat \ {0} /\ t \in waitingTasks /\ t.chain \in Chain
      /\ t.as \in {"start", "followup", "foreign"}
      /\ depths[t.chain] \in Nat /\ depths[t.chain] < maxChainDepth
  BY ChainAssumption DEF ChainInvariant, ChainTypes, BelowTheLimit, waitingTasks
<1>1. depth \in 0..maxChainDepth /\ (depth = 0 => t.as # "start" /\ depths[t.chain] = 0)
  BY <1>0 DEF depthOf
<1>2. /\ engine = "next" /\ engine' \in {"move", "write"}
      /\ listing' \subseteq listing /\ UNCHANGED <<tasks, blocked, savedDepths, crashes>>
      /\ task' = {[moved |-> t, orphan |-> depth = 0]}
      /\ depths' = [depths EXCEPT ![t.chain] = IF full THEN 0 ELSE depth]
      /\ closed' = IF full THEN closed \cup {t.chain} ELSE closed
      /\ followup' = {[chain |-> t.chain, kind |-> k, as |-> "followup",
                       number |-> followups[t.chain]] : k \in next}
  BY Zenon DEF processTask
<1>3. \A f \in followup' : f.chain = t.chain /\ f.as = "followup" /\ depth # 0 /\ ~full
  BY <1>2
<1>4. closed \subseteq closed' /\ (full => t.chain \in closed')
  BY <1>2
<1>5. (full <=> depth = maxChainDepth) /\ (~full => depth < maxChainDepth)
  BY <1>0, <1>1
<1> HIDE DEF depth, full, next
<1>6. /\ depths' \in [Chain -> Nat] /\ \A c \in Chain : depths'[c] < maxChainDepth
      /\ depths'[t.chain] = IF full THEN 0 ELSE depth
      /\ \A c \in Chain \ {t.chain} : depths'[c] = depths[c]
  BY <1>0, <1>1, <1>2, <1>5 DEF ChainInvariant, ChainTypes, BelowTheLimit
<1>7. waitingTasks' \subseteq waitingTasks \cup followup'
  BY <1>2 DEF waitingTasks
<1>8. ChainTypes' /\ BelowTheLimit'
  BY <1>0, <1>2, <1>3, <1>6, <1>7 DEF ChainInvariant, ChainTypes, BelowTheLimit
<1>9. ASSUME crashes = 0, NEW u \in waitingTasks', u.as = "followup"
      PROVE  depths'[u.chain] > 0 \/ u.chain \in closed'
  <2>1. CASE u \in followup'
    BY <1>1, <1>3, <1>6, <2>1
  <2>2. CASE u \in waitingTasks
    <3>1. u.chain \in Chain /\ (depths[u.chain] > 0 \/ u.chain \in closed)
      BY <1>2, <1>9, <2>2 DEF ChainInvariant, ChainTypes, FollowUpsAreKnown, chainDepth
    <3>2. CASE u.chain # t.chain
      BY <1>4, <1>6, <3>1, <3>2
    <3>3. CASE u.chain = t.chain
      BY <1>1, <1>4, <1>6, <3>1, <3>3
    <3> QED BY <3>2, <3>3
  <2> QED BY <1>7, <2>1, <2>2
<1>10. FollowUpsAreKnown'
  <2>1. crashes' = crashes /\ engine' # "off" /\ crashes \in Nat
    BY <1>2 DEF ChainInvariant, ChainTypes
  <2> QED BY <1>9, <2>1 DEF FollowUpsAreKnown, chainDepth
<1>11. ASSUME NEW u \in orphaned', u.as # "foreign"
       PROVE  crashes' > 0 \/ u.chain \in closed'
  <2>1. CASE u \in blocked
    BY <1>2, <1>4, <1>11, <2>1 DEF ChainInvariant, orphaned
  <2>2. CASE u = t /\ depth = 0
    BY <1>0, <1>1, <1>2, <1>4, <1>11, <2>2 DEF ChainInvariant, ChainTypes, FollowUpsAreKnown, chainDepth
  <2>3. \A x \in task' : x.moved = t /\ (x.orphan => depth = 0)
    <3>1. [moved |-> t, orphan |-> depth = 0].moved = t
      OBVIOUS
    <3>2. [moved |-> t, orphan |-> depth = 0].orphan = (depth = 0)
      OBVIOUS
    <3>3. ASSUME NEW x \in task' PROVE x = [moved |-> t, orphan |-> depth = 0]
      BY <1>2, Zenon
    <3>4. ASSUME NEW x \in task', x.orphan PROVE depth = 0
      BY <3>2, <3>3, <3>4, Zenon
    <3>5. ASSUME NEW x \in task' PROVE x.moved = t
      BY <3>1, <3>3, Zenon
    <3> QED BY <3>4, <3>5
  <2>4. u \in blocked \/ \E x \in task' : x.orphan /\ u = x.moved
    BY <1>2, <1>11 DEF orphaned
  <2> QED BY <2>1, <2>2, <2>3, <2>4
<1> QED BY <1>8, <1>10, <1>11 DEF ChainInvariant

LEMMA ChainStep == ChainInvariant /\ [ChainNext]_chainVars => ChainInvariant'
<1> SUFFICES ASSUME ChainInvariant, [ChainNext]_chainVars PROVE ChainInvariant'
  OBVIOUS
<1> USE DEF ChainInvariant, ChainTypes, BelowTheLimit, FollowUpsAreKnown, waitingTasks, orphaned,
            chainDepth
<1>1. ASSUME NEW c \in Chain, PostTask(c) PROVE ChainInvariant'
  <2>1. /\ UNCHANGED <<blocked, savedDepths, chainMemory, crashes, closed>>
        /\ \A t \in tasks' : t \in tasks \/ (t.chain = c /\ t.as = "start")
    BY <1>1 DEF PostTask
  <2> QED BY <2>1 DEF chainMemory
<1>a. ASSUME NEW c \in Chain, NEW k \in TaskKinds, PostForeign(c, k) PROVE ChainInvariant'
  <2>1. /\ UNCHANGED <<blocked, savedDepths, chainMemory, crashes, closed>>
        /\ \A t \in tasks' : t \in tasks \/ (t.chain = c /\ t.as = "foreign")
    BY <1>a DEF PostForeign
  <2> QED BY <2>1 DEF chainMemory
<1>2. CASE startEngine
  BY <1>2 DEF startEngine
<1>3. CASE scanInbox
  BY <1>3 DEF scanInbox
<1>4. ASSUME NEW f \in followup, writeFollowup(f) PROVE ChainInvariant'
  <2>1. /\ tasks' \subseteq tasks \cup followup /\ followup' \subseteq followup
        /\ engine = "write" /\ engine' \in {"move", "write"}
        /\ UNCHANGED <<blocked, savedDepths, depths, listing, task, crashes, closed>>
    BY <1>4 DEF writeFollowup
  <2> QED BY <2>1
<1>5. CASE moveTask
  BY <1>5 DEF moveTask
<1>6. CASE endIteration
  BY <1>6 DEF endIteration
<1>7. ASSUME NEW t \in listing, processTask(t) PROVE ChainInvariant'
  BY <1>7, ProcessTaskStep
<1>8. CASE CrashEngine
  <2>1. /\ crashes' = crashes + 1 /\ savedDepths' \in {savedDepths, NoChains}
        /\ listing' = {} /\ task' = {} /\ followup' = {} /\ UNCHANGED <<tasks, blocked, depths, closed>>
    BY <1>8 DEF CrashEngine
  <2>2. savedDepths' \in [Chain -> Nat] /\ \A c \in Chain : savedDepths'[c] < maxChainDepth
    BY <2>1, ChainAssumption DEF NoChains
  <2>3. crashes' \in Nat /\ crashes' > 0
    BY <2>1
  <2> QED BY <2>1, <2>2, <2>3
<1>9. CASE UNCHANGED chainVars
  BY <1>9 DEF chainVars, chainMemory
<1> QED BY <1>1, <1>a, <1>2, <1>3, <1>4, <1>5, <1>6, <1>7, <1>8, <1>9, Zenon DEF ChainNext, engineStep

(* For any chains, limits, messages from elsewhere and number of deaths, a   *)
(* follow-up of the engine itself ends up as an orphan only after a death of *)
(* the engine, or when its chain was completed.                              *)
THEOREM OrphansAreAlwaysExplained == ChainSpec => []OrphansAreExplained
<1>1. ChainInit => ChainInvariant
  BY ChainAssumption DEF ChainInit, NoChains, ChainInvariant, ChainTypes, BelowTheLimit,
                         FollowUpsAreKnown, waitingTasks, orphaned
<1>2. ChainInvariant => OrphansAreExplained
  BY DEF ChainInvariant, orphaned, OrphansAreExplained
<1> QED BY <1>1, <1>2, ChainStep, PTL DEF ChainSpec

-----------------------------------------------------------------------------
(* The repair of the parking directories                                     *)

(* What no pass has moved away.                                              *)
isLive(f) == place[f] \in Parking \cup {"inbox", "handled"}

(* What a pass has read so far: nothing twice, nothing that is gone for good, *)
(* and what it read in blocked is still there.                               *)
ScanIsTrue ==
  /\ rem \in {"rest", "act"} => items = {} /\ unscanned = {}
  /\ rem # "act" => doomed = {}
  /\ \A f \in unscanned : isLive(f) /\ (rem = "blocked" => place[f] = "blocked")
  /\ \A x \in items : /\ x.file \notin unscanned /\ isLive(x.file)
                      /\ (rem = "blocked" => place[x.file] = "blocked")
  /\ \A x, y \in items : x.file = y.file => x = y

RemediatorInvariant == RemediatorTypeOK /\ ScanIsTrue /\ FreshIsKept

(* Of the retries of a message, the pass spares the one that it keeps, or    *)
(* has read it as stale.                                                     *)
LEMMA JudgeItemsStep ==
  ASSUME RemediatorInvariant, judgeItems
  PROVE  RemediatorInvariant'
<1>0. /\ rem = "quarantine" /\ unscanned = {} /\ rem' = "act" /\ items' = {}
      /\ dropped' = {x.file : x \in {y \in doomed' : ~y.stale}}
      /\ UNCHANGED <<place, born, arrivals, staleFiles, unscanned, reaped, passes>>
  BY Zenon DEF judgeItems
<1>1. PICK kept \in [retriedMessages -> items] :
        /\ \A b \in retriedMessages : kept[b] \in mayBeKept(b)
        /\ doomed' = duplicates(kept) \cup {x \in items : x.stale /\ ruleOf(x.file) # "contradicts"}
        /\ agedOut' = {b \in retriedMessages : kept[b].stale}
  BY Zenon DEF judgeItems
<1>2. items \subseteq Item /\ \A x \in items : x.file \in Parked /\ isLive(x.file)
  BY DEF RemediatorInvariant, RemediatorTypeOK, ScanIsTrue, Item
<1>3. \A b : retries(b) \subseteq items
  BY DEF retries
<1>4. doomed' \subseteq items
  BY <1>1, <1>3 DEF duplicates
<1>5. retriedMessages \subseteq {baseOf[f] : f \in Parked}
  BY <1>2 DEF retriedMessages
<1>6. dropped' \subseteq Parked
  BY <1>0, <1>2, <1>4
<1>7. agedOut' \subseteq {baseOf[f] : f \in Parked}
  BY <1>1, <1>5
<1>8. RemediatorTypeOK'
  BY <1>0, <1>2, <1>4, <1>6, <1>7 DEF RemediatorInvariant, RemediatorTypeOK
<1>9. ScanIsTrue'
  BY <1>0 DEF ScanIsTrue
<1>10. ASSUME NEW f \in dropped'
       PROVE  baseOf[f] # NoBase /\ (baseOf[f] \in agedOut' \/ spared(f)' # {})
  <2>1. PICK y \in doomed' : ~y.stale /\ y.file = f
    BY <1>0
  <2>2. y \in duplicates(kept)
    BY <1>1, <2>1
  <2>3. PICK b \in retriedMessages : y \in retries(b) \ {kept[b]}
    BY <2>2 DEF duplicates
  <2>4. baseOf[f] = b /\ b # NoBase /\ y \in items
    BY <2>1, <2>3 DEF retries, ruleOf
  <2> DEFINE k == kept[b]
  <2>5. k \in items /\ baseOf[k.file] = b /\ k # y
    BY <1>1, <2>3 DEF mayBeKept, retries
  <2>6. CASE k.stale
    BY <1>1, <2>3, <2>4, <2>6
  <2>7. CASE ~k.stale
    <3>1. ASSUME NEW x \in doomed', x.file = k.file PROVE FALSE
      <4>1. x = k
        BY <1>4, <2>5, <3>1 DEF RemediatorInvariant, ScanIsTrue
      <4>2. k \in duplicates(kept)
        BY <1>1, <2>7, <3>1, <4>1
      <4>3. PICK c \in retriedMessages : k \in retries(c) \ {kept[c]}
        BY <4>2 DEF duplicates
      <4>4. c = b
        BY <2>5, <4>3 DEF retries
      <4> QED BY <4>3, <4>4
    <3>2. k.file \in Parked \ {f} /\ isLive(k.file)'
      BY <1>0, <1>2, <2>1, <2>4, <2>5 DEF RemediatorInvariant, ScanIsTrue, isLive
    <3> HIDE DEF k
    <3>3. k.file \in spared(f)'
      BY <2>4, <2>5, <3>1, <3>2 DEF spared, isLive
    <3> QED BY <2>4, <3>3
  <2> QED BY <2>6, <2>7
<1>11. FreshIsKept'
  BY <1>10 DEF FreshIsKept
<1> QED BY <1>8, <1>9, <1>11 DEF RemediatorInvariant

(* What a pass spares stays spared, as long as nothing is doomed anew and    *)
(* nothing that is live and not doomed is moved away.                        *)
LEMMA SparedStays ==
  ASSUME RemediatorInvariant, UNCHANGED <<dropped, agedOut>>, doomed' \subseteq doomed,
         \A g \in Parked \ {x.file : x \in doomed} : isLive(g) => isLive(g)'
  PROVE  FreshIsKept'
<1>1. ASSUME NEW f \in dropped
      PROVE  baseOf[f] # NoBase /\ (baseOf[f] \in agedOut \/ spared(f)' # {})
  <2>1. baseOf[f] # NoBase /\ (baseOf[f] \in agedOut \/ spared(f) # {})
    BY DEF RemediatorInvariant, FreshIsKept
  <2>2. ASSUME NEW g \in spared(f) PROVE g \in spared(f)'
    <3>1. g \in Parked \ {f} /\ baseOf[g] = baseOf[f] /\ isLive(g) /\ g \notin {x.file : x \in doomed}
      BY <2>2 DEF spared, isLive
    <3>2. isLive(g)' /\ g \notin {x.file : x \in doomed'}
      BY <3>1
    <3> QED BY <3>1, <3>2 DEF spared, isLive
  <2> QED BY <2>1, <2>2
<1> QED BY <1>1 DEF FreshIsKept

(* A step of the surroundings moves one file between live places.            *)
LEMMA SurroundingsStep ==
  ASSUME RemediatorInvariant, NEW f \in Parked,
         NEW d \in Parking \cup {"inbox", "handled"},
         place[f] # "blocked", place' = [place EXCEPT ![f] = d],
         UNCHANGED <<unscanned, items, doomed, dropped, agedOut, rem>>
  PROVE  ScanIsTrue' /\ FreshIsKept'
<1>1. place'[f] = d /\ isLive(f)' /\ \A g \in Parked \ {f} : place'[g] = place[g]
  BY DEF RemediatorInvariant, RemediatorTypeOK, isLive
<1>2. \A g \in Parked : isLive(g) => isLive(g)'
  BY <1>1 DEF isLive
<1>3. \A g \in Parked : place[g] = "blocked" => place'[g] = "blocked"
  BY <1>1
<1>4. unscanned \subseteq Parked /\ \A x \in items : x.file \in Parked
  BY DEF RemediatorInvariant, RemediatorTypeOK, Item
<1>5. ScanIsTrue'
  BY <1>2, <1>3, <1>4 DEF RemediatorInvariant, ScanIsTrue
<1>6. FreshIsKept'
  BY <1>2, SparedStays
<1> QED BY <1>5, <1>6

LEMMA RemediateStep ==
  ASSUME RemediatorInvariant, NEW x \in doomed, remediate(x)
  PROVE  RemediatorInvariant'
<1>0. /\ rem = "act" /\ doomed' = doomed \ {x}
      /\ place' = IF place[x.file] = x.dir
                  THEN [place EXCEPT ![x.file] =
                          IF ruleOf(x.file) = "lease" THEN "expired" ELSE "archive"]
                  ELSE place
      /\ UNCHANGED <<born, arrivals, staleFiles, unscanned, items, dropped, agedOut, rem, reaped, passes>>
  BY Zenon DEF remediate
<1>1. x.file \in Parked /\ place \in [Parked -> Parking \cup {"nowhere", "inbox", "handled", "archive", "expired"}]
  BY DEF RemediatorInvariant, RemediatorTypeOK, Item
<1>2. \A g \in Parked \ {x.file} : place'[g] = place[g]
  BY <1>0, <1>1
<1>3. place' \in [Parked -> Parking \cup {"nowhere", "inbox", "handled", "archive", "expired"}]
  BY <1>0, <1>1
<1>4. RemediatorTypeOK'
  BY <1>0, <1>3 DEF RemediatorInvariant, RemediatorTypeOK
<1>5. items = {} /\ unscanned = {}
  BY <1>0 DEF RemediatorInvariant, ScanIsTrue
<1>6. ScanIsTrue'
  BY <1>0, <1>5 DEF ScanIsTrue
<1>7. \A g \in Parked \ {y.file : y \in doomed} : isLive(g) => isLive(g)'
  BY <1>2 DEF isLive
<1>8. FreshIsKept'
  BY <1>0, <1>7, SparedStays
<1> QED BY <1>4, <1>6, <1>8 DEF RemediatorInvariant

LEMMA ScanItemStep ==
  ASSUME RemediatorInvariant, NEW f \in Parked, scanItem(f)
  PROVE  RemediatorInvariant'
<1> DEFINE seen == [file |-> f, dir |-> rem, time |-> born[f], stale |-> f \in staleFiles]
           gone == [file |-> f, dir |-> rem, time |-> MaxArrivals + 1, stale |-> FALSE]
           item == IF place[f] = rem THEN seen ELSE gone
<1>0. /\ rem \in Parking /\ f \in unscanned /\ unscanned' = unscanned \ {f}
      /\ items' = items \cup {item} /\ MaxArrivals \in Nat
      /\ UNCHANGED <<place, born, arrivals, staleFiles, doomed, dropped, agedOut, rem, reaped, passes>>
  BY RemediatorAssumption DEF scanItem
<1>1. item.file = f
  OBVIOUS
<1>2. item \in Item
  <2>1. born[f] \in 0..MaxArrivals + 1 /\ MaxArrivals + 1 \in 0..MaxArrivals + 1
    BY <1>0 DEF RemediatorInvariant, RemediatorTypeOK
  <2>2. (f \in staleFiles) \in BOOLEAN
    OBVIOUS
  <2>3. {seen, gone} \subseteq Item
    BY <1>0, <2>1, <2>2 DEF Item
  <2> QED BY <2>3
<1> HIDE DEF item
<1>3. RemediatorTypeOK'
  BY <1>0, <1>2 DEF RemediatorInvariant, RemediatorTypeOK
<1>4. isLive(f) /\ (rem = "blocked" => place[f] = "blocked")
  BY <1>0 DEF RemediatorInvariant, ScanIsTrue
<1>5. \A y \in items' : y = item \/ (y \in items /\ y.file # f)
  BY <1>0 DEF RemediatorInvariant, ScanIsTrue
<1>6. \A y \in items' : /\ y.file \notin unscanned' /\ isLive(y.file)'
                        /\ (rem' = "blocked" => place'[y.file] = "blocked")
  BY <1>0, <1>1, <1>4, <1>5 DEF RemediatorInvariant, ScanIsTrue, isLive
<1>7. \A y, z \in items' : y.file = z.file => y = z
  BY <1>1, <1>5 DEF RemediatorInvariant, ScanIsTrue
<1>8. \A g \in unscanned' : isLive(g)' /\ (rem' = "blocked" => place'[g] = "blocked")
  BY <1>0 DEF RemediatorInvariant, ScanIsTrue, isLive
<1>9. rem' \notin {"rest", "act"} /\ doomed' = {}
  BY <1>0 DEF Parking, RemediatorInvariant, ScanIsTrue
<1>10. ScanIsTrue'
  BY <1>6, <1>7, <1>8, <1>9 DEF ScanIsTrue
<1>11. FreshIsKept'
  BY <1>0, SparedStays DEF isLive
<1> QED BY <1>3, <1>10, <1>11 DEF RemediatorInvariant

(* A pass begins with blocked and goes on to quarantine.                     *)
LEMMA ListStep ==
  ASSUME RemediatorInvariant, startPass \/ listQuarantine
  PROVE  RemediatorInvariant'
<1>1. CASE startPass
  <2>0. /\ rem = "rest" /\ rem' = "blocked" /\ unscanned' = {f \in Parked : place[f] = "blocked"}
        /\ passes < MaxPasses /\ passes' = passes + 1
        /\ items' = {} /\ dropped' = {} /\ agedOut' = {}
        /\ UNCHANGED <<place, born, arrivals, staleFiles, doomed, reaped>>
    BY <1>1 DEF startPass
  <2>1. RemediatorTypeOK'
    BY <2>0, RemediatorAssumption DEF RemediatorInvariant, RemediatorTypeOK, Parking
  <2>2. ScanIsTrue'
    BY <2>0 DEF RemediatorInvariant, ScanIsTrue, isLive, Parking
  <2>3. FreshIsKept'
    BY <2>0 DEF FreshIsKept
  <2> QED BY <2>1, <2>2, <2>3 DEF RemediatorInvariant
<1>2. CASE listQuarantine
  <2>0. /\ rem = "blocked" /\ unscanned = {} /\ rem' = "quarantine"
        /\ unscanned' = {f \in Parked : place[f] = "quarantine"}
        /\ UNCHANGED <<place, born, arrivals, staleFiles, items, doomed, dropped, agedOut, reaped, passes>>
    BY <1>2 DEF listQuarantine
  <2>1. RemediatorTypeOK'
    BY <2>0 DEF RemediatorInvariant, RemediatorTypeOK, Parking
  <2>2. \A x \in items : place[x.file] = "blocked"
    BY <2>0 DEF RemediatorInvariant, ScanIsTrue
  <2>3. ScanIsTrue'
    BY <2>0, <2>2 DEF RemediatorInvariant, ScanIsTrue, isLive, Parking
  <2>4. FreshIsKept'
    BY <2>0, SparedStays DEF isLive
  <2> QED BY <2>1, <2>3, <2>4 DEF RemediatorInvariant
<1> QED BY <1>1, <1>2

LEMMA RemediatorStep == RemediatorInvariant /\ [RemediatorNext]_remediatorVars => RemediatorInvariant'
<1> SUFFICES ASSUME RemediatorInvariant, [RemediatorNext]_remediatorVars PROVE RemediatorInvariant'
  OBVIOUS
<1>1. ASSUME NEW f \in Parked, NEW d \in Parking, Park(f, d) PROVE RemediatorInvariant'
  <2>0. /\ place[f] \in {"nowhere", "inbox"} /\ place' = [place EXCEPT ![f] = d]
        /\ arrivals < MaxArrivals /\ arrivals' = arrivals + 1
        /\ born' = [born EXCEPT ![f] = arrivals + 1] /\ staleFiles' = staleFiles \ {f}
        /\ UNCHANGED <<unscanned, items, doomed, dropped, agedOut, rem, reaped, passes>>
    BY <1>1 DEF Park
  <2>1. RemediatorTypeOK'
    BY <2>0, RemediatorAssumption DEF RemediatorInvariant, RemediatorTypeOK
  <2> QED BY <2>0, <2>1, SurroundingsStep DEF RemediatorInvariant
<1>2. ASSUME NEW f \in Parked, Handle(f) PROVE RemediatorInvariant'
  <2>0. /\ place[f] = "inbox" /\ place' = [place EXCEPT ![f] = "handled"]
        /\ UNCHANGED <<born, arrivals, staleFiles, unscanned, items, doomed, dropped, agedOut, rem,
                       reaped, passes>>
    BY <1>2 DEF Handle
  <2>1. RemediatorTypeOK'
    BY <2>0 DEF RemediatorInvariant, RemediatorTypeOK
  <2> QED BY <2>0, <2>1, SurroundingsStep DEF RemediatorInvariant
<1>3. ASSUME NEW f \in Parked, TakeBack(f) PROVE RemediatorInvariant'
  <2>0. /\ place[f] = "quarantine" /\ place' = [place EXCEPT ![f] = "inbox"]
        /\ reaped < MaxTaken /\ reaped' = reaped + 1
        /\ UNCHANGED <<born, arrivals, staleFiles, unscanned, items, doomed, dropped, agedOut, rem, passes>>
    BY <1>3 DEF TakeBack
  <2>1. RemediatorTypeOK'
    BY <2>0, RemediatorAssumption DEF RemediatorInvariant, RemediatorTypeOK
  <2> QED BY <2>0, <2>1, SurroundingsStep DEF RemediatorInvariant
<1>4. ASSUME UNCHANGED <<place, unscanned, items, doomed, dropped, agedOut, rem>>
      PROVE  ScanIsTrue' /\ FreshIsKept'
  <2>1. ScanIsTrue'
    BY <1>4 DEF RemediatorInvariant, ScanIsTrue, isLive
  <2> QED BY <1>4, <2>1, SparedStays DEF isLive
<1>5. ASSUME NEW f \in Parked, DayGoesBy(f) PROVE RemediatorInvariant'
  <2>0. /\ staleFiles' = staleFiles \cup {g \in Parked : born[g] > 0 /\ born[g] <= born[f]}
        /\ UNCHANGED <<place, born, arrivals, unscanned, items, doomed, dropped, agedOut, rem, reaped, passes>>
    BY <1>5 DEF DayGoesBy
  <2>1. RemediatorTypeOK'
    BY <2>0 DEF RemediatorInvariant, RemediatorTypeOK
  <2> QED BY <1>4, <2>0, <2>1 DEF RemediatorInvariant
<1>6. CASE endRemediation
  <2>0. /\ rem = "act" /\ doomed = {} /\ rem' = "rest"
        /\ UNCHANGED <<place, born, arrivals, staleFiles, unscanned, items, doomed, dropped, agedOut,
                       reaped, passes>>
    BY <1>6 DEF endRemediation
  <2>1. RemediatorTypeOK'
    BY <2>0 DEF RemediatorInvariant, RemediatorTypeOK
  <2>2. ScanIsTrue'
    BY <2>0 DEF RemediatorInvariant, ScanIsTrue
  <2>3. FreshIsKept'
    BY <2>0, SparedStays DEF isLive
  <2> QED BY <2>1, <2>2, <2>3 DEF RemediatorInvariant
<1>7. CASE UNCHANGED remediatorVars
  <2>0. UNCHANGED <<place, born, arrivals, staleFiles, unscanned, items, doomed, dropped, agedOut, rem,
                    reaped, passes>>
    BY <1>7 DEF remediatorVars
  <2>1. RemediatorTypeOK'
    BY <2>0 DEF RemediatorInvariant, RemediatorTypeOK
  <2> QED BY <1>4, <2>0, <2>1 DEF RemediatorInvariant
<1> QED
  BY <1>1, <1>2, <1>3, <1>5, <1>6, <1>7, ScanItemStep, JudgeItemsStep, RemediateStep, ListStep
     DEF RemediatorNext

LEMMA RemediatorInvariantAlways == RemediatorSpec => []RemediatorInvariant
<1>1. RemediatorInit => RemediatorInvariant
  BY RemediatorAssumption DEF RemediatorInit, RemediatorInvariant, RemediatorTypeOK, ScanIsTrue, FreshIsKept
<1>2. RemediatorInvariant /\ [RemediatorNext]_remediatorVars => RemediatorInvariant'
  BY RemediatorStep
<1> QED BY <1>1, <1>2, PTL DEF RemediatorSpec

(* For any parked files, retries and number of passes, a pass that moves     *)
(* away what it read as fresh spares another retry of the message, which     *)
(* stays parked or went back to the inbox, or has read the one that it keeps *)
(* as stale.                                                                 *)
THEOREM FreshIsAlwaysKept == RemediatorSpec => []FreshIsKept
<1>1. RemediatorInvariant => FreshIsKept
  BY DEF RemediatorInvariant
<1> QED BY <1>1, RemediatorInvariantAlways, PTL

LEMMA RemediatorTypesAlways == RemediatorSpec => []RemediatorTypeOK
<1>1. RemediatorInvariant => RemediatorTypeOK
  BY DEF RemediatorInvariant
<1> QED BY <1>1, RemediatorInvariantAlways, PTL

-----------------------------------------------------------------------------
(* The memory of the sessions                                                *)

(* What is left of a list when all but the last of it is cut off.            *)
LEMMA TrimmedIs ==
  ASSUME NEW s \in Seq(Nat)
  PROVE  /\ trimmed(s) \in Seq(Nat)
         /\ Len(trimmed(s)) = IF Len(s) > maxSessions THEN maxSessions ELSE Len(s)
         /\ \A i \in 1..Len(trimmed(s)) : trimmed(s)[i] = s[Len(s) - Len(trimmed(s)) + i]
<1>0. maxSessions \in Nat /\ Len(s) \in Nat /\ \A i \in 1..Len(s) : s[i] \in Nat
  BY MemoryAssumption
<1>1. PICK k : k = (IF Len(s) > maxSessions THEN maxSessions ELSE Len(s))
  OBVIOUS
<1>2. k \in 0..Len(s)
  <2>1. CASE Len(s) > maxSessions
    BY <1>0, <1>1, <2>1
  <2>2. CASE ~(Len(s) > maxSessions)
    BY <1>0, <1>1, <2>2
  <2> QED BY <2>1, <2>2
<1>3. PICK m : m = Len(s) - k + 1
  OBVIOUS
<1>4. m \in 1..Len(s) + 1 /\ Len(s) - m + 1 = k
  BY <1>0, <1>2, <1>3
<1>5. trimmed(s) = SubSeq(s, m, Len(s))
  BY <1>1, <1>3 DEF trimmed
<1>6. m \in Int /\ Len(s) \in Int /\ \A i \in m..Len(s) : s[i] \in Nat
  BY <1>0, <1>4
<1>7. trimmed(s) \in Seq(Nat) /\ Len(trimmed(s)) = k
  <2>1. SubSeq(s, m, Len(s)) \in Seq(Nat)
    BY <1>6
  <2>2. m <= Len(s) => Len(SubSeq(s, m, Len(s))) = Len(s) - m + 1
    BY <1>6
  <2>3. m > Len(s) => Len(SubSeq(s, m, Len(s))) = 0
    BY <1>6
  <2> QED BY <1>0, <1>2, <1>4, <1>5, <2>1, <2>2, <2>3
<1>8. ASSUME NEW i \in 1..k PROVE trimmed(s)[i] = s[Len(s) - k + i]
  <2>1. m + i - 1 = Len(s) - k + i
    BY <1>0, <1>2, <1>3
  <2>2. i \in 1..Len(s) - m + 1
    BY <1>4
  <2>3. SubSeq(s, m, Len(s))[i] = s[m + i - 1]
    BY <1>6, <2>2
  <2> QED BY <1>5, <2>1, <2>3
<1> QED BY <1>1, <1>7, <1>8

LEMMA TrimmedAgain ==
  ASSUME NEW s \in Seq(Nat), NEW c \in Nat
  PROVE  trimmed(Append(trimmed(s), c)) = trimmed(Append(s, c))
<1>0. maxSessions \in Nat \ {0}
  BY MemoryAssumption
<1> DEFINE t == trimmed(s)
           a == Append(t, c)
           b == Append(s, c)
<1>1. /\ t \in Seq(Nat) /\ Len(t) = IF Len(s) > maxSessions THEN maxSessions ELSE Len(s)
      /\ \A i \in 1..Len(t) : t[i] = s[Len(s) - Len(t) + i]
  BY TrimmedIs
<1> HIDE DEF t
<1>2. /\ a \in Seq(Nat) /\ Len(a) = Len(t) + 1 /\ a[Len(t) + 1] = c
      /\ \A i \in 1..Len(t) : a[i] = t[i]
  BY <1>1
<1>3. /\ b \in Seq(Nat) /\ Len(b) = Len(s) + 1 /\ b[Len(s) + 1] = c
      /\ \A i \in 1..Len(s) : b[i] = s[i]
  OBVIOUS
<1> HIDE DEF a, b
<1>4. /\ trimmed(a) \in Seq(Nat)
      /\ Len(trimmed(a)) = IF Len(a) > maxSessions THEN maxSessions ELSE Len(a)
      /\ \A i \in 1..Len(trimmed(a)) : trimmed(a)[i] = a[Len(a) - Len(trimmed(a)) + i]
  BY <1>2, TrimmedIs
<1>5. /\ trimmed(b) \in Seq(Nat)
      /\ Len(trimmed(b)) = IF Len(b) > maxSessions THEN maxSessions ELSE Len(b)
      /\ \A i \in 1..Len(trimmed(b)) : trimmed(b)[i] = b[Len(b) - Len(trimmed(b)) + i]
  BY <1>3, TrimmedIs
<1>6. Len(s) \in Nat /\ Len(t) \in 0..Len(s)
  <2>1. Len(s) \in Nat /\ Len(t) \in Nat
    BY <1>1
  <2> QED BY <1>0, <1>1, <2>1
<1>7. Len(trimmed(a)) = Len(trimmed(b))
  BY <1>0, <1>1, <1>2, <1>3, <1>4, <1>5, <1>6
<1>8. ASSUME NEW i \in 1..Len(trimmed(a)) PROVE trimmed(a)[i] = trimmed(b)[i]
  <2> DEFINE k == Len(trimmed(a))
  <2>1. trimmed(a)[i] = a[Len(a) - k + i] /\ trimmed(b)[i] = b[Len(b) - k + i]
    BY <1>4, <1>5, <1>7
  <2>2. k \in 1..Len(a) /\ k = (IF Len(t) + 1 > maxSessions THEN maxSessions ELSE Len(t) + 1)
    BY <1>0, <1>2, <1>4, <1>6
  <2>5. i \in 1..k
    OBVIOUS
  <2>6. k <= Len(t) + 1
    BY <1>0, <1>6, <2>2
  <2> HIDE DEF k
  <2>3. CASE i = k
    BY <1>2, <1>3, <1>6, <2>1, <2>2, <2>3
  <2>4. CASE i < k
    <3>0. k \in Nat /\ i \in Nat /\ 1 <= i /\ i + 1 <= k /\ k <= Len(t) + 1 /\ Len(t) <= Len(s)
          /\ Len(t) \in Nat /\ Len(s) \in Nat
      BY <1>6, <2>2, <2>4, <2>5, <2>6
    <3>1. Len(t) + 1 - k + i \in 1..Len(t) /\ Len(s) + 1 - k + i \in 1..Len(s)
      BY <3>0
    <3>2. a[Len(t) + 1 - k + i] = s[Len(s) - Len(t) + (Len(t) + 1 - k + i)]
      BY <1>1, <1>2, <3>1
    <3>3. Len(s) - Len(t) + (Len(t) + 1 - k + i) = Len(s) + 1 - k + i
      BY <1>6, <2>2, <2>5
    <3>4. trimmed(a)[i] = a[Len(t) + 1 - k + i] /\ trimmed(b)[i] = b[Len(s) + 1 - k + i]
      <4>1. Len(a) - k + i = Len(t) + 1 - k + i /\ Len(b) - k + i = Len(s) + 1 - k + i
        <5>1. Len(a) = Len(t) + 1 /\ Len(b) = Len(s) + 1
          BY <1>2, <1>3
        <5> QED BY <3>0, <5>1
      <4> QED BY <2>1, <4>1
    <3>5. b[Len(s) + 1 - k + i] = s[Len(s) + 1 - k + i]
      BY <1>3, <3>1
    <3> QED BY <3>2, <3>3, <3>4, <3>5
  <2> QED BY <2>2, <2>3, <2>4, <2>5
<1>9. trimmed(a) = trimmed(b)
  BY <1>4, <1>5, <1>7, <1>8, SeqEqual, Zenon
<1> QED BY <1>9 DEF a, b, t

LEMMA TrimmedHolds ==
  ASSUME NEW s \in Seq(Nat), NEW c \in Nat
  PROVE  ToSet(trimmed(Append(s, c))) \subseteq ToSet(s) \cup {c}
<1> DEFINE b == Append(s, c)
<1>1. b \in Seq(Nat) /\ Len(b) = Len(s) + 1 /\ \A i \in 1..Len(s) + 1 : b[i] \in ToSet(s) \cup {c}
  BY DEF ToSet
<1> HIDE DEF b
<1>2. /\ trimmed(b) \in Seq(Nat) /\ Len(trimmed(b)) <= Len(b)
      /\ \A i \in 1..Len(trimmed(b)) : trimmed(b)[i] = b[Len(b) - Len(trimmed(b)) + i]
  <2>1. maxSessions \in Nat /\ Len(b) \in Nat
    BY <1>1, MemoryAssumption
  <2>2. /\ trimmed(b) \in Seq(Nat)
        /\ Len(trimmed(b)) = IF Len(b) > maxSessions THEN maxSessions ELSE Len(b)
        /\ \A i \in 1..Len(trimmed(b)) : trimmed(b)[i] = b[Len(b) - Len(trimmed(b)) + i]
    BY <1>1, TrimmedIs
  <2>3. Len(trimmed(b)) <= Len(b)
    BY <2>1, <2>2
  <2> QED BY <2>2, <2>3
<1>3. ASSUME NEW i \in DOMAIN trimmed(b) PROVE trimmed(b)[i] \in ToSet(s) \cup {c}
  <2>1. i \in 1..Len(trimmed(b)) /\ Len(trimmed(b)) \in Nat /\ Len(s) \in Nat
    BY <1>2
  <2>2. Len(b) - Len(trimmed(b)) + i \in 1..Len(s) + 1
    BY <1>1, <1>2, <2>1
  <2> QED BY <1>1, <1>2, <2>1, <2>2
<1> QED BY <1>3 DEF ToSet, b

alone == ~shared /\ tornWrites = 0

(* While one process at a time uses the memory, it has what the file has.    *)
MemoryIsWhole ==
  /\ readable = TRUE
  /\ \A p \in Rememberer : data[p] # {} => data[p] = {memoryFile}
  /\ \A p, q \in openers : p = q
  /\ memoryFile = [sessions |-> memoryFile.sessions, recorded |-> memoryFile.recorded,
                   current_session |-> memoryFile.current_session]

SessionsAreWhole ==
  /\ memoryFile.sessions = trimmed(archive)
  /\ begun = Len(archive) + replaced + (IF memoryFile.current_session = 0 THEN 0 ELSE 1)
  /\ memoryFile.current_session \in 0..begun
  /\ ToSet(trimmed(archive)) \subseteq (1..begun) \ {memoryFile.current_session}
  /\ memoryFile.recorded =
         {n \in notes : n[1] \in ToSet(trimmed(archive)) \cup {memoryFile.current_session}}

MemoryTypes ==
  /\ begun \in Nat /\ replaced \in Nat /\ archive \in Seq(Nat)
  /\ \A n \in notes : n[1] \in 1..begun
  /\ DOMAIN data = Rememberer

MemoryInvariant ==
  /\ tornWrites \in Nat
  /\ alone => MemoryTypes /\ MemoryIsWhole /\ SessionsAreWhole

(* A save of the only process that has the memory open.                      *)
LEMMA SaveKeepsWhole ==
  ASSUME MemoryTypes, MemoryIsWhole, alone', NEW p \in Rememberer, openers \subseteq {p},
         NEW ss, NEW c, NEW r,
         saveMemory(p, [sessions |-> ss, current_session |-> c, recorded |-> r]), tornWrites \in Nat
  PROVE  /\ MemoryIsWhole'
         /\ memoryFile'.sessions = ss /\ memoryFile'.current_session = c /\ memoryFile'.recorded = r
         /\ DOMAIN data' = Rememberer
<1> DEFINE d == [sessions |-> ss, current_session |-> c, recorded |-> r]
<1>1. memoryFile' = d /\ readable' = TRUE /\ data' = [data EXCEPT ![p] = {d}]
  BY DEF saveMemory, alone
<1>2. d.sessions = ss /\ d.current_session = c /\ d.recorded = r
  OBVIOUS
<1>3. memoryFile' = [sessions |-> memoryFile'.sessions, recorded |-> memoryFile'.recorded,
                     current_session |-> memoryFile'.current_session]
  BY <1>1
<1> HIDE DEF d
<1>4. \A q \in Rememberer : data'[q] = IF q = p THEN {memoryFile'} ELSE {}
  BY <1>1 DEF MemoryTypes, openers
<1> QED BY <1>1, <1>2, <1>3, <1>4 DEF MemoryIsWhole, MemoryTypes, openers

LEMMA OpenMemoryStep ==
  ASSUME MemoryInvariant, alone, alone', NEW p \in Rememberer, openMemory(p)
  PROVE  (MemoryTypes /\ MemoryIsWhole /\ SessionsAreWhole)'
<1>1. /\ MemoryTypes /\ MemoryIsWhole /\ SessionsAreWhole /\ openers = {} /\ loadOrCreate = memoryFile
      /\ UNCHANGED <<replaced, notes, archive>> /\ tornWrites \in Nat
  BY DEF MemoryInvariant, openMemory, alone, loadOrCreate, MemoryIsWhole
<1>2. CASE memoryFile.current_session # 0
  <2>1. /\ data' = [data EXCEPT ![p] = {memoryFile}]
        /\ UNCHANGED <<memoryFile, readable, tornWrites, begun>>
    BY <1>1, <1>2 DEF openMemory
  <2>2. \A q \in Rememberer : data'[q] = IF q = p THEN {memoryFile} ELSE {}
    BY <1>1, <2>1 DEF MemoryTypes, openers
  <2>3. MemoryIsWhole'
    BY <1>1, <2>1, <2>2 DEF MemoryIsWhole, openers
  <2>4. DOMAIN data' = Rememberer
    BY <1>1, <2>1 DEF MemoryTypes
  <2> QED BY <1>1, <2>1, <2>3, <2>4 DEF MemoryTypes, SessionsAreWhole
<1>3. CASE memoryFile.current_session = 0
  <2>1. begun' = begun + 1 /\ saveMemory(p, [memoryFile EXCEPT !.current_session = begun + 1])
    BY <1>1, <1>3 DEF openMemory
  <2>2. [memoryFile EXCEPT !.current_session = begun + 1] =
          [sessions |-> memoryFile.sessions, current_session |-> begun + 1,
           recorded |-> memoryFile.recorded]
    BY <1>1 DEF MemoryIsWhole
  <2>3. /\ MemoryIsWhole' /\ DOMAIN data' = Rememberer
        /\ memoryFile'.sessions = memoryFile.sessions
        /\ memoryFile'.current_session = begun + 1
        /\ memoryFile'.recorded = memoryFile.recorded
    BY <1>1, <2>1, <2>2, SaveKeepsWhole
  <2>4. begun \in Nat /\ \A n \in notes : n[1] \in 1..begun /\ n[1] # begun + 1 /\ n[1] # 0
    BY <1>1 DEF MemoryTypes
  <2>5. MemoryTypes'
    BY <1>1, <2>1, <2>3, <2>4 DEF MemoryTypes
  <2>6. SessionsAreWhole'
    <3>1. /\ begun' = Len(archive) + replaced + 1 /\ begun + 1 # 0 /\ begun + 1 \in 0..begun'
          /\ (1..begun) \subseteq (1..begun') \ {begun + 1}
      BY <1>1, <1>3, <2>1, <2>4 DEF SessionsAreWhole, MemoryTypes
    <3>3. ToSet(trimmed(archive)) \subseteq (1..begun') \ {begun + 1}
      BY <1>1, <3>1 DEF SessionsAreWhole
    <3>2. memoryFile.recorded = {n \in notes : n[1] \in ToSet(trimmed(archive)) \cup {begun + 1}}
      BY <1>1, <1>3, <2>4 DEF SessionsAreWhole
    <3> QED BY <1>1, <2>3, <3>1, <3>2, <3>3 DEF SessionsAreWhole
  <2> QED BY <2>3, <2>5, <2>6
<1> QED BY <1>2, <1>3

LEMMA StartSessionStep ==
  ASSUME MemoryInvariant, alone, alone', NEW p \in Rememberer, startSession(p)
  PROVE  (MemoryTypes /\ MemoryIsWhole /\ SessionsAreWhole)'
<1>1. MemoryTypes /\ MemoryIsWhole /\ SessionsAreWhole /\ tornWrites \in Nat
  BY DEF MemoryInvariant
<1> DEFINE c == memoryFile.current_session
           r == {n \in memoryFile.recorded : n[1] # c}
<1>2. PICK d \in data[p] :
        /\ begun' = begun + 1
        /\ replaced' = replaced + (IF d.current_session = 0 THEN 0 ELSE 1)
        /\ saveMemory(p, [sessions |-> d.sessions, current_session |-> begun + 1,
                          recorded |-> {n \in d.recorded : n[1] # d.current_session}])
        /\ UNCHANGED <<notes, archive, shared>>
  BY Zenon DEF startSession
<1>3. d = memoryFile /\ openers \subseteq {p}
  BY <1>1, <1>2 DEF MemoryIsWhole, openers
<1>4. /\ begun' = begun + 1 /\ UNCHANGED <<notes, archive>>
      /\ replaced' = replaced + (IF c = 0 THEN 0 ELSE 1)
      /\ saveMemory(p, [sessions |-> memoryFile.sessions, current_session |-> begun + 1,
                        recorded |-> r])
  BY <1>2, <1>3
<1>5. r = {n \in notes : n[1] \in ToSet(trimmed(archive)) \cup {begun + 1}}
  <2>1. memoryFile.recorded = {n \in notes : n[1] \in ToSet(trimmed(archive)) \cup {c}}
    BY <1>1 DEF SessionsAreWhole
  <2>2. c \notin ToSet(trimmed(archive))
    BY <1>1 DEF SessionsAreWhole
  <2>3. \A n \in notes : n[1] # begun + 1
    BY <1>1 DEF MemoryTypes
  <2> HIDE DEF c
  <2> QED BY <2>1, <2>2, <2>3
<1> HIDE DEF r
<1>6. /\ MemoryIsWhole' /\ DOMAIN data' = Rememberer
      /\ memoryFile'.sessions = memoryFile.sessions
      /\ memoryFile'.current_session = begun + 1
      /\ memoryFile'.recorded = r
  BY <1>1, <1>3, <1>4, SaveKeepsWhole
<1>7. begun \in Nat /\ replaced \in Nat /\ replaced' \in Nat /\ Len(archive) \in Nat
  BY <1>1, <1>4 DEF MemoryTypes
<1>8. MemoryTypes'
  BY <1>1, <1>4, <1>6, <1>7 DEF MemoryTypes
<1>9. SessionsAreWhole'
  <2>1. begun = Len(archive) + replaced + (IF c = 0 THEN 0 ELSE 1)
    BY <1>1 DEF SessionsAreWhole
  <2>2. begun' = Len(archive) + replaced' + 1 /\ begun + 1 # 0 /\ begun + 1 \in 0..begun'
    <3> HIDE DEF c
    <3> QED BY <1>4, <1>7, <2>1
  <2>3. (1..begun) \subseteq (1..begun') \ {begun + 1}
    BY <1>4, <1>7
  <2>4. ToSet(trimmed(archive)) \subseteq (1..begun') \ {begun + 1}
    BY <1>1, <2>3 DEF SessionsAreWhole
  <2> QED BY <1>1, <1>4, <1>5, <1>6, <2>2, <2>4 DEF SessionsAreWhole
<1> QED BY <1>6, <1>8, <1>9

LEMMA RecordNoteStep ==
  ASSUME MemoryInvariant, alone, alone', NEW p \in Rememberer, recordNote(p)
  PROVE  (MemoryTypes /\ MemoryIsWhole /\ SessionsAreWhole)'
<1>1. MemoryTypes /\ MemoryIsWhole /\ SessionsAreWhole /\ tornWrites \in Nat
  BY DEF MemoryInvariant
<1>2. PICK d \in data[p] :
        /\ d.current_session # 0
        /\ notes' = notes \cup {<<d.current_session, Cardinality(notes) + 1>>}
        /\ saveMemory(p, [d EXCEPT !.recorded = @ \cup {<<d.current_session, Cardinality(notes) + 1>>}])
        /\ UNCHANGED <<begun, replaced, archive, shared>>
  BY Zenon DEF recordNote
<1>3. d = memoryFile /\ openers \subseteq {p}
  BY <1>1, <1>2 DEF MemoryIsWhole, openers
<1> DEFINE note == <<memoryFile.current_session, Cardinality(notes) + 1>>
<1>4. [d EXCEPT !.recorded = @ \cup {<<d.current_session, Cardinality(notes) + 1>>}] =
        [sessions |-> memoryFile.sessions, current_session |-> memoryFile.current_session,
         recorded |-> memoryFile.recorded \cup {note}]
  <2>1. d = [sessions |-> memoryFile.sessions, recorded |-> memoryFile.recorded,
             current_session |-> memoryFile.current_session]
    BY <1>1, <1>3 DEF MemoryIsWhole
  <2>2. note = <<d.current_session, Cardinality(notes) + 1>>
    BY <1>3
  <2> HIDE DEF note
  <2> QED BY <2>1, <2>2
<1>5. note[1] = memoryFile.current_session /\ notes' = notes \cup {note}
  BY <1>2, <1>3
<1>6. saveMemory(p, [sessions |-> memoryFile.sessions, current_session |-> memoryFile.current_session,
                     recorded |-> memoryFile.recorded \cup {note}])
  BY <1>2, <1>4
<1> HIDE DEF note
<1>7. /\ MemoryIsWhole' /\ DOMAIN data' = Rememberer
      /\ memoryFile'.sessions = memoryFile.sessions
      /\ memoryFile'.current_session = memoryFile.current_session
      /\ memoryFile'.recorded = memoryFile.recorded \cup {note}
  BY <1>1, <1>3, <1>6, SaveKeepsWhole
<1>8. MemoryTypes'
  BY <1>1, <1>2, <1>3, <1>5, <1>7 DEF MemoryTypes, SessionsAreWhole
<1>9. SessionsAreWhole'
  BY <1>1, <1>2, <1>5, <1>7 DEF SessionsAreWhole
<1> QED BY <1>7, <1>8, <1>9

LEMMA EndSessionStep ==
  ASSUME MemoryInvariant, alone, alone', NEW p \in Rememberer, endSession(p)
  PROVE  (MemoryTypes /\ MemoryIsWhole /\ SessionsAreWhole)'
<1>1. MemoryTypes /\ MemoryIsWhole /\ SessionsAreWhole /\ tornWrites \in Nat
  BY DEF MemoryInvariant
<1> DEFINE c == memoryFile.current_session
           kept == trimmed(Append(memoryFile.sessions, c))
           r == {n \in memoryFile.recorded : n[1] \in ToSet(kept)}
<1>2. PICK d \in data[p] :
        /\ d.current_session # 0
        /\ archive' = Append(archive, d.current_session)
        /\ LET k == trimmed(Append(d.sessions, d.current_session))
           IN saveMemory(p, [sessions |-> k, current_session |-> 0,
                             recorded |-> {n \in d.recorded : n[1] \in ToSet(k)}])
        /\ UNCHANGED <<begun, replaced, notes, shared>>
  BY Zenon DEF endSession
<1>3. d = memoryFile /\ openers \subseteq {p}
  BY <1>1, <1>2 DEF MemoryIsWhole, openers
<1>4. /\ c # 0 /\ archive' = Append(archive, c) /\ UNCHANGED <<begun, replaced, notes>>
      /\ saveMemory(p, [sessions |-> kept, current_session |-> 0, recorded |-> r])
  BY <1>2, <1>3
<1>5. archive \in Seq(Nat) /\ c \in 1..begun /\ begun \in Nat /\ replaced \in Nat
      /\ begun = Len(archive) + replaced + 1 /\ c # 0 /\ c \in Nat
  BY <1>1, <1>4 DEF MemoryTypes, SessionsAreWhole
<1>6. kept = trimmed(archive')
  BY <1>1, <1>4, <1>5, TrimmedAgain DEF SessionsAreWhole
<1>7. ToSet(kept) \subseteq ToSet(trimmed(archive)) \cup {c}
  <2>1. trimmed(archive) \in Seq(Nat) /\ kept = trimmed(Append(trimmed(archive), c))
    BY <1>1, <1>5, TrimmedIs DEF SessionsAreWhole
  <2> HIDE DEF kept
  <2> QED BY <1>5, <2>1, TrimmedHolds
<1> HIDE DEF kept
<1>8. r = {n \in notes : n[1] \in ToSet(kept) \cup {0}}
  <2>1. memoryFile.recorded = {n \in notes : n[1] \in ToSet(trimmed(archive)) \cup {c}}
    BY <1>1 DEF SessionsAreWhole
  <2>2. \A n \in notes : n[1] # 0
    BY <1>1 DEF MemoryTypes
  <2> QED BY <1>7, <2>1, <2>2
<1> HIDE DEF r
<1>9. /\ MemoryIsWhole' /\ DOMAIN data' = Rememberer
      /\ memoryFile'.sessions = kept
      /\ memoryFile'.current_session = 0
      /\ memoryFile'.recorded = r
  BY <1>1, <1>3, <1>4, SaveKeepsWhole
<1>10. MemoryTypes'
  BY <1>1, <1>4, <1>5, <1>9 DEF MemoryTypes
<1>11. SessionsAreWhole'
  <2>1. Len(archive') = Len(archive) + 1 /\ Len(archive) \in Nat /\ begun \in Nat
    BY <1>1, <1>4, <1>5 DEF MemoryTypes
  <2>2. ToSet(kept) \subseteq (1..begun) \ {0}
    BY <1>1, <1>5, <1>7 DEF SessionsAreWhole
  <2> QED BY <1>4, <1>5, <1>6, <1>8, <1>9, <2>1, <2>2 DEF SessionsAreWhole
<1> QED BY <1>9, <1>10, <1>11

LEMMA MemoryStep == MemoryInvariant /\ [MemoryNext]_memoryVars => MemoryInvariant'
<1> SUFFICES ASSUME MemoryInvariant, [MemoryNext]_memoryVars PROVE MemoryInvariant'
  OBVIOUS
<1>1. tornWrites' \in {tornWrites, tornWrites + 1} /\ tornWrites \in Nat /\ (shared => shared')
  <2>1. \A p, d : saveMemory(p, d) => tornWrites' \in {tornWrites, tornWrites + 1}
    BY DEF saveMemory
  <2>2. ASSUME NEW p \in Rememberer, openMemory(p)
        PROVE  tornWrites' \in {tornWrites, tornWrites + 1} /\ (shared => shared')
    BY <2>1, <2>2 DEF openMemory
  <2>3. ASSUME NEW p \in Rememberer, startSession(p) \/ recordNote(p) \/ endSession(p)
        PROVE  tornWrites' \in {tornWrites, tornWrites + 1} /\ (shared => shared')
    <3>1. UNCHANGED shared /\ \E d : saveMemory(p, d)
      BY <2>3 DEF startSession, recordNote, endSession
    <3> QED BY <2>1, <3>1
  <2>4. ASSUME NEW p \in Rememberer, Leave(p)
        PROVE  UNCHANGED <<tornWrites, shared>>
    BY <2>4 DEF Leave
  <2>5. CASE UNCHANGED memoryVars
    BY <2>5 DEF memoryVars, MemoryInvariant
  <2> QED BY <2>2, <2>3, <2>4, <2>5 DEF MemoryInvariant, MemoryNext
<1>2. alone' => alone
  BY <1>1 DEF alone
<1>3. ASSUME NEW p \in Rememberer, Leave(p), alone'
      PROVE  (MemoryTypes /\ MemoryIsWhole /\ SessionsAreWhole)'
  <2>1. MemoryTypes /\ MemoryIsWhole /\ SessionsAreWhole
    BY <1>2, <1>3 DEF MemoryInvariant
  <2>2. /\ data' = [data EXCEPT ![p] = {}]
        /\ UNCHANGED <<memoryFile, readable, tornWrites, begun, replaced, notes, archive, shared>>
    BY <1>3 DEF Leave
  <2>3. \A q \in Rememberer : data'[q] = IF q = p THEN {} ELSE data[q]
    BY <2>1, <2>2 DEF MemoryTypes
  <2>4. MemoryIsWhole'
    BY <2>1, <2>2, <2>3 DEF MemoryIsWhole, openers
  <2> QED BY <2>1, <2>2, <2>4 DEF MemoryTypes, SessionsAreWhole
<1>4. CASE UNCHANGED memoryVars
  BY <1>4 DEF memoryVars, MemoryInvariant, alone, MemoryTypes, MemoryIsWhole, SessionsAreWhole, openers
<1>5. ASSUME MemoryNext, alone' PROVE (MemoryTypes /\ MemoryIsWhole /\ SessionsAreWhole)'
  BY <1>2, <1>3, <1>5, OpenMemoryStep, StartSessionStep, RecordNoteStep, EndSessionStep DEF MemoryNext
<1> QED BY <1>1, <1>4, <1>5 DEF MemoryInvariant

(* For any number of processes, sessions and notes and any maxSessions, what *)
(* was ended and recorded is remembered, as long as one process uses the     *)
(* memory at a time and no write is cut off.                                 *)
THEOREM SessionsAreAlwaysRemembered == MemorySpec => []SessionsAreRemembered
<1>1. MemoryInit => MemoryInvariant
  <2> SUFFICES ASSUME MemoryInit PROVE MemoryInvariant
    OBVIOUS
  <2>1. /\ memoryFile.sessions = <<>> /\ memoryFile.current_session = 0 /\ memoryFile.recorded = {}
        /\ archive = <<>> /\ notes = {} /\ begun = 0 /\ replaced = 0 /\ tornWrites = 0
        /\ memoryFile = [sessions |-> memoryFile.sessions, recorded |-> memoryFile.recorded,
                         current_session |-> memoryFile.current_session]
    BY DEF MemoryInit, FreshMemory
  <2>2. archive \in Seq(Nat) /\ Len(archive) = 0
    BY <2>1
  <2>3. trimmed(archive) = <<>>
    <3>1. trimmed(archive) \in Seq(Nat) /\ Len(trimmed(archive)) = 0
      <4>1. maxSessions \in Nat
        BY MemoryAssumption
      <4>2. /\ trimmed(archive) \in Seq(Nat)
            /\ Len(trimmed(archive)) = IF Len(archive) > maxSessions THEN maxSessions ELSE Len(archive)
        BY <2>2, TrimmedIs
      <4> QED BY <2>2, <4>1, <4>2
    <3> QED BY <3>1
  <2>6. ToSet(trimmed(archive)) = {}
    BY <2>3 DEF ToSet
  <2>4. MemoryTypes /\ SessionsAreWhole
    BY <2>1, <2>2, <2>3, <2>6 DEF MemoryInit, MemoryTypes, SessionsAreWhole
  <2>5. MemoryIsWhole
    BY <2>1 DEF MemoryInit, MemoryIsWhole, openers
  <2> QED BY <2>1, <2>4, <2>5 DEF MemoryInvariant
<1>2. MemoryInvariant => SessionsAreRemembered
  BY DEF MemoryInvariant, alone, SessionsAreWhole, SessionsAreRemembered
<1> QED BY <1>1, <1>2, MemoryStep, PTL DEF MemorySpec

-----------------------------------------------------------------------------
(* The edit leases                                                           *)

LeaseTypes ==
  /\ intents \subseteq Intent
  /\ copy \in [LeaseLane -> SUBSET SUBSET Intent]
  /\ held \in [LeaseLane -> SUBSET LeaseFile]
  /\ clock \in Nat /\ raced \in BOOLEAN /\ revived \in BOOLEAN

exclusive(is) == \A i, j \in active(is) : i.file = j.file => i = j

(* Whatever is in the file or about to be written to it is exclusive, for    *)
(* overlapping commands as well.                                             *)
Exclusive ==
  ~revived => /\ exclusive(intents)
              /\ \A l \in LeaseLane : \A c \in copy[l] : exclusive(c)

(* Without an overlap there is one command at a time, and what it writes     *)
(* has every lease given.                                                    *)
Recorded ==
  ~raced =>
    /\ \A l, k \in LeaseLane : writing(l) /\ writing(k) => l = k
    /\ \A l, k \in LeaseLane : \A c \in copy[l] : onRecord(k, c)
    /\ \A l \in LeaseLane : writing(l) \/ onRecord(l, intents)

LeaseInvariant == LeaseTypes /\ Exclusive /\ Recorded

-----------------------------------------------------------------------------
LEMMA ChangedIntent ==
  ASSUME NEW i \in Intent, NEW s \in {"planning", "editing", "done"}, NEW t \in Nat
  PROVE  LET j == [i EXCEPT !.status = s, !.expires_at = t]
         IN j \in Intent /\ j.status = s /\ j.lane = i.lane /\ j.file = i.file
BY DEF Intent

(* A command that loads the file and prepares a change to is.                *)
LEMMA LoadStep ==
  ASSUME LeaseInvariant, NEW l \in LeaseLane, NEW is \in SUBSET Intent, loadAndChange(l, is),
         held' \in [LeaseLane -> SUBSET LeaseFile], revived' \in BOOLEAN,
         ~revived' => ~revived /\ exclusive(is),
         \A k \in LeaseLane \ {l} : held'[k] = held[k],
         (\A k \in LeaseLane : onRecord(k, intents)) => \A k \in LeaseLane : onRecord(k, is)'
  PROVE  LeaseInvariant'
<1> USE DEF LeaseInvariant
<1>1. /\ ~writing(l) /\ copy' = [copy EXCEPT ![l] = {is}]
      /\ UNCHANGED <<intents, clock>>
      /\ raced' = (raced \/ \E k \in LeaseLane : writing(k))
  BY DEF loadAndChange
<1>2. LeaseTypes'
  BY <1>1 DEF LeaseTypes
<1>3. copy'[l] = {is} /\ \A k \in LeaseLane \ {l} : copy'[k] = copy[k]
  BY <1>1 DEF LeaseTypes
<1>4. Exclusive'
  BY <1>1, <1>3 DEF Exclusive, exclusive, active
<1>5. ASSUME ~raced'
      PROVE  /\ \A k, m \in LeaseLane : copy'[k] # {} /\ copy'[m] # {} => k = m
             /\ \A k, m \in LeaseLane : \A c \in copy'[k] : onRecord(m, c)'
             /\ \A k \in LeaseLane : copy'[k] # {} \/ onRecord(k, intents)'
  <2>1. ~raced /\ \A k \in LeaseLane : ~writing(k)
    BY <1>1, <1>5
  <2>2. \A k \in LeaseLane : onRecord(k, intents)
    BY <2>1 DEF Recorded
  <2>3. \A k, m \in LeaseLane : copy'[k] # {} /\ copy'[m] # {} => k = m
    BY <1>3, <2>1 DEF writing
  <2>4. \A k \in LeaseLane : onRecord(k, is)'
    BY <2>2
  <2>5. \A k, m \in LeaseLane : \A c \in copy'[k] : onRecord(m, c)'
    <3> SUFFICES ASSUME NEW k \in LeaseLane, NEW m \in LeaseLane, NEW c \in copy'[k]
                 PROVE  onRecord(m, c)'
      BY DEF onRecord
    <3>1. c = is
      BY <1>3, <2>1 DEF writing
    <3> QED BY <2>4, <3>1 DEF onRecord
  <2>6. \A k \in LeaseLane : copy'[k] # {} \/ onRecord(k, intents)'
    BY <1>1, <1>3, <2>2 DEF onRecord
  <2> QED BY <2>3, <2>5, <2>6
<1>6. Recorded'
  BY <1>5 DEF Recorded, writing, onRecord
<1> QED BY <1>2, <1>4, <1>6

LEMMA ClaimStep ==
  ASSUME LeaseInvariant, NEW l \in LeaseLane, NEW f \in LeaseFile, claim(l, f)
  PROVE  LeaseInvariant'
<1> USE LeaseAssumption DEF LeaseInvariant, LeaseTypes
<1> DEFINE new == [lane |-> l, file |-> f, status |-> "planning", expires_at |-> clock + LEASE_TTL]
           is == intents \cup {new}
<1>1. /\ {i \in active(intents) : i.file = f} = {}
      /\ loadAndChange(l, is) /\ held' = [held EXCEPT ![l] = @ \cup {f}] /\ UNCHANGED revived
  BY DEF claim
<1>2. new \in Intent /\ new.lane = l /\ new.file = f /\ new.status = "planning"
  <2>1. clock + LEASE_TTL \in Nat
    OBVIOUS
  <2> HIDE LeaseAssumption
  <2> QED BY <2>1 DEF Intent
<1> HIDE DEF new
<1>3. is \subseteq Intent
  BY <1>2
<1>4. ~revived => exclusive(is)
  <2> SUFFICES ASSUME ~revived PROVE exclusive(is)
    OBVIOUS
  <2>1. exclusive(intents)
    BY DEF Exclusive
  <2>2. \A i \in active(is) : i = new \/ (i \in active(intents) /\ i.file # f)
    BY <1>1 DEF active
  <2> QED BY <1>2, <2>1, <2>2 DEF exclusive
<1>5. /\ held'[l] = held[l] \cup {f} /\ \A k \in LeaseLane \ {l} : held'[k] = held[k]
      /\ held' \in [LeaseLane -> SUBSET LeaseFile]
  BY <1>1
<1>6. ASSUME \A k \in LeaseLane : onRecord(k, intents), NEW k \in LeaseLane, NEW g \in held'[k]
      PROVE  \E i \in is : i.lane = k /\ i.file = g /\ i.status # "done"
  <2>1. CASE k = l /\ g = f
    BY <1>2, <2>1
  <2>2. CASE ~(k = l /\ g = f)
    BY <1>5, <1>6, <2>2 DEF onRecord
  <2> QED BY <2>1, <2>2
<1>7. PICK c : c = is
  OBVIOUS
<1>8. (\A k \in LeaseLane : onRecord(k, intents)) => \A k \in LeaseLane : onRecord(k, c)'
  BY <1>6, <1>7 DEF onRecord
<1> HIDE DEF is
<1> QED BY <1>1, <1>3, <1>4, <1>5, <1>7, <1>8, LoadStep

LEMMA HeartbeatStep ==
  ASSUME LeaseInvariant, NEW l \in LeaseLane, NEW f \in LeaseFile, heartbeat(l, f)
  PROVE  LeaseInvariant'
<1> USE LeaseAssumption DEF LeaseInvariant, LeaseTypes
<1> DEFINE mine == {i \in intents : i.lane = l /\ i.file = f /\ i.status # "done"}
           renewed(i) == [i EXCEPT !.status = "editing", !.expires_at = clock + LEASE_TTL]
           is == (intents \ mine) \cup {renewed(i) : i \in mine}
<1>1. /\ loadAndChange(l, is) /\ UNCHANGED held
      /\ revived' = (revived \/ ~(mine \subseteq active(intents)))
  BY Zenon DEF heartbeat
<1>2. \A i \in intents : renewed(i) \in Intent /\ renewed(i).lane = i.lane
                         /\ renewed(i).file = i.file /\ renewed(i).status = "editing"
  <2>1. clock + LEASE_TTL \in Nat
    OBVIOUS
  <2> QED BY <2>1, ChangedIntent
<1> HIDE DEF renewed
<1>3. is \subseteq Intent
  BY <1>2
<1>4. ~revived' => ~revived /\ exclusive(is)
  <2> SUFFICES ASSUME ~revived' PROVE ~revived /\ exclusive(is)
    OBVIOUS
  <2>1. ~revived /\ mine \subseteq active(intents)
    BY <1>1
  <2>2. exclusive(intents)
    BY <2>1 DEF Exclusive
  <2>3. ASSUME NEW i \in active(is), NEW j \in active(is), i.file = j.file
        PROVE  i = j
    <3>1. PICK a \in active(intents) : (a \in mine /\ i = renewed(a)) \/ (a \notin mine /\ i = a)
      BY <2>1, <2>3 DEF active
    <3>2. PICK b \in active(intents) : (b \in mine /\ j = renewed(b)) \/ (b \notin mine /\ j = b)
      BY <2>1, <2>3 DEF active
    <3>3. a.file = i.file /\ b.file = j.file
      BY <1>2, <3>1, <3>2 DEF active
    <3>4. a = b
      BY <2>2, <2>3, <3>3 DEF exclusive
    <3> QED BY <3>1, <3>2, <3>4
  <2> QED BY <2>1, <2>3 DEF exclusive
<1>5. ASSUME \A k \in LeaseLane : onRecord(k, intents), NEW k \in LeaseLane, NEW g \in held'[k]
      PROVE  \E i \in is : i.lane = k /\ i.file = g /\ i.status # "done"
  <2>1. PICK i \in intents : i.lane = k /\ i.file = g /\ i.status # "done"
    BY <1>1, <1>5 DEF onRecord
  <2>2. CASE i \in mine
    BY <1>2, <2>1, <2>2
  <2>3. CASE i \notin mine
    BY <2>1, <2>3
  <2> QED BY <2>2, <2>3
<1>6. PICK c : c = is
  OBVIOUS
<1>7. (\A k \in LeaseLane : onRecord(k, intents)) => \A k \in LeaseLane : onRecord(k, c)'
  BY <1>5, <1>6 DEF onRecord
<1> HIDE DEF is, mine
<1>8. held' \in [LeaseLane -> SUBSET LeaseFile] /\ revived' \in BOOLEAN
      /\ \A k \in LeaseLane \ {l} : held'[k] = held[k]
  BY <1>1
<1> QED BY <1>1, <1>3, <1>4, <1>6, <1>7, <1>8, LoadStep

LEMMA ReleaseStep ==
  ASSUME LeaseInvariant, NEW l \in LeaseLane, NEW f \in LeaseFile, release(l, f)
  PROVE  LeaseInvariant'
<1> USE LeaseAssumption DEF LeaseInvariant, LeaseTypes
<1> DEFINE mine == {i \in intents : i.lane = l /\ i.file = f}
           ended(i) == [i EXCEPT !.status = "done", !.expires_at = clock]
           is == (intents \ mine) \cup {ended(i) : i \in mine}
<1>1. /\ held' = [held EXCEPT ![l] = @ \ {f}] /\ UNCHANGED revived
      /\ IF mine = {} THEN UNCHANGED <<intents, copy, clock, raced>> ELSE loadAndChange(l, is)
  BY Zenon DEF release
<1>2. /\ held'[l] = held[l] \ {f} /\ \A k \in LeaseLane \ {l} : held'[k] = held[k]
      /\ held' \in [LeaseLane -> SUBSET LeaseFile]
  BY <1>1
<1>3. CASE mine = {}
  <2>1. UNCHANGED <<intents, copy, clock, raced, revived>>
    BY <1>1, <1>3
  <2>2. Exclusive'
    BY <2>1 DEF Exclusive, exclusive, active
  <2>3. \A k \in LeaseLane : \A x : onRecord(k, x) => onRecord(k, x)'
    BY <1>2 DEF onRecord
  <2>4. Recorded'
    BY <2>1, <2>3 DEF Recorded, writing, onRecord
  <2> QED BY <1>2, <2>1, <2>2, <2>4
<1>4. CASE mine # {}
  <2>1. \A i \in intents : ended(i) \in Intent /\ ended(i).status = "done"
    BY ChangedIntent
  <2> HIDE DEF ended
  <2>2. is \subseteq Intent
    BY <2>1
  <2>3. active(is) \subseteq active(intents)
    BY <2>1 DEF active
  <2>4. ~revived => exclusive(is)
    BY <2>3 DEF Exclusive, exclusive
  <2>5. ASSUME \A k \in LeaseLane : onRecord(k, intents), NEW k \in LeaseLane,
               NEW g \in held'[k]
        PROVE  \E i \in is : i.lane = k /\ i.file = g /\ i.status # "done"
    <3>1. g \in held[k] /\ ~(k = l /\ g = f)
      BY <1>2
    <3>2. PICK i \in intents : i.lane = k /\ i.file = g /\ i.status # "done"
      BY <2>5, <3>1 DEF onRecord
    <3>3. i \in is
      BY <3>1, <3>2
    <3> QED BY <3>2, <3>3
  <2>6. PICK c : c = is
    OBVIOUS
  <2>7. (\A k \in LeaseLane : onRecord(k, intents)) => \A k \in LeaseLane : onRecord(k, c)'
    BY <2>5, <2>6 DEF onRecord
  <2>8. loadAndChange(l, is)
    BY <1>1, <1>4
  <2> HIDE DEF is, mine
  <2> QED BY <1>1, <1>2, <2>2, <2>4, <2>6, <2>7, <2>8, LoadStep
<1> QED BY <1>3, <1>4

LEMMA SaveStep ==
  ASSUME LeaseInvariant, NEW l \in LeaseLane, saveIntents(l)
  PROVE  LeaseInvariant'
<1> USE DEF LeaseInvariant, LeaseTypes
<1>1. /\ intents' \in copy[l] /\ writing(l) /\ UNCHANGED <<held, clock, raced, revived>>
      /\ copy'[l] = {} /\ \A k \in LeaseLane \ {l} : copy'[k] = copy[k]
      /\ copy' \in [LeaseLane -> SUBSET SUBSET Intent]
  BY DEF saveIntents
<1>2. LeaseTypes'
  BY <1>1
<1>3. \A k \in LeaseLane : copy'[k] \subseteq copy[k]
  BY <1>1
<1>4. Exclusive'
  BY <1>1, <1>3 DEF Exclusive, exclusive, active
<1>5. \A k \in LeaseLane : \A x : onRecord(k, x) => onRecord(k, x)'
  BY <1>1 DEF onRecord
<1>6. ASSUME ~raced PROVE \A k \in LeaseLane : onRecord(k, intents')
  BY <1>1, <1>6 DEF Recorded
<1>7. Recorded'
  BY <1>1, <1>3, <1>6 DEF Recorded, writing, onRecord
<1> QED BY <1>2, <1>4, <1>7

LEMMA TickStep ==
  ASSUME LeaseInvariant, Tick
  PROVE  LeaseInvariant'
<1> USE DEF LeaseInvariant, LeaseTypes
<1>1. clock' = clock + 1 /\ UNCHANGED <<intents, copy, held, raced, revived>>
  BY DEF Tick
<1>2. LeaseTypes'
  BY <1>1
<1>3. ASSUME NEW x \in SUBSET Intent, exclusive(x)
      PROVE  exclusive(x)'
  <2>1. \A i \in x : i.expires_at \in Nat
    BY DEF Intent
  <2>2. \A i \in x : i.expires_at >= clock + 1 => i.expires_at >= clock
    BY <2>1
  <2> QED BY <1>1, <1>3, <2>2 DEF exclusive, active
<1>4. Exclusive'
  BY <1>1, <1>3 DEF Exclusive, exclusive, active
<1>5. Recorded'
  BY <1>1 DEF Recorded, writing, onRecord
<1> QED BY <1>2, <1>4, <1>5

-----------------------------------------------------------------------------
LEMMA LeaseStart == LeaseInit => LeaseInvariant
<1> SUFFICES ASSUME LeaseInit PROVE LeaseInvariant
  OBVIOUS
<1> USE DEF LeaseInit
<1>1. LeaseTypes
  BY DEF LeaseTypes
<1>2. Exclusive
  BY DEF Exclusive, exclusive, active
<1>3. \A l \in LeaseLane : ~writing(l) /\ onRecord(l, intents)
  BY DEF writing, onRecord
<1>4. Recorded
  BY <1>3 DEF Recorded, writing
<1> QED BY <1>1, <1>2, <1>4 DEF LeaseInvariant

LEMMA LeaseStep == LeaseInvariant /\ [LeaseNext]_leaseVars => LeaseInvariant'
<1> SUFFICES ASSUME LeaseInvariant, [LeaseNext]_leaseVars PROVE LeaseInvariant'
  OBVIOUS
<1>1. CASE \E l \in LeaseLane, f \in LeaseFile : claim(l, f) \/ heartbeat(l, f) \/ release(l, f)
  BY <1>1, ClaimStep, HeartbeatStep, ReleaseStep
<1>2. CASE \E l \in LeaseLane : saveIntents(l)
  BY <1>2, SaveStep
<1>3. CASE Tick
  BY <1>3, TickStep
<1>4. CASE UNCHANGED leaseVars
  BY <1>4 DEF leaseVars, LeaseInvariant, LeaseTypes, Exclusive, Recorded, exclusive, active,
              writing, onRecord
<1> QED BY <1>1, <1>2, <1>3, <1>4 DEF LeaseNext

(* Commands that do not overlap: a lease given stays on record until it is   *)
(* given back, and no file has two leases that run, unless a heartbeat       *)
(* revived one that had run out (scripts/edit-lease-manager.js).             *)
THEOREM LeaseAlwaysExclusiveInTurn == LeaseSpec => []LeaseIsExclusiveInTurn
<1>1. LeaseInvariant => LeaseIsExclusiveInTurn
  BY DEF LeaseInvariant, Exclusive, Recorded, exclusive, LeaseIsExclusiveInTurn
<1> QED BY LeaseStart, LeaseStep, <1>1, PTL DEF LeaseSpec

-----------------------------------------------------------------------------
WritePhase == {"begin", "read", "unlink", "fill", "rename", "put", "verify", "mismatch",
               "release", "wait", "written", "threw", "giveUp", "dead"}
WriteTypes ==
  /\ lease \in {NoLease} \cup [owner : CallLane, old : BOOLEAN]
  /\ tmpLock \in CallLane \cup {NoLane}
  /\ call \in [Call -> WritePhase] /\ puts \in [Call -> 0..2]

(* Whoever is at work holds a valid lease in the name of its lane, and then  *)
(* nobody is about to put another in its place.                              *)
HoldsTheLease ==
  /\ \A c, d \in atWork : c = d
  /\ \A c \in atWork : ~lease.old /\ lease.owner = callLane[c]
  /\ ~lease.old => contending = {}
  /\ \A c, d \in contending : c = d
  /\ \A c \in Call : call[c] = "rename" => tmpLock = callLane[c]

(* Only a call that has got as far as reading back has put its content.      *)
PutsOnce ==
  \A c \in Call :
    /\ puts[c] = IF call[c] \in {"verify", "release", "written"} THEN 1
                 ELSE IF call[c] = "dead" THEN puts[c] ELSE 0
    /\ puts[c] <= 1
    /\ call[c] = "verify" => targetFile = c

WriteInvariant == WriteTypes /\ (excuses = {} => HoldsTheLease /\ PutsOnce)

LEMMA WriteStart == LeasedWriteInit => WriteInvariant
<1> SUFFICES ASSUME LeasedWriteInit PROVE WriteInvariant
  OBVIOUS
<1>1. WriteTypes
  BY DEF LeasedWriteInit, WriteTypes, WritePhase
<1>2. atWork = {} /\ contending = {}
  BY DEF LeasedWriteInit, atWork, contending
<1>3. HoldsTheLease /\ PutsOnce
  BY <1>2 DEF LeasedWriteInit, HoldsTheLease, PutsOnce, NoLease
<1> QED BY <1>1, <1>3 DEF WriteInvariant

(* What a step leaves of the types.                                          *)
LEMMA WriteTypesStep ==
  ASSUME NEW c \in Call, WriteTypes, callStep(c)
  PROVE  /\ WriteTypes'
         /\ call' = [call EXCEPT ![c] = call'[c]]
<1> USE DEF WriteTypes, WritePhase, NoLease, goes, CallLane
<1>1. CASE tryAcquireLock(c)
  BY <1>1 DEF tryAcquireLock
<1>2. CASE readLockFile(c)
  BY <1>2 DEF readLockFile
<1>3. CASE unlinkStaleLease(c)
  BY <1>3 DEF unlinkStaleLease
<1>4. CASE fillTmpLock(c)
  BY <1>4 DEF fillTmpLock
<1>5. CASE renameTmpLock(c)
  BY <1>5 DEF renameTmpLock
<1>6. CASE putContent(c)
  BY <1>6 DEF putContent, afterError
<1>7. CASE verifyContent(c)
  BY <1>7 DEF verifyContent, afterError
<1>8. CASE releaseLease(c)
  BY <1>8 DEF releaseLease
<1> QED BY <1>1, <1>2, <1>3, <1>4, <1>5, <1>6, <1>7, <1>8 DEF callStep

(* A step that meets nobody leaves the lease with its holder.                *)
LEMMA LeaseStaysHeld ==
  ASSUME NEW c \in Call, WriteTypes, HoldsTheLease, callStep(c), excuses' = {}
  PROVE  HoldsTheLease'
<1>1. WriteTypes' /\ call' = [call EXCEPT ![c] = call'[c]]
  BY WriteTypesStep
<1>2. /\ c \in contending' => contending \ {c} = {}
      /\ c \in atWork' => \A x \in atWork \ {c} : callLane[x] # callLane[c]
  BY DEF callStep
<1> USE <1>1, <1>2 DEF WriteTypes, WritePhase, NoLease, HoldsTheLease, goes, atWork, contending
<1>3. CASE tryAcquireLock(c)
  BY <1>3 DEF tryAcquireLock
<1>4. CASE readLockFile(c)
  BY <1>4 DEF readLockFile
<1>5. CASE unlinkStaleLease(c)
  BY <1>5 DEF unlinkStaleLease
<1>6. CASE fillTmpLock(c)
  BY <1>6 DEF fillTmpLock
<1>7. CASE renameTmpLock(c)
  BY <1>7, LeasedWriteAssumption DEF renameTmpLock, CallLane
<1>8. CASE putContent(c)
  BY <1>8 DEF putContent, afterError
<1>9. CASE verifyContent(c)
  BY <1>9 DEF verifyContent, afterError
<1>10. CASE releaseLease(c)
  BY <1>10 DEF releaseLease
<1> QED BY <1>3, <1>4, <1>5, <1>6, <1>7, <1>8, <1>9, <1>10 DEF callStep

LEMMA PutsStayOne ==
  ASSUME NEW c \in Call, WriteTypes, HoldsTheLease, PutsOnce, callStep(c)
  PROVE  PutsOnce'
<1>1. WriteTypes' /\ call' = [call EXCEPT ![c] = call'[c]]
  BY WriteTypesStep
<1>2. \A x \in Call : call[x] = "verify" /\ call[c] = "put" => x = c
  BY DEF HoldsTheLease, atWork
<1> USE <1>1 DEF WriteTypes, WritePhase, PutsOnce, goes
<1>3. CASE tryAcquireLock(c)
  BY <1>3 DEF tryAcquireLock
<1>4. CASE readLockFile(c)
  BY <1>4 DEF readLockFile
<1>5. CASE unlinkStaleLease(c)
  BY <1>5 DEF unlinkStaleLease
<1>6. CASE fillTmpLock(c)
  BY <1>6 DEF fillTmpLock
<1>7. CASE renameTmpLock(c)
  BY <1>7 DEF renameTmpLock
<1>8. CASE putContent(c)
  BY <1>2, <1>8 DEF putContent, afterError
<1>9. CASE verifyContent(c)
  BY <1>9 DEF verifyContent, afterError
<1>10. CASE releaseLease(c)
  BY <1>10 DEF releaseLease
<1> QED BY <1>3, <1>4, <1>5, <1>6, <1>7, <1>8, <1>9, <1>10 DEF callStep

LEMMA WriteInvariantStep == WriteInvariant /\ [LeasedWriteNext]_writeVars => WriteInvariant'
<1> SUFFICES ASSUME WriteInvariant, [LeasedWriteNext]_writeVars PROVE WriteInvariant'
  OBVIOUS
<1>1. ASSUME NEW c \in Call, callStep(c)
      PROVE  WriteInvariant'
  <2>1. excuses \subseteq excuses'
    BY <1>1 DEF callStep
  <2> QED BY <1>1, <2>1, WriteTypesStep, LeaseStaysHeld, PutsStayOne DEF WriteInvariant
<1>2. ASSUME NEW c \in Call, CallDies(c)
      PROVE  WriteInvariant'
  <2>1. WriteTypes'
    BY <1>2 DEF CallDies, WriteInvariant, WriteTypes, WritePhase
  <2>2. HoldsTheLease => HoldsTheLease'
    BY <1>2 DEF CallDies, WriteInvariant, WriteTypes, HoldsTheLease, atWork, contending
  <2>3. PutsOnce => PutsOnce'
    BY <1>2 DEF CallDies, WriteInvariant, WriteTypes, PutsOnce
  <2> QED BY <1>2, <2>1, <2>2, <2>3 DEF CallDies, WriteInvariant
<1>3. CASE LeaseRunsOut
  <2>1. WriteTypes'
    <3>1. lease \in [owner : CallLane, old : BOOLEAN]
      BY <1>3 DEF LeaseRunsOut, WriteInvariant, WriteTypes, NoLease
    <3>2. lease' \in [owner : CallLane, old : BOOLEAN]
      BY <1>3, <3>1 DEF LeaseRunsOut
    <3> QED BY <1>3, <3>2 DEF LeaseRunsOut, WriteInvariant, WriteTypes
  <2>2. HoldsTheLease /\ excuses' = {} => HoldsTheLease'
    BY <1>3 DEF LeaseRunsOut, WriteInvariant, WriteTypes, NoLease, HoldsTheLease, atWork, contending
  <2>3. PutsOnce => PutsOnce'
    BY <1>3 DEF LeaseRunsOut, PutsOnce
  <2> QED BY <1>3, <2>1, <2>2, <2>3 DEF LeaseRunsOut, WriteInvariant
<1>4. CASE UNCHANGED writeVars
  BY <1>4 DEF writeVars, WriteInvariant, WriteTypes, HoldsTheLease, PutsOnce, atWork, contending
<1> QED BY <1>1, <1>2, <1>3, <1>4 DEF LeasedWriteNext

(* Any number of calls, lanes and attempts: but for the encounters named, a  *)
(* file is written by one call at a time, each content is put in place once, *)
(* and a call that throws has not put it (scripts/util/atomic-write.js).     *)
THEOREM LeasedWritesAlwaysExclusive == LeasedWriteSpec => []LeasedWritesAreExclusive
<1>1. WriteInvariant => OneWriterUnlessExcused
  <2> SUFFICES ASSUME WriteInvariant, excuses = {} PROVE Cardinality(atWork) <= 1
    BY DEF OneWriterUnlessExcused
  <2>1. CASE atWork = {}
    BY <2>1, FS_EmptySet
  <2>2. ASSUME NEW c \in atWork PROVE Cardinality(atWork) <= 1
    <3>1. atWork = {c}
      BY DEF WriteInvariant, HoldsTheLease
    <3> QED BY <3>1, FS_Singleton
  <2> QED BY <2>1, <2>2
<1>2. WriteInvariant => WhoThrowsHasNotWritten
  BY DEF WriteInvariant, PutsOnce, WhoThrowsHasNotWritten
<1>3. WriteInvariant => LeasedWritesAreExclusive
  BY <1>1, <1>2 DEF LeasedWritesAreExclusive
<1> QED BY WriteStart, WriteInvariantStep, <1>3, PTL DEF LeasedWriteSpec

-----------------------------------------------------------------------------
(* The types of the signed items                                             *)

LEMMA VerifyItemTypes ==
  ASSUME VerificationTypeOK, NEW i \in QItem, NEW fired \in {0, 1}, fired <= timers[i],
         verifyItem(i, fired)
  PROVE  /\ keyKnown' \in BOOLEAN /\ handoff' \in BOOLEAN /\ wiped' \subseteq QItem
         /\ retryCount' \in [QItem -> Nat] /\ timers' \in [QItem -> Nat] /\ keyChanges' \in 0..MaxKeyChanges
<1> USE DEF VerificationTypeOK
<1>1. retryCount[i] + 1 \in Nat /\ timers[i] - fired \in Nat /\ (timers[i] - fired) + 1 \in Nat
  OBVIOUS
<1>2. /\ retryCount' = [retryCount EXCEPT ![i] = retryCount'[i]] /\ retryCount'[i] \in {retryCount[i] + 1, 0, retryCount[i]}
  BY DEF verifyItem
<1>3. /\ timers' = [timers EXCEPT ![i] = timers'[i]]
      /\ timers'[i] \in {(timers[i] - fired) + 1, timers[i] - fired}
  BY DEF verifyItem
<1>4. retryCount' \in [QItem -> Nat] /\ timers' \in [QItem -> Nat]
  BY <1>1, <1>2, <1>3
<1>5. UNCHANGED <<keyKnown, keyChanges>> /\ wiped' \in {{}, wiped \ {i}, wiped}
  BY DEF verifyItem
<1>6. handoff' \in BOOLEAN
  BY Zenon DEF verifyItem
<1> QED BY <1>4, <1>5, <1>6

LEMMA VerificationTypesStep == VerificationTypeOK /\ [VerificationNext]_verificationVars => VerificationTypeOK'
<1> SUFFICES ASSUME VerificationTypeOK, [VerificationNext]_verificationVars PROVE VerificationTypeOK'
  OBVIOUS
<1> USE VerificationAssumption
<1>1. ASSUME NEW i \in QItem, verify(i) PROVE VerificationTypeOK'
  <2>1. 0 \in {0, 1} /\ 0 <= timers[i]
    BY DEF VerificationTypeOK
  <2>2. calls' \in [QItem -> 0..MaxCalls]
    BY <1>1 DEF VerificationTypeOK, verify
  <2> QED BY <1>1, <2>1, <2>2, VerifyItemTypes DEF VerificationTypeOK, verify
<1>2. ASSUME NEW i \in QItem, timerFires(i) PROVE VerificationTypeOK'
  <2>1. 1 \in {0, 1} /\ 1 <= timers[i]
    BY <1>2 DEF VerificationTypeOK, timerFires
  <2>2. CASE verifyItem(i, 1)
    BY <1>2, <2>1, <2>2, VerifyItemTypes DEF VerificationTypeOK, timerFires
  <2>3. CASE ~verifyItem(i, 1)
    BY <1>2, <2>1, <2>3 DEF VerificationTypeOK, timerFires
  <2> QED BY <2>2, <2>3
<1>3. ASSUME NEW i \in QItem, forceRelease(i) PROVE VerificationTypeOK'
  BY <1>3 DEF VerificationTypeOK, forceRelease
<1>4. CASE reloadTrustStore
  BY <1>4 DEF VerificationTypeOK, reloadTrustStore
<1>5. CASE UNCHANGED verificationVars
  BY <1>5 DEF VerificationTypeOK, verificationVars
<1> QED BY <1>1, <1>2, <1>3, <1>4, <1>5 DEF VerificationNext

(* The queue has one temporary file.                                         *)
OneTempFile == \A c, d \in tempFile : c = d

LEMMA QueueTypesStart == QueueInit => OneTempFile /\ VerificationTypeOK
<1>1. QueueInit => tempFile = {} /\ VerificationInit
  BY DEF QueueInit
<1>2. ASSUME VerificationInit PROVE VerificationTypeOK
  <2>1. /\ retryCount \in [QItem -> Nat] /\ timers \in [QItem -> Nat]
        /\ calls \in [QItem -> 0..MaxCalls] /\ keyChanges \in 0..MaxKeyChanges
    BY <1>2, VerificationAssumption DEF VerificationInit
  <2>2. keyKnown \in BOOLEAN /\ handoff \in BOOLEAN /\ wiped \subseteq QItem
    BY <1>2, Zenon DEF VerificationInit
  <2> QED BY <2>1, <2>2, Zenon DEF VerificationTypeOK
<1> QED BY <1>1, <1>2 DEF OneTempFile

LEMMA QueueTypesStep ==
  QueueInvariant /\ OneTempFile /\ VerificationTypeOK /\ [QueueNext]_<<verificationVars, queueVars>>
    => QueueInvariant' /\ OneTempFile' /\ VerificationTypeOK'
<1> SUFFICES ASSUME QueueInvariant, OneTempFile, VerificationTypeOK,
                    [QueueNext]_<<verificationVars, queueVars>>
             PROVE  OneTempFile' /\ VerificationTypeOK'
  BY QueueStep
<1>1. VerificationTypeOK'
  <2>1. ASSUME NEW p \in QProcess, awaitVerification(p) PROVE VerificationTypeOK'
    <3>1. verify(update[p].item) /\ update[p] # NoUpdate
      BY <2>1 DEF awaitVerification
    <3>2. update[p].item \in QItem
      BY <3>1 DEF QueueInvariant, QueueTypes
    <3> QED BY <3>1, <3>2, VerificationTypesStep DEF VerificationNext
  <2>2. ASSUME UNCHANGED verificationVars PROVE VerificationTypeOK'
    BY <2>2, VerificationTypesStep
  <2>3. ASSUME NEW p \in QProcess, writeTemp(p) \/ renameTemp(p) \/ Die(p)
        PROVE  VerificationTypeOK'
    BY <2>2, <2>3 DEF writeTemp, renameTemp, Die
  <2>4. ASSUME NEW p \in QProcess, NEW i \in QItem, NEW to \in Decision, loadAll(p, i, to)
        PROVE  VerificationTypeOK'
    BY <2>2, <2>4 DEF loadAll
  <2>5. ASSUME NEW i \in QItem, enqueue(i) PROVE VerificationTypeOK'
    BY <2>2, <2>5 DEF enqueue
  <2>6. CASE VerificationNext
    BY <2>6, VerificationTypesStep
  <2>7. CASE QueueNext
    BY <2>1, <2>3, <2>4, <2>5, <2>6, <2>7, Zenon DEF QueueNext
  <2> QED BY <2>2, <2>7
<1>2. OneTempFile'
  <2> USE DEF OneTempFile
  <2>1. ASSUME NEW p \in QProcess, writeTemp(p) PROVE OneTempFile'
    BY <2>1 DEF writeTemp
  <2>2. ASSUME NEW p \in QProcess, renameTemp(p) PROVE OneTempFile'
    BY <2>2 DEF renameTemp
  <2>3. ASSUME UNCHANGED tempFile PROVE OneTempFile'
    BY <2>3
  <2>4. ASSUME NEW p \in QProcess, awaitVerification(p) \/ Die(p) PROVE OneTempFile'
    BY <2>3, <2>4 DEF awaitVerification, Die
  <2>5. ASSUME NEW p \in QProcess, NEW i \in QItem, NEW to \in Decision, loadAll(p, i, to)
        PROVE  OneTempFile'
    BY <2>3, <2>5 DEF loadAll
  <2>6. ASSUME NEW i \in QItem, enqueue(i) PROVE OneTempFile'
    BY <2>3, <2>6 DEF enqueue
  <2>7. ASSUME UNCHANGED queueVars PROVE OneTempFile'
    BY <2>3, <2>7 DEF queueVars
  <2>8. CASE QueueNext
    BY <2>1, <2>2, <2>4, <2>5, <2>6, <2>7, <2>8, Zenon DEF QueueNext
  <2> QED BY <2>7, <2>8
<1> QED BY <1>1, <1>2

LEMMA QueueTypesHere == QueueInvariant /\ OneTempFile => QueueTypeOK
<1> SUFFICES ASSUME QueueInvariant, OneTempFile PROVE QueueTypeOK
  OBVIOUS
<1>1. Cardinality(tempFile) <= 1
  BY AtMostOne DEF OneTempFile
<1>2. ASSUME NEW p \in QProcess
      PROVE  \/ update[p] = NoUpdate
             \/ update[p] \in [step : {"verify", "write", "rename"}, item : QItem, to : Status,
                               all : Content]
  BY DEF QueueInvariant, QueueTypes, Status
<1> QED BY <1>1, <1>2 DEF QueueInvariant, QueueTypes, QueueTypeOK

LEMMA QueueTypesAlways == QueueSpec => [](VerificationTypeOK /\ QueueTypeOK)
BY QueueStart, QueueTypesStart, QueueTypesStep, QueueTypesHere, PTL DEF QueueSpec

-----------------------------------------------------------------------------
(* The types of the journal                                                  *)

LEMMA JournalTypesStep ==
  AutofixInvariant /\ JournalTypeOK /\ [JournalNext]_journalVars => JournalTypeOK'
<1> SUFFICES ASSUME AutofixInvariant, JournalTypeOK, [JournalNext]_journalVars PROVE JournalTypeOK'
  OBVIOUS
<1> DEFINE Rest == /\ snapshot \in Nat /\ process \in [Agent -> Rendering] /\ overlapped \in BOOLEAN
                   /\ cleared \in [Agent -> {{}} \cup {{p} : p \in JournalPath}]
                   /\ autofixes \in 0..MaxAutofix /\ today \in 0..MaxDay
<1>1. JournalTypes' /\ JournalTypes
  BY AutofixInvariantStep DEF AutofixInvariant
<1>2. /\ NoCommand \in Rendering
      /\ \A n \in Nat : /\ [step |-> "read", seen |-> n] \in Rendering
                        /\ [step |-> "write", seen |-> n] \in Rendering
  BY DEF NoCommand, Rendering
<1>3. Len(entries) \in Nat /\ DOMAIN entries = 1..Len(entries)
  BY <1>1 DEF JournalTypes
<1>4. Rest
  BY Zenon DEF JournalTypeOK
<1>5. ASSUME NEW a \in Agent, NEW event, NEW ownership, cmdAppend(a, event, ownership)
      PROVE  /\ process' \in [Agent -> Rendering] /\ overlapped' \in BOOLEAN
             /\ UNCHANGED <<today, lapsed, snapshot, autofixes>> /\ lapsed' \subseteq 1..Len(entries')
  <2>1. overlapped' \in BOOLEAN /\ UNCHANGED <<today, lapsed, snapshot, autofixes>>
    BY <1>5, Zenon DEF cmdAppend
  <2>2. process' = [process EXCEPT ![a] = [step |-> "read", seen |-> 0]]
    BY <1>5 DEF cmdAppend
  <2>3. process' \in [Agent -> Rendering]
    BY <1>2, <1>4, <2>2
  <2>4. Len(entries') = Len(entries) + 1
    BY <1>1, <1>5 DEF cmdAppend, append, JournalTypes
  <2>5. lapsed \subseteq 1..Len(entries)
    BY Zenon DEF JournalTypeOK
  <2>6. lapsed' \subseteq 1..Len(entries')
    BY <1>3, <2>1, <2>4, <2>5
  <2> QED BY <2>1, <2>3, <2>6
<1>6. Rest' /\ lapsed' \subseteq 1..Len(entries')
  <2>0. lapsed \subseteq 1..Len(entries)
    BY Zenon DEF JournalTypeOK
  <2>1. ASSUME NEW a \in Agent, NEW o, StartWork(a, o) \/ CompleteWork(a) \/ Release(a, o)
        PROVE  Rest' /\ lapsed' \subseteq 1..Len(entries')
    <3>1. PICK event, ownership : cmdAppend(a, event, ownership)
      BY <2>1 DEF StartWork, CompleteWork, Release
    <3>2. cleared' = cleared
      BY <2>1 DEF StartWork, CompleteWork, Release
    <3> QED BY <1>4, <1>5, <3>1, <3>2
  <2>2. ASSUME NEW a \in Agent, NEW p \in JournalPath, Claim(a, p)
        PROVE  Rest' /\ lapsed' \subseteq 1..Len(entries')
    <3>1. cmdAppend(a, "claimed", {{p}}) /\ cleared' = [cleared EXCEPT ![a] = {}]
      BY <2>2 DEF Claim
    <3>2. cleared' \in [Agent -> {{}} \cup {{q} : q \in JournalPath}]
      BY <1>4, <3>1
    <3> QED BY <1>4, <1>5, <3>1, <3>2
  <2>3. ASSUME NEW a \in Agent, NEW p \in JournalPath, cmdPreflight(a, p)
        PROVE  Rest' /\ lapsed' \subseteq 1..Len(entries')
    BY <1>4, <2>0, <2>3 DEF cmdPreflight
  <2>4. ASSUME NEW a \in Agent, readAllLanes(a) PROVE Rest' /\ lapsed' \subseteq 1..Len(entries')
    BY <1>2, <1>3, <1>4, <2>0, <2>4 DEF readAllLanes
  <2>5. ASSUME NEW a \in Agent, cmdSnapshot(a) PROVE Rest' /\ lapsed' \subseteq 1..Len(entries')
    <3>1. process[a].seen \in Nat
      BY <1>4 DEF Rendering
    <3> QED BY <1>2, <1>4, <2>0, <2>5, <3>1 DEF cmdSnapshot
  <2>6. ASSUME NEW a \in Agent, NEW r \in Run, completeOrphan(r, a)
        PROVE  Rest' /\ lapsed' \subseteq 1..Len(entries')
    <3>1. Len(entries') = Len(entries) + 1
      BY <1>1, <2>6 DEF completeOrphan, append, JournalTypes
    <3> QED BY <1>3, <1>4, <2>0, <2>6, <3>1 DEF completeOrphan
  <2>7. ASSUME NEW i \in DOMAIN entries, Lapse(i) PROVE Rest' /\ lapsed' \subseteq 1..Len(entries')
    BY <1>3, <1>4, <2>0, <2>7 DEF Lapse
  <2>8. CASE cmdAutofix
    BY <1>4, <2>0, <2>8, JournalAssumption DEF cmdAutofix
  <2>9. CASE Midnight
    BY <1>4, <2>0, <2>9, JournalAssumption DEF Midnight
  <2>10. CASE UNCHANGED journalVars
    BY <1>4, <2>0, <2>10 DEF journalVars
  <2> HIDE DEF Rest
  <2> QED
    BY <2>1, <2>2, <2>3, <2>4, <2>5, <2>6, <2>7, <2>8, <2>9, <2>10 DEF JournalNext
<1> QED BY <1>1, <1>6, Zenon DEF JournalTypeOK, JournalTypes

LEMMA JournalTypesStart == JournalInit => JournalTypeOK
<1> SUFFICES ASSUME JournalInit PROVE JournalTypeOK
  OBVIOUS
<1>1. entries \in Seq(Entry) /\ today \in 0..MaxDay /\ snapshot \in Nat /\ autofixes \in 0..MaxAutofix
      /\ lapsed \subseteq 1..Len(entries)
  BY JournalAssumption DEF JournalInit
<1>2. NoCommand \in Rendering
  BY DEF NoCommand, Rendering
<1>3. /\ process \in [Agent -> Rendering]
      /\ work \in [Agent -> {"none", "started", "completed"}]
      /\ cleared \in [Agent -> {{}} \cup {{p} : p \in JournalPath}]
      /\ overlapped \in BOOLEAN /\ contested \in [Agent -> Nat]
  BY <1>2 DEF JournalInit
<1>4. fixing \in [Run -> [day : 0..MaxDay, left : SUBSET Agent]]
  <2>1. [day |-> 0, left |-> {}] \in [day : 0..MaxDay, left : SUBSET Agent]
    BY JournalAssumption
  <2> QED BY <2>1 DEF JournalInit
<1> QED BY <1>1, <1>3, <1>4, Zenon DEF JournalTypeOK

LEMMA JournalTypesAlways == JournalSpec => []JournalTypeOK
BY AutofixHolds, JournalTypesStart, JournalTypesStep, PTL DEF JournalSpec

-----------------------------------------------------------------------------
(* The types of the chains                                                   *)

OneAtATime == \A x, y \in task : x = y

ChainTypesOK == ChainTypeOK /\ OneAtATime

LEMMA ChainTypesStart == ChainInit => ChainTypesOK
<1> SUFFICES ASSUME ChainInit PROVE ChainTypesOK
  OBVIOUS
<1>1. Cardinality(task) = 0
  BY FS_EmptySet, Zenon DEF ChainInit
<1> QED BY <1>1, ChainAssumption DEF ChainInit, NoChains, ChainTypesOK, ChainTypeOK, OneAtATime

LEMMA ChainTypesStep == ChainTypesOK /\ [ChainNext]_chainVars => ChainTypesOK'
<1> SUFFICES ASSUME ChainTypesOK, [ChainNext]_chainVars PROVE ChainTypesOK'
  OBVIOUS
<1> USE ChainAssumption DEF ChainTypesOK
<1>0. OneAtATime' => Cardinality(task') <= 1
  BY AtMostOne DEF OneAtATime
<1>1. ASSUME NEW c \in Chain, PostTask(c) PROVE ChainTypesOK'
  <2>1. [chain |-> c, kind |-> chainKind[c], as |-> "start", number |-> origins[c]] \in Task
    BY DEF ChainTypeOK, Task
  <2>2. origins[c] \in 0..MaxOrigins /\ origins[c] + 1 \in 0..MaxOrigins
    BY <1>1 DEF ChainTypeOK, PostTask
  <2>3. origins' \in [Chain -> 0..MaxOrigins]
    BY <1>1, <2>2 DEF ChainTypeOK, PostTask
  <2>4. tasks' \subseteq Task
    BY <1>1, <2>1 DEF ChainTypeOK, PostTask
  <2> QED BY <1>1, <2>3, <2>4 DEF ChainTypeOK, OneAtATime, PostTask, chainMemory
<1>a. ASSUME NEW c \in Chain, NEW k \in TaskKinds, PostForeign(c, k) PROVE ChainTypesOK'
  <2>1. foreigners \in 0..MaxForeign /\ foreigners' \in 0..MaxForeign
    BY <1>a DEF ChainTypeOK, PostForeign
  <2>2. [chain |-> c, kind |-> k, as |-> "foreign", number |-> foreigners] \in Task
    BY <2>1 DEF Task
  <2>3. tasks' \subseteq Task
    BY <1>a, <2>2 DEF ChainTypeOK, PostForeign
  <2> QED BY <1>a, <2>1, <2>3 DEF ChainTypeOK, OneAtATime, PostForeign, chainMemory
<1>2. CASE startEngine
  BY <1>2 DEF startEngine, ChainTypeOK, OneAtATime
<1>3. CASE scanInbox
  BY <1>3 DEF scanInbox, ChainTypeOK, OneAtATime
<1>4. ASSUME NEW f \in followup, writeFollowup(f) PROVE ChainTypesOK'
  <2>1. f \in Task /\ f.chain \in Chain
    BY DEF ChainTypeOK, Task
  <2>2. followups' \in [Chain -> Nat]
    BY <1>4, <2>1 DEF writeFollowup, ChainTypeOK
  <2>3. tasks' \subseteq Task /\ followup' \subseteq Task /\ engine' \in {"move", "write"}
    BY <1>4, <2>1 DEF writeFollowup, ChainTypeOK
  <2> QED BY <1>4, <2>2, <2>3 DEF writeFollowup, ChainTypeOK, OneAtATime
<1>5. CASE moveTask
  <2>1. OneAtATime'
    BY <1>5 DEF moveTask, OneAtATime
  <2> QED BY <1>0, <1>5, <2>1 DEF moveTask, ChainTypeOK
<1>6. CASE endIteration
  BY <1>6 DEF endIteration, ChainTypeOK, OneAtATime
<1>7. ASSUME NEW t \in listing, processTask(t) PROVE ChainTypesOK'
  <2> DEFINE depth == depthOf(t)
             full == depth = maxChainDepth \/ (depth = 0 /\ depths[t.chain] # 0)
             next == IF depth = 0 \/ full THEN {} ELSE generated(t.kind)
  <2>1. t \in Task /\ t.chain \in Chain
    BY DEF ChainTypeOK, Task
  <2>2. depth \in 0..maxChainDepth
    BY <2>1 DEF depthOf, ChainTypeOK
  <2>3. next \subseteq TaskKinds
    BY DEF generated, TaskKinds
  <2>4. /\ engine = "next" /\ listing' = listing \ {t} /\ done' = done \cup {t}
        /\ task' = {[moved |-> t, orphan |-> depth = 0]}
        /\ depths' = [depths EXCEPT ![t.chain] = IF full THEN 0 ELSE depth]
        /\ closed' = IF full THEN closed \cup {t.chain} ELSE closed
        /\ followup' = {[chain |-> t.chain, kind |-> k, as |-> "followup",
                         number |-> followups[t.chain]] : k \in next}
        /\ engine' = IF next = {} THEN "move" ELSE "write"
        /\ UNCHANGED <<tasks, blocked, savedDepths, iteration, origins, followups, foreigners, crashes>>
    BY <1>7, Zenon DEF processTask
  <2> HIDE DEF depth, full, next
  <2>5. OneAtATime'
    BY <2>3, <2>4 DEF OneAtATime
  <2>6. followup' \subseteq Task
    <3>1. followups[t.chain] \in Nat
      BY <2>1 DEF ChainTypeOK
    <3>2. ASSUME NEW k \in next
          PROVE  [chain |-> t.chain, kind |-> k, as |-> "followup",
                  number |-> followups[t.chain]] \in Task
      BY <2>1, <2>3, <3>1 DEF Task
    <3> QED BY <2>4, <3>2
  <2>7. depths' \in [Chain -> 0..maxChainDepth] /\ closed' \subseteq Chain
    BY <2>1, <2>2, <2>4 DEF ChainTypeOK
  <2>8. [moved |-> t, orphan |-> depth = 0] \in [moved : Task, orphan : BOOLEAN]
    BY <2>1
  <2>9. task' \subseteq [moved : Task, orphan : BOOLEAN] /\ Cardinality(task') <= 1
    BY <1>0, <2>4, <2>5, <2>8, Zenon
  <2>10. listing' \subseteq Task /\ done' \subseteq Task /\ engine' \in {"move", "write"}
    BY <2>1, <2>4 DEF ChainTypeOK
  <2>11. UNCHANGED <<tasks, blocked, savedDepths, iteration, origins, followups, foreigners, crashes>>
    BY <2>4, Zenon
  <2>12. ChainTypeOK
    OBVIOUS
  <2> QED BY ONLY <2>5, <2>6, <2>7, <2>9, <2>10, <2>11, <2>12 DEF ChainTypeOK, ChainTypesOK
<1>8. CASE CrashEngine
  <2>1. OneAtATime'
    BY <1>8 DEF CrashEngine, OneAtATime
  <2>2. NoChains \in [Chain -> 0..maxChainDepth]
    BY DEF NoChains
  <2>3. savedDepths' \in [Chain -> 0..maxChainDepth]
    BY <1>8, <2>2 DEF CrashEngine, ChainTypeOK
  <2>4. task' = {} /\ Cardinality(task') = 0
    BY <1>8, FS_EmptySet, Zenon DEF CrashEngine
  <2> QED BY <1>8, <2>1, <2>3, <2>4 DEF CrashEngine, ChainTypeOK
<1>9. CASE UNCHANGED chainVars
  BY <1>9 DEF chainVars, chainMemory, ChainTypeOK, OneAtATime
<1> QED BY <1>1, <1>a, <1>2, <1>3, <1>4, <1>5, <1>6, <1>7, <1>8, <1>9, Zenon DEF ChainNext, engineStep

LEMMA ChainTypesAlways == ChainSpec => []ChainTypeOK
<1>1. ChainTypesOK => ChainTypeOK
  BY DEF ChainTypesOK
<1> QED BY <1>1, ChainTypesStart, ChainTypesStep, PTL DEF ChainSpec

-----------------------------------------------------------------------------
(* The types of the memory                                                   *)

LEMMA TrimmedTypes ==
  ASSUME NEW S, NEW s \in Seq(S)
  PROVE  trimmed(s) \in Seq(S)
<1>1. Len(s) \in Nat /\ maxSessions \in Nat
  BY MemoryAssumption
<1>2. PICK k : k = (IF Len(s) > maxSessions THEN maxSessions ELSE Len(s))
  OBVIOUS
<1>3. k \in 0..Len(s)
  <2>1. CASE Len(s) > maxSessions
    BY <1>1, <1>2, <2>1
  <2>2. CASE ~(Len(s) > maxSessions)
    BY <1>1, <1>2, <2>2
  <2> QED BY <2>1, <2>2
<1>4. PICK n : n = Len(s) - k + 1
  OBVIOUS
<1>5. n \in 1..Len(s) + 1
  BY <1>1, <1>3, <1>4
<1>6. SubSeq(s, n, Len(s)) \in Seq(S)
  BY <1>1, <1>5
<1> QED BY <1>2, <1>4, <1>6 DEF trimmed

(* A process has one copy at most, and what it has is a memory.              *)
OneCopyOfMemory ==
  /\ \A p \in Rememberer : data[p] \subseteq Memory /\ \A c, d \in data[p] : c = d
  /\ DOMAIN data = Rememberer

MemoryTypesOK == MemoryTypeOK /\ OneCopyOfMemory /\ IsFiniteSet(notes)

LEMMA MemoryTypesStart == MemoryInit => MemoryTypesOK
<1> SUFFICES ASSUME MemoryInit PROVE MemoryTypesOK
  OBVIOUS
<1>1. IsFiniteSet(notes) /\ Cardinality({}) = 0
  BY FS_EmptySet, Zenon DEF MemoryInit
<1>2. memoryFile \in Memory
  BY MemoryAssumption DEF MemoryInit, FreshMemory, Memory
<1>3. OneCopyOfMemory /\ \A p \in Rememberer : Cardinality(data[p]) = 0
  BY <1>1 DEF MemoryInit, OneCopyOfMemory
<1>4. tornWrites \in 0..MaxTorn /\ begun \in 0..MaxBegun /\ replaced \in 0..begun
      /\ notes \subseteq (1..MaxBegun) \X (1..MaxNotes)
  BY MemoryAssumption DEF MemoryInit
<1>5. archive \in Seq(1..MaxBegun)
  BY DEF MemoryInit
<1>6. readable \in BOOLEAN /\ shared \in BOOLEAN
  BY Zenon DEF MemoryInit
<1> QED BY <1>1, <1>2, <1>3, <1>4, <1>5, <1>6 DEF MemoryTypesOK, MemoryTypeOK, OneCopyOfMemory

LEMMA SaveTypes ==
  ASSUME MemoryTypesOK, NEW p \in Rememberer, NEW d \in Memory, saveMemory(p, d)
  PROVE  /\ memoryFile' \in Memory /\ readable' \in BOOLEAN /\ tornWrites' \in 0..MaxTorn
         /\ OneCopyOfMemory'
<1>1. CASE memoryFile' = d /\ readable' = TRUE /\ data' = [data EXCEPT ![p] = {d}] /\ UNCHANGED tornWrites
  BY <1>1 DEF MemoryTypesOK, MemoryTypeOK, OneCopyOfMemory
<1>2. CASE /\ tornWrites < MaxTorn /\ tornWrites' = tornWrites + 1
           /\ readable' = FALSE /\ data' = [data EXCEPT ![p] = {}] /\ UNCHANGED memoryFile
  <2>1. tornWrites \in 0..MaxTorn /\ MaxTorn \in Nat
    BY MemoryAssumption DEF MemoryTypesOK, MemoryTypeOK
  <2>2. tornWrites' \in 0..MaxTorn
    BY ONLY <1>2, <2>1, SMT
  <2>3. OneCopyOfMemory'
    BY <1>2 DEF MemoryTypesOK, OneCopyOfMemory
  <2> QED BY <1>2, <2>2, <2>3 DEF MemoryTypesOK, MemoryTypeOK
<1> QED BY <1>1, <1>2 DEF saveMemory

LEMMA MemoryTypesStep == MemoryTypesOK /\ [MemoryNext]_memoryVars => MemoryTypesOK'
<1> SUFFICES ASSUME MemoryTypesOK, [MemoryNext]_memoryVars PROVE MemoryTypesOK'
  OBVIOUS
<1>0. /\ MemoryTypeOK /\ OneCopyOfMemory /\ IsFiniteSet(notes)
      /\ memoryFile \in Memory /\ begun \in 0..MaxBegun /\ replaced \in 0..begun /\ archive \in Seq(1..MaxBegun)
      /\ notes \subseteq (1..MaxBegun) \X (1..MaxNotes) /\ tornWrites \in 0..MaxTorn
  BY DEF MemoryTypesOK, MemoryTypeOK
<1>1. ASSUME OneCopyOfMemory' PROVE \A p \in Rememberer : Cardinality(data'[p]) <= 1
  BY <1>1, AtMostOne DEF OneCopyOfMemory
<1>2. ASSUME NEW p \in Rememberer, openMemory(p) PROVE MemoryTypesOK'
  <2>1. loadOrCreate \in Memory
    <3>1. FreshMemory \in Memory
      BY MemoryAssumption DEF FreshMemory, Memory
    <3> QED BY <1>0, <3>1 DEF loadOrCreate
  <2>2. shared' \in BOOLEAN /\ UNCHANGED <<replaced, notes, archive>>
    BY <1>2, Zenon DEF openMemory
  <2>3. CASE loadOrCreate.current_session # 0
    <3>1. data' = [data EXCEPT ![p] = {loadOrCreate}] /\ UNCHANGED <<memoryFile, readable, tornWrites, begun>>
      BY <1>2, <2>3 DEF openMemory
    <3>2. OneCopyOfMemory'
      BY <1>0, <2>1, <3>1 DEF OneCopyOfMemory
    <3> QED BY <1>0, <1>1, <2>2, <3>1, <3>2 DEF MemoryTypesOK, MemoryTypeOK, OneCopyOfMemory
  <2>4. CASE loadOrCreate.current_session = 0
    <3> DEFINE d == [loadOrCreate EXCEPT !.current_session = begun + 1]
    <3>1. begun < MaxBegun /\ begun' = begun + 1 /\ saveMemory(p, d)
      BY <1>2, <2>4 DEF openMemory
    <3>2. begun + 1 \in 0..MaxBegun /\ replaced \in 0..begun'
      BY <1>0, <3>1, MemoryAssumption
    <3>3. d \in Memory
      BY <2>1, <3>2 DEF Memory
    <3> HIDE DEF d
    <3>4. /\ memoryFile' \in Memory /\ readable' \in BOOLEAN /\ tornWrites' \in 0..MaxTorn
          /\ OneCopyOfMemory'
      BY <3>1, <3>3, SaveTypes
    <3> QED BY <1>0, <1>1, <2>2, <3>1, <3>2, <3>4 DEF MemoryTypesOK, MemoryTypeOK, OneCopyOfMemory
  <2> QED BY <2>3, <2>4
<1>3. ASSUME NEW p \in Rememberer, recordNote(p) PROVE MemoryTypesOK'
  <2> DEFINE note(d) == <<d.current_session, Cardinality(notes) + 1>>
             more(d) == [d EXCEPT !.recorded = @ \cup {note(d)}]
  <2>1. PICK d \in data[p] :
          /\ d.current_session # 0 /\ Cardinality(notes) < MaxNotes
          /\ notes' = notes \cup {note(d)} /\ saveMemory(p, more(d))
          /\ UNCHANGED <<begun, replaced, archive, shared>>
    BY <1>3, Zenon DEF recordNote
  <2>2. d \in Memory /\ Cardinality(notes) \in Nat
    BY <1>0, FS_CardinalityType DEF OneCopyOfMemory
  <2>3. d.current_session \in 1..MaxBegun /\ Cardinality(notes) + 1 \in 1..MaxNotes
    BY <2>1, <2>2, MemoryAssumption DEF Memory
  <2>4. note(d) \in (1..MaxBegun) \X (1..MaxNotes)
    BY <2>3
  <2> HIDE DEF note
  <2>5. more(d) \in Memory
    BY <2>2, <2>4 DEF Memory
  <2> HIDE DEF more
  <2>6. /\ memoryFile' \in Memory /\ readable' \in BOOLEAN /\ tornWrites' \in 0..MaxTorn
        /\ OneCopyOfMemory'
    BY <2>1, <2>5, SaveTypes
  <2>7. IsFiniteSet(notes')
    BY <1>0, <2>1, FS_AddElement
  <2>8. shared' \in BOOLEAN /\ UNCHANGED <<begun, replaced, archive>> /\ notes' \subseteq (1..MaxBegun) \X (1..MaxNotes)
    BY <1>0, <2>1, <2>4 DEF MemoryTypeOK
  <2> QED BY <1>0, <1>1, <2>6, <2>7, <2>8 DEF MemoryTypesOK, MemoryTypeOK, OneCopyOfMemory
<1>4. ASSUME NEW p \in Rememberer, endSession(p) PROVE MemoryTypesOK'
  <2> DEFINE kept(d) == trimmed(Append(d.sessions, d.current_session))
             less(d) == [sessions |-> kept(d), current_session |-> 0,
                         recorded |-> {n \in d.recorded : n[1] \in ToSet(kept(d))}]
  <2>1. PICK d \in data[p] :
          /\ d.current_session # 0
          /\ archive' = Append(archive, d.current_session) /\ saveMemory(p, less(d))
          /\ UNCHANGED <<begun, replaced, notes, shared>>
    BY <1>4, Zenon DEF endSession
  <2>2. d \in Memory
    BY <1>0 DEF OneCopyOfMemory
  <2>3. d.current_session \in 1..MaxBegun /\ d.sessions \in Seq(1..MaxBegun)
        /\ d.recorded \subseteq (1..MaxBegun) \X (1..MaxNotes)
    BY <2>1, <2>2, MemoryAssumption DEF Memory
  <2>4. Append(d.sessions, d.current_session) \in Seq(1..MaxBegun) /\ archive' \in Seq(1..MaxBegun)
    BY <1>0, <2>1, <2>3
  <2>5. kept(d) \in Seq(1..MaxBegun)
    BY <2>4, TrimmedTypes
  <2> HIDE DEF kept
  <2>6. less(d) \in Memory
    BY <2>3, <2>5, MemoryAssumption DEF Memory
  <2> HIDE DEF less
  <2>7. /\ memoryFile' \in Memory /\ readable' \in BOOLEAN /\ tornWrites' \in 0..MaxTorn
        /\ OneCopyOfMemory'
    BY <2>1, <2>6, SaveTypes
  <2>8. shared' \in BOOLEAN /\ UNCHANGED <<begun, replaced, notes>>
    BY <1>0, <2>1 DEF MemoryTypeOK
  <2> QED BY <1>0, <1>1, <2>4, <2>7, <2>8 DEF MemoryTypesOK, MemoryTypeOK, OneCopyOfMemory
<1>5. ASSUME NEW p \in Rememberer, Leave(p) PROVE MemoryTypesOK'
  <2>1. data' = [data EXCEPT ![p] = {}]
        /\ UNCHANGED <<memoryFile, readable, tornWrites, begun, replaced, notes, archive, shared>>
    BY <1>5 DEF Leave
  <2>2. OneCopyOfMemory'
    BY <1>0, <2>1 DEF OneCopyOfMemory
  <2> QED BY <1>0, <1>1, <2>1, <2>2 DEF MemoryTypesOK, MemoryTypeOK, OneCopyOfMemory
<1>6. CASE UNCHANGED memoryVars
  BY <1>6 DEF memoryVars, MemoryTypesOK, MemoryTypeOK, OneCopyOfMemory
<1>7. ASSUME NEW p \in Rememberer, startSession(p) PROVE MemoryTypesOK'
  <2> DEFINE other(d) == [sessions |-> d.sessions, current_session |-> begun + 1,
                          recorded |-> {n \in d.recorded : n[1] # d.current_session}]
  <2>1. PICK d \in data[p] :
          /\ begun < MaxBegun /\ begun' = begun + 1
          /\ replaced' = replaced + (IF d.current_session = 0 THEN 0 ELSE 1)
          /\ saveMemory(p, other(d))
          /\ UNCHANGED <<notes, archive, shared>>
    BY <1>7, Zenon DEF startSession
  <2>2. d \in Memory
    BY <1>0 DEF OneCopyOfMemory
  <2>3. begun' \in 0..MaxBegun /\ replaced' \in 0..begun'
    <3>1. replaced' = replaced + 0 \/ replaced' = replaced + 1
      BY <2>1, Zenon
    <3> QED BY <1>0, <2>1, <3>1, MemoryAssumption
  <2>4. other(d) \in Memory
    BY <2>1, <2>2, <2>3 DEF Memory
  <2> HIDE DEF other
  <2>5. /\ memoryFile' \in Memory /\ readable' \in BOOLEAN /\ tornWrites' \in 0..MaxTorn
        /\ OneCopyOfMemory'
    BY <2>1, <2>4, SaveTypes
  <2>6. shared' \in BOOLEAN /\ UNCHANGED <<notes, archive>>
    BY <1>0, <2>1 DEF MemoryTypeOK
  <2> QED BY <1>0, <1>1, <2>3, <2>5, <2>6 DEF MemoryTypesOK, MemoryTypeOK, OneCopyOfMemory
<1> QED BY <1>2, <1>3, <1>4, <1>5, <1>6, <1>7 DEF MemoryNext

LEMMA MemoryTypesAlways == MemorySpec => []MemoryTypeOK
<1>1. MemoryTypesOK => MemoryTypeOK
  BY DEF MemoryTypesOK
<1> QED BY <1>1, MemoryTypesStart, MemoryTypesStep, PTL DEF MemorySpec

-----------------------------------------------------------------------------
(* The types of the leases                                                   *)

OneCopyEach == clock \in 0..MaxTime /\ \A l \in LeaseLane : \A c, d \in copy[l] : c = d

LEMMA LeaseTypesStart == LeaseInit => OneCopyEach
BY LeaseAssumption DEF LeaseInit, OneCopyEach

LEMMA LeaseTypesStep == LeaseInvariant /\ OneCopyEach /\ [LeaseNext]_leaseVars => OneCopyEach'
<1> SUFFICES ASSUME LeaseInvariant, OneCopyEach, [LeaseNext]_leaseVars PROVE OneCopyEach'
  OBVIOUS
<1> USE DEF OneCopyEach
<1>0. copy \in [LeaseLane -> SUBSET SUBSET Intent] /\ MaxTime \in Nat
  BY LeaseAssumption DEF LeaseInvariant, LeaseTypes
<1>1. ASSUME NEW l \in LeaseLane, NEW is, loadAndChange(l, is) PROVE OneCopyEach'
  BY <1>0, <1>1 DEF loadAndChange
<1>2. ASSUME UNCHANGED <<copy, clock>> PROVE OneCopyEach'
  BY <1>2
<1>3. ASSUME NEW l \in LeaseLane, NEW f \in LeaseFile, claim(l, f) \/ heartbeat(l, f) \/ release(l, f)
      PROVE  OneCopyEach'
  <2>1. (\E is : loadAndChange(l, is)) \/ UNCHANGED <<copy, clock>>
    BY <1>3 DEF claim, heartbeat, release
  <2> QED BY <1>1, <1>2, <2>1
<1>4. ASSUME NEW l \in LeaseLane, saveIntents(l) PROVE OneCopyEach'
  BY <1>0, <1>4 DEF saveIntents
<1>5. CASE Tick
  BY <1>0, <1>5 DEF Tick
<1> QED BY <1>2, <1>3, <1>4, <1>5 DEF LeaseNext, leaseVars

LEMMA LeaseTypesHere == LeaseInvariant /\ OneCopyEach => LeaseTypeOK
<1> SUFFICES ASSUME LeaseInvariant, OneCopyEach PROVE LeaseTypeOK
  OBVIOUS
<1>1. ASSUME NEW l \in LeaseLane PROVE Cardinality(copy[l]) <= 1
  BY AtMostOne DEF OneCopyEach
<1> QED BY <1>1 DEF LeaseInvariant, LeaseTypes, LeaseTypeOK, OneCopyEach

LEMMA LeaseTypesAlways == LeaseSpec => []LeaseTypeOK
BY LeaseStart, LeaseStep, LeaseTypesStart, LeaseTypesStep, LeaseTypesHere, PTL DEF LeaseSpec

-----------------------------------------------------------------------------
(* The types of the leased writes                                            *)

WriteCounts ==
  /\ tries \in [Call -> 0..MAX_RETRIES] /\ targetFile \in Call \cup {NoCall}
  /\ excuses \subseteq {"together", "ranOut", "sameLane"} /\ ioErrors \in 0..MaxIoErrors

LEMMA WriteCountsStart == LeasedWriteInit => WriteCounts
BY LeasedWriteAssumption DEF LeasedWriteInit, WriteCounts

LEMMA WriteCountsStep == WriteCounts /\ [LeasedWriteNext]_writeVars => WriteCounts'
<1> SUFFICES ASSUME WriteCounts, [LeasedWriteNext]_writeVars PROVE WriteCounts'
  OBVIOUS
<1> USE LeasedWriteAssumption DEF WriteCounts
<1>1. ASSUME NEW c \in Call, callStep(c) PROVE WriteCounts'
  <2>1. excuses' \subseteq {"together", "ranOut", "sameLane"}
    BY <1>1 DEF callStep
  <2>2. CASE tryAcquireLock(c)
    BY <2>1, <2>2 DEF tryAcquireLock
  <2>3. CASE putContent(c)
    BY <2>1, <2>3 DEF putContent
  <2>4. CASE readLockFile(c) \/ unlinkStaleLease(c) \/ fillTmpLock(c) \/ renameTmpLock(c)
             \/ verifyContent(c) \/ releaseLease(c)
    BY <2>1, <2>4 DEF readLockFile, unlinkStaleLease, fillTmpLock, renameTmpLock, verifyContent,
                      releaseLease
  <2> QED BY <1>1, <2>2, <2>3, <2>4 DEF callStep
<1>2. ASSUME NEW c \in Call, CallDies(c) PROVE WriteCounts'
  BY <1>2 DEF CallDies
<1>3. CASE LeaseRunsOut
  BY <1>3 DEF LeaseRunsOut
<1>4. CASE UNCHANGED writeVars
  BY <1>4 DEF writeVars
<1> QED BY <1>1, <1>2, <1>3, <1>4 DEF LeasedWriteNext

LEMMA LeasedWriteTypesAlways == LeasedWriteSpec => []LeasedWriteTypeOK
<1>1. WriteInvariant /\ WriteCounts => LeasedWriteTypeOK
  BY DEF WriteInvariant, WriteTypes, WritePhase, WriteCounts, LeasedWriteTypeOK
<1> QED BY <1>1, WriteStart, WriteInvariantStep, WriteCountsStart, WriteCountsStep, PTL
        DEF LeasedWriteSpec
=============================================================================
