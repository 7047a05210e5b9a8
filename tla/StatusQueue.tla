---------------------------- MODULE StatusQueue ----------------------------
(* A queue of signed items in one file (src/queue/Queue.js): items are       *)
(* appended, and a change of status loads the file, has the item verified,   *)
(* and replaces the whole file by way of a temporary one of a fixed name.    *)
EXTENDS Verification

CONSTANTS
  QProcess,   \* the processes that use the queue
  Decision    \* the new statuses that callers ask for

ASSUME QueueAssumption == Decision \subseteq {"accepted", "rejected", "superseded"}

VARIABLES
  attested,   \* setAttestation has been given a verifier wrapper
  queue,      \* queue[i]: the status of i in the file, or "absent"
  tempFile,   \* the temporary file: a set of at most one content
  update,     \* update[p]: p's call of updateStatus
  entered,    \* the items whose enqueue has returned
  decided,    \* decided[i]: how many calls of updateStatus have returned for i
  interleaved \* a call began, or an item came, while a call was under way

queueVars == <<attested, queue, tempFile, update, entered, decided, interleaved>>

Status == {"pending"} \cup Decision
Content == [QItem -> Status \cup {"absent"}]
NoUpdate == [step |-> "none"]

QueueTypeOK ==
  /\ attested \in BOOLEAN /\ interleaved \in BOOLEAN
  /\ queue \in Content
  /\ tempFile \subseteq Content /\ Cardinality(tempFile) <= 1
  /\ \A p \in QProcess : update[p] = NoUpdate \/
       update[p] \in [step : {"verify", "write", "rename"}, item : QItem,
                      to : Status, all : Content]
  /\ entered \subseteq QItem /\ decided \in [QItem -> Nat]

QueueInit ==
  /\ VerificationInit
  /\ attested \in BOOLEAN
  /\ queue = [i \in QItem |-> "absent"] /\ tempFile = {}
  /\ update = [p \in QProcess |-> NoUpdate]
  /\ entered = {} /\ decided = [i \in QItem |-> 0] /\ interleaved = FALSE

running == {p \in QProcess : update[p] # NoUpdate}

endUpdate(p) == update' = [update EXCEPT ![p] = NoUpdate]

(* Without a signature nothing is written.                                   *)
enqueue(i) ==
  /\ i \notin entered /\ signature[i] # "none"
  /\ queue' = [queue EXCEPT ![i] = "pending"]
  /\ entered' = entered \cup {i}
  /\ interleaved' = (interleaved \/ running # {})
  /\ UNCHANGED <<verificationVars, attested, tempFile, update, decided>>

loadAll(p, i, to) ==
  /\ update[p] = NoUpdate /\ queue[i] # "absent"
  /\ update' = [update EXCEPT ![p] = [step |-> IF attested THEN "verify" ELSE "write",
                                      item |-> i, to |-> to, all |-> queue]]
  /\ interleaved' = (interleaved \/ running # {})
  /\ UNCHANGED <<verificationVars, attested, queue, tempFile, entered, decided>>

(* What passes: an outcome that says it is valid, or whose status is         *)
(* "SUCCESS". The wrapper's outcomes have the status in lower case.          *)
passing(o) == o = "SUCCESS"

awaitVerification(p) ==
  LET i == update[p].item
  IN /\ update[p] # NoUpdate /\ update[p].step = "verify"
     /\ verify(i)
     /\ IF passing(outcome(i)) THEN update' = [update EXCEPT ![p].step = "write"] ELSE endUpdate(p)
     /\ UNCHANGED <<attested, queue, tempFile, entered, decided, interleaved>>

(* That the item is pending is judged by what was loaded.                    *)
writeTemp_NotChecked(p) ==
  LET u == update[p]
  IN /\ u # NoUpdate /\ u.step = "write"
     /\ tempFile' = {[u.all EXCEPT ![u.item] = u.to]}
     /\ update' = [update EXCEPT ![p].step = "rename"]
     /\ UNCHANGED <<verificationVars, attested, queue, entered, decided, interleaved>>
writeTemp(p) ==
  LET u == update[p]
  IN /\ u # NoUpdate /\ u.step = "write"
     /\ IF u.all[u.item] # "pending"
        THEN endUpdate(p) /\ UNCHANGED tempFile
        ELSE /\ tempFile' = {[u.all EXCEPT ![u.item] = u.to]}
             /\ update' = [update EXCEPT ![p].step = "rename"]
     /\ UNCHANGED <<verificationVars, attested, queue, entered, decided, interleaved>>

(* Whoever renames first moves what was written last; the other one throws.  *)
renameTemp(p) ==
  /\ update[p] # NoUpdate /\ update[p].step = "rename"
  /\ IF tempFile = {}
     THEN UNCHANGED <<queue, decided>>
     ELSE queue' \in tempFile /\ decided' = [decided EXCEPT ![update[p].item] = @ + 1]
  /\ tempFile' = {}
  /\ endUpdate(p)
  /\ UNCHANGED <<verificationVars, attested, entered, interleaved>>

(* A process dies; what it has written to the temporary file stays.          *)
Die(p) ==
  /\ update[p] # NoUpdate
  /\ endUpdate(p)
  /\ UNCHANGED <<verificationVars, attested, queue, tempFile, entered, decided, interleaved>>

QueueNext ==
  \/ \E i \in QItem : enqueue(i)
  \/ \E p \in QProcess :
       \/ \E i \in QItem, to \in Decision : loadAll(p, i, to)
       \/ awaitVerification(p) \/ writeTemp(p) \/ renameTemp(p) \/ Die(p)
  \/ attested /\ VerificationNext /\ UNCHANGED queueVars

QueueSpec == QueueInit /\ [][QueueNext]_<<verificationVars, queueVars>>

-----------------------------------------------------------------------------
(* As long as no two calls overlap, whoever dies in whichever place: an item *)
(* that came stays, it is decided once, and its decision stands.             *)
DecisionsStandInTurn ==
  ~interleaved => \A i \in QItem :
    /\ i \in entered => queue[i] # "absent"
    /\ decided[i] <= 1
    /\ decided[i] = 1 => queue[i] # "pending"
=============================================================================
