-------------------------- MODULE SnapshotWatcher --------------------------
(* The watcher of the graph snapshots                                        *)
(* (src/lib/analysis/graph-snapshot-watcher.ts): a poll queues what is newer *)
(* than its record; one loop takes the queue in turn and, while it waits,    *)
(* further polls queue the same files again.                                 *)
EXTENDS Integers, Sequences, FiniteSets, SequencesExt

CONSTANTS
  Snap,         \* the names of the snapshots
  NoSnap,
  MaxWrites,    \* bound: writes of snapshots, which are the modification times
  MaxQueue,     \* bound: files in the queue
  MaxDeaths,    \* bound: deaths of the watcher
  MaxRefusals,  \* bound: state files that cannot be written
  MaxRemovals   \* bound: snapshots removed

ASSUME SnapshotAssumption ==
  /\ IsFiniteSet(Snap) /\ NoSnap \notin Snap
  /\ {MaxWrites, MaxQueue, MaxDeaths, MaxRefusals, MaxRemovals} \subseteq Nat

VARIABLES
  mtime,       \* mtime[s]: the last write of s, 0 while there is no s
  whole,       \* the snapshots whose last write is complete
  written,     \* writes so far
  recordFile,  \* the state file, as last written
  readableRecord, \* it can be parsed
  cutOff,      \* some state file could not
  processed,   \* the state in memory
  stage,       \* "down", "first" (the poll of start) or "polling"
  processingQueue,
  isProcessing,
  at,          \* where the loop stands; "none" when no loop runs
  inHand,      \* the snapshot that the loop has taken from the queue
  parsed,      \* the write that parseSnapshotFile has read
  handed,      \* what the processor was given: the pairs of a snapshot and a write
  repeated,    \* what it was given more than once
  queuedAgain, \* the snapshots that were queued while they were still pending
  excused,     \* what was recorded and not given, for a reason
  thrown,      \* the loop of this process has thrown
  deaths, refusals, removals

diskVars == <<mtime, whole, written, removals>>
recordVars == <<recordFile, readableRecord, cutOff>>
loopVars == <<processingQueue, isProcessing, at, inHand, parsed, thrown>>
ledgerVars == <<handed, repeated, queuedAgain, excused>>
snapshotVars == <<diskVars, recordVars, processed, stage, loopVars, ledgerVars, deaths, refusals>>

Time == 0..MaxWrites
Empty == [s \in Snap |-> 0]

SnapshotTypeOK ==
  /\ mtime \in [Snap -> Time] /\ whole \subseteq Snap /\ written \in Time
  /\ {recordFile, processed} \subseteq [Snap -> Time]
  /\ {readableRecord, cutOff, thrown} \subseteq BOOLEAN
  /\ stage \in {"down", "first", "polling"}
  /\ processingQueue \in Seq(Snap) /\ Len(processingQueue) <= MaxQueue
  /\ isProcessing \in BOOLEAN /\ at \in {"none", "wait", "stat", "save", "hand", "busy"}
  /\ inHand \in Snap \cup {NoSnap} /\ parsed \in Time
  /\ repeated \subseteq handed /\ handed \cup excused \subseteq Snap \X Time
  /\ queuedAgain \subseteq Snap
  /\ deaths \in 0..MaxDeaths /\ refusals \in 0..MaxRefusals /\ removals \in 0..MaxRemovals

SnapshotInit ==
  /\ mtime = Empty /\ whole = {} /\ written = 0 /\ removals = 0
  /\ recordFile = Empty /\ readableRecord = TRUE /\ cutOff = FALSE /\ processed = Empty
  /\ stage = "down" /\ processingQueue = <<>> /\ isProcessing = FALSE
  /\ at = "none" /\ inHand = NoSnap /\ parsed = 0
  /\ handed = {} /\ repeated = {} /\ queuedAgain = {} /\ excused = {}
  /\ thrown = FALSE /\ deaths = 0 /\ refusals = 0

-----------------------------------------------------------------------------
(* The site writes a snapshot, at once or in part; somebody removes one.     *)
WriteSnapshot(s, complete) ==
  /\ written < MaxWrites
  /\ written' = written + 1 /\ mtime' = [mtime EXCEPT ![s] = written + 1]
  /\ whole' = IF complete THEN whole \cup {s} ELSE whole \ {s}
  /\ UNCHANGED <<recordVars, processed, stage, loopVars, ledgerVars, deaths, refusals, removals>>

RemoveSnapshot(s) ==
  /\ mtime[s] > 0 /\ removals < MaxRemovals
  /\ removals' = removals + 1 /\ mtime' = [mtime EXCEPT ![s] = 0] /\ whole' = whole \ {s}
  /\ UNCHANGED <<written, recordVars, processed, stage, loopVars, ledgerVars, deaths, refusals>>

(* getNewSnapshots: what is newer than its record, the latest first.         *)
getNewSnapshots(record) ==
  LET new == {s \in Snap : record[s] < mtime[s]}
  IN {q \in [1..Cardinality(new) -> new] : \A i, j \in DOMAIN q : i < j => mtime[q[i]] > mtime[q[j]]}

pending == ToSet(processingQueue) \cup {inHand}

(* The loop takes the first of what is queued, if there is anything.         *)
takeFrom(q) ==
  /\ processingQueue' = Tail(q) /\ inHand' = Head(q) /\ at' = "wait" /\ isProcessing' = TRUE
  /\ parsed' = 0

atRest ==
  /\ isProcessing' = FALSE /\ processingQueue' = <<>>
  /\ at' = "none" /\ inHand' = NoSnap /\ parsed' = 0

(* The constructor and start, up to the first wait.                          *)
start ==
  /\ stage = "down" /\ thrown' = FALSE
  /\ processed' = IF readableRecord THEN recordFile ELSE Empty
  /\ \E new \in getNewSnapshots(processed') :
       /\ Len(new) <= MaxQueue + 1
       /\ IF new = <<>> THEN stage' = "polling" /\ atRest
                        ELSE stage' = "first" /\ takeFrom(new)
  /\ UNCHANGED <<diskVars, recordVars, ledgerVars, deaths, refusals>>

(* A poll of the interval; where the loop does not wait, nothing else runs.  *)
poll ==
  /\ stage = "polling" /\ at \in {"none", "wait", "busy"}
  /\ \E new \in getNewSnapshots(processed) :
       /\ new # <<>> /\ Len(processingQueue) + Len(new) <= MaxQueue
       /\ queuedAgain' = queuedAgain \cup (ToSet(new) \cap pending)
       /\ IF isProcessing
          THEN /\ processingQueue' = processingQueue \o new
               /\ UNCHANGED <<isProcessing, at, inHand, parsed>>
          ELSE takeFrom(processingQueue \o new)
  /\ UNCHANGED <<diskVars, recordVars, processed, stage, thrown, handed, repeated, excused,
                 deaths, refusals>>

(* A fault for the model checker: the loop ends and isProcessing stays.      *)
nextOfQueue_StaysBusy ==
  IF processingQueue = <<>>
  THEN isProcessing' = TRUE /\ at' = "none" /\ inHand' = NoSnap /\ parsed' = 0
       /\ stage' = "polling" /\ UNCHANGED processingQueue
  ELSE takeFrom(processingQueue) /\ UNCHANGED stage

(* processQueue goes on with the next file; the first loop over, start sets  *)
(* the interval.                                                             *)
nextOfQueue ==
  IF processingQueue = <<>> THEN atRest /\ stage' = "polling"
  ELSE takeFrom(processingQueue) /\ UNCHANGED stage

(* An exception leaves processQueue: in the first poll it ends the program,  *)
(* later it is logged, and isProcessing stays as it is.                      *)
throwOut ==
  /\ thrown' = TRUE /\ at' = "none" /\ inHand' = NoSnap /\ parsed' = 0
  /\ IF stage = "first"
     THEN stage' = "down" /\ isProcessing' = FALSE /\ processingQueue' = <<>>
     ELSE UNCHANGED <<stage, isProcessing, processingQueue>>

(* parseSnapshotFile, after the wait of half a second.                       *)
parseSnapshot ==
  /\ at = "wait"
  /\ IF inHand \in whole
     THEN /\ parsed' = mtime[inHand] /\ at' = "stat"
          /\ UNCHANGED <<processingQueue, isProcessing, inHand, stage>>
     ELSE nextOfQueue
  /\ UNCHANGED <<diskVars, recordVars, processed, thrown, ledgerVars, deaths, refusals>>

(* The record gets the time that the file has now, which need not be that of *)
(* what was parsed.                                                          *)
recordSnapshot ==
  /\ at = "stat"
  /\ IF mtime[inHand] = 0
     THEN throwOut /\ UNCHANGED <<processed, excused>>
     ELSE /\ processed' = [processed EXCEPT ![inHand] = mtime[inHand]] /\ at' = "save"
          /\ excused' = IF mtime[inHand] = parsed THEN excused
                        ELSE excused \cup {<<inHand, mtime[inHand]>>}
          /\ UNCHANGED <<processingQueue, isProcessing, inHand, parsed, thrown, stage>>
  /\ UNCHANGED <<diskVars, recordVars, handed, repeated, queuedAgain, deaths, refusals>>

(* saveState, which may throw: by then the record in memory has changed.      *)
saveRecord ==
  /\ at = "save"
  /\ \/ /\ recordFile' = processed /\ readableRecord' = TRUE /\ at' = "hand" /\ UNCHANGED cutOff
        /\ UNCHANGED <<processingQueue, isProcessing, inHand, parsed, thrown, stage, refusals>>
     \/ /\ refusals < MaxRefusals
        /\ refusals' = refusals + 1 /\ throwOut /\ UNCHANGED recordVars
  /\ UNCHANGED <<diskVars, processed, ledgerVars, deaths>>

(* The processor; what comes of it, the loop does not look at.               *)
handOver ==
  /\ at = "hand"
  /\ at' = "busy" /\ handed' = handed \cup {<<inHand, parsed>>}
  /\ repeated' = repeated \cup ({<<inHand, parsed>>} \cap handed)
  /\ UNCHANGED <<diskVars, recordVars, processed, stage, processingQueue, isProcessing, inHand,
                 parsed, thrown, queuedAgain, excused, deaths, refusals>>

analysisEnds ==
  /\ at = "busy" /\ nextOfQueue
  /\ UNCHANGED <<diskVars, recordVars, processed, thrown, ledgerVars, deaths, refusals>>

(* The process ends, by a signal or a kill; in the middle of saveState the   *)
(* file is cut off.                                                          *)
watcherDies ==
  /\ stage # "down" /\ deaths < MaxDeaths
  /\ deaths' = deaths + 1
  /\ stage' = "down" /\ atRest /\ processed' = Empty /\ thrown' = FALSE
  /\ \/ UNCHANGED <<readableRecord, cutOff>>
     \/ at = "save" /\ readableRecord' = FALSE /\ cutOff' = TRUE
  /\ excused' = IF at = "hand" THEN excused \cup {<<inHand, processed[inHand]>>} ELSE excused
  /\ UNCHANGED <<diskVars, recordFile, handed, repeated, queuedAgain, refusals>>

loopStep == parseSnapshot \/ recordSnapshot \/ saveRecord \/ handOver \/ analysisEnds

SnapshotNext ==
  \/ \E s \in Snap : RemoveSnapshot(s) \/ \E complete \in BOOLEAN : WriteSnapshot(s, complete)
  \/ start \/ poll \/ loopStep \/ watcherDies

SnapshotSpec == SnapshotInit /\ [][SnapshotNext]_snapshotVars

-----------------------------------------------------------------------------
(* What the state file says was processed was given to the processor, but    *)
(* for what a kill cut off right after the record and for a write that came  *)
(* between the reading of the file and that of its time.                     *)
RecordedIsHanded ==
  readableRecord => \A s \in Snap :
    LET recorded == <<s, recordFile[s]>>
    IN recordFile[s] > 0 =>
         recorded \in handed \cup excused \/ (at = "hand" /\ inHand = s)

(* Restarts and failures give nothing to the processor twice: only a poll    *)
(* does that finds the file still pending, or a state file that was cut off. *)
RepeatedWasOverlapped ==
  ~cutOff => \A p \in repeated : p[1] \in queuedAgain

(* A complete snapshot that is newer than its record is recorded, if nobody  *)
(* changes it and the loop has not thrown: after that the queue of the       *)
(* process only grows.                                                       *)
SnapshotsAreReached ==
  \A s \in Snap :
    s \in whole /\ recordFile[s] < mtime[s]
      ~> s \notin whole \/ recordFile[s] >= mtime[s] \/ thrown
=============================================================================
