---------------------------- MODULE WatcherLock ----------------------------
(* The lock file that keeps a second watcher off a lane                      *)
(* (scripts/concurrency-policy.js, acquireWatcherLock): created exclusively, *)
(* taken over when its holder is dead, when it is too old or unreadable.     *)
(* (All watchers run on one host; an observer takes no lock and is left out.)*)
EXTENDS Naturals, FiniteSets

CONSTANTS
  Watcher,      \* the watcher processes that are ever started for the lane
  Nobody        \* no process

ASSUME WatcherAssumption == Nobody \notin Watcher

VARIABLES
  lockFile,     \* the lock file: whose it is, and what can be read from it
  watcher,      \* watcher[p]: where p is
  robbed        \* the processes whose last lock was removed while they lived

lockVars == <<lockFile, watcher, robbed>>

(* A file that is created and not yet written to does not parse.             *)
Reading == {"torn", "fresh", "old"}
NoLockFile == [pid |-> Nobody, reading |-> "torn"]

LockTypeOK ==
  /\ lockFile \in {NoLockFile} \cup [pid : Watcher, reading : Reading]
  /\ watcher \in [Watcher -> {"out", "write", "read", "unlink", "retry", "in",
                              "giveback", "remove", "dead"}]
  /\ robbed \subseteq Watcher

LockInit ==
  /\ lockFile = NoLockFile
  /\ watcher = [p \in Watcher |-> "out"]
  /\ robbed = {}

move(p, from, to) == watcher[p] = from /\ watcher' = [watcher EXCEPT ![p] = to]

pidAlive == watcher[lockFile.pid] # "dead"

(* writeFileSync with the flag wx: the file is created, then written. When   *)
(* it is there already, the first attempt goes on to judge it, the second    *)
(* one ends the run.                                                         *)
tryAcquire_Overwrites(p) ==
  \E attempt \in {"out", "retry"} :
    IF lockFile = NoLockFile \/ attempt = "retry"
    THEN move(p, attempt, "write") /\ lockFile' = [pid |-> p, reading |-> "torn"]
    ELSE move(p, attempt, "read") /\ UNCHANGED lockFile
tryAcquire(p) ==
  \E attempt \in {"out", "retry"} :
    IF lockFile = NoLockFile
    THEN move(p, attempt, "write") /\ lockFile' = [pid |-> p, reading |-> "torn"]
    ELSE move(p, attempt, IF attempt = "out" THEN "read" ELSE "out") /\ UNCHANGED lockFile

(* What is written to a file that was removed meanwhile is not seen again.   *)
writeOwner(p) ==
  /\ move(p, "write", "in")
  /\ lockFile' = IF lockFile.pid = p THEN [lockFile EXCEPT !.reading = "fresh"] ELSE lockFile

(* A lock that is gone when it is read counts as stale, too.                 *)
stale_ByAge == lockFile = NoLockFile \/ lockFile.reading # "fresh"
stale == lockFile = NoLockFile \/ lockFile.reading # "fresh" \/ ~pidAlive
judgeLock(p) ==
  /\ move(p, "read", IF stale THEN "unlink" ELSE "out")
  /\ UNCHANGED lockFile

(* Whatever the file holds by now is removed.                                *)
reclaim(p) ==
  /\ move(p, "unlink", IF lockFile = NoLockFile THEN "out" ELSE "retry")
  /\ lockFile' = NoLockFile

(* The release reads the file and removes it when it names this process.     *)
releaseLock(p) ==
  \/ /\ move(p, "in", IF lockFile.pid = p /\ lockFile.reading # "torn" THEN "remove" ELSE "out")
     /\ UNCHANGED lockFile
  \/ /\ move(p, "remove", "out")
     /\ lockFile' = NoLockFile

lockStep(p) ==
  /\ tryAcquire(p) \/ writeOwner(p) \/ judgeLock(p) \/ reclaim(p) \/ releaseLock(p)
  /\ robbed' = IF lockFile' = NoLockFile /\ lockFile.pid \in Watcher \ {p} /\ pidAlive
               THEN robbed \cup {lockFile.pid}
               ELSE IF watcher'[p] = "write" THEN robbed \ {p} ELSE robbed

Perish(p) ==
  /\ watcher[p] # "dead"
  /\ watcher' = [watcher EXCEPT ![p] = "dead"]
  /\ UNCHANGED <<lockFile, robbed>>

(* A run may take longer than stale_after_seconds.                           *)
LockAges ==
  /\ lockFile.reading = "fresh"
  /\ lockFile' = [lockFile EXCEPT !.reading = "old"]
  /\ UNCHANGED <<watcher, robbed>>

LockNext ==
  \/ \E p \in Watcher : lockStep(p) \/ Perish(p)
  \/ LockAges

LockSpec == LockInit /\ [][LockNext]_lockVars

-----------------------------------------------------------------------------
inside == {p \in Watcher : watcher[p] \in {"in", "remove"}}

(* "one_watcher_process_per_repo", as far as it goes: two watchers work side *)
(* by side only when all of them but one have been robbed of their lock in   *)
(* their lifetime, by a watcher that found it old, half written, or in the   *)
(* place of a lock that it had judged before.                                *)
OneWatcherButForRobbery == Cardinality(inside \ robbed) <= 1

(* The lock of a dead watcher does not keep the others out for good.         *)
DeadLockIsReclaimed ==
  (lockFile.pid \in Watcher /\ watcher[lockFile.pid] = "dead") ~>
    (lockFile.pid \notin Watcher \/ watcher[lockFile.pid] # "dead"
      \/ \A p \in Watcher : watcher[p] = "dead")

=============================================================================
