---------------------------- MODULE LeasedWrite ----------------------------
(* Writing a file under a lease (scripts/util/atomic-write.js,               *)
(* atomicWriteWithLease): the lease file is looked for, then put in place by *)
(* a rename that replaces whatever is there; the content goes to a temporary *)
(* file of the process, is renamed over the target and read back.            *)
EXTENDS Naturals, FiniteSets

CONSTANTS
  Call,         \* the calls that are made for one file, each in a process of its own
  callLane,     \* callLane[c]: the lane that c acts for
  NoLane, NoCall,
  MAX_RETRIES,
  MaxIoErrors,  \* bound: contents that cannot be written
  MaxExcuses    \* bound: excuses (see below) that the calls go on after

ASSUME LeasedWriteAssumption ==
  /\ NoLane \notin {callLane[c] : c \in Call} /\ NoCall \notin Call
  /\ MAX_RETRIES \in Nat \ {0} /\ {MaxIoErrors, MaxExcuses} \subseteq Nat

VARIABLES
  lease,        \* the lease file: its owner, and whether it is older than the time-out
  tmpLock,      \* the owner in the temporary lease file, whose name all calls share
  call,         \* call[c]: where c stands
  tries,        \* tries[c]: the attempts it has begun
  targetFile,   \* whose content the file has
  puts,         \* puts[c]: how often c has put its content in place, up to 2
  excuses,      \* what has happened that lets two calls in at once
  ioErrors

writeVars == <<lease, tmpLock, call, tries, targetFile, puts, excuses, ioErrors>>

CallLane == {callLane[c] : c \in Call}
NoLease == [owner |-> NoLane, old |-> TRUE]

LeasedWriteTypeOK ==
  /\ lease \in {NoLease} \cup [owner : CallLane, old : BOOLEAN]
  /\ tmpLock \in CallLane \cup {NoLane}
  /\ call \in [Call -> {"begin", "read", "unlink", "fill", "rename", "put", "verify", "mismatch",
                        "release", "wait", "written", "threw", "giveUp", "dead"}]
  /\ tries \in [Call -> 0..MAX_RETRIES]
  /\ targetFile \in Call \cup {NoCall} /\ puts \in [Call -> 0..2]
  /\ excuses \subseteq {"together", "ranOut", "sameLane"} /\ ioErrors \in 0..MaxIoErrors

LeasedWriteInit ==
  /\ lease = NoLease /\ tmpLock = NoLane
  /\ call = [c \in Call |-> "begin"] /\ tries = [c \in Call |-> 0]
  /\ targetFile = NoCall /\ puts = [c \in Call |-> 0] /\ excuses = {} /\ ioErrors = 0

goes(c, from, to) == call[c] = from /\ call' = [call EXCEPT ![c] = to]

(* Whoever has found no valid lease will put its own in place, whatever is   *)
(* there by then.                                                            *)
contending == {c \in Call : call[c] \in {"unlink", "fill", "rename"}}
atWork == {c \in Call : call[c] \in {"put", "verify", "mismatch", "release", "giveUp"}}

-----------------------------------------------------------------------------
(* The loop, up to existsSync; the last wait over, the call throws.          *)
tryAcquireLock(c) ==
  /\ call[c] \in {"begin", "wait"}
  /\ \/ /\ tries[c] < MAX_RETRIES
        /\ tries' = [tries EXCEPT ![c] = @ + 1]
        /\ call' = [call EXCEPT ![c] = IF lease = NoLease THEN "fill" ELSE "read"]
     \/ /\ call[c] = "wait" /\ call' = [call EXCEPT ![c] = "threw"] /\ UNCHANGED tries
  /\ UNCHANGED <<lease, tmpLock, targetFile, puts, ioErrors>>

(* A fault for the model checker: any valid lease is taken for one's own.    *)
readLockFile_AnyOwner(c) ==
  /\ goes(c, "read", IF lease.old THEN "unlink" ELSE "put")
  /\ UNCHANGED <<lease, tmpLock, tries, targetFile, puts, ioErrors>>

(* A lease that is gone by now counts as stale; one's own lane's is good.    *)
readLockFile(c) ==
  /\ goes(c, "read", IF lease.old THEN "unlink"
                     ELSE IF lease.owner = callLane[c] THEN "put" ELSE "wait")
  /\ UNCHANGED <<lease, tmpLock, tries, targetFile, puts, ioErrors>>

unlinkStaleLease(c) ==
  /\ goes(c, "unlink", "fill")
  /\ lease' = NoLease
  /\ UNCHANGED <<tmpLock, tries, targetFile, puts, ioErrors>>

fillTmpLock(c) ==
  /\ goes(c, "fill", "rename")
  /\ tmpLock' = callLane[c]
  /\ UNCHANGED <<lease, tries, targetFile, puts, ioErrors>>

(* The rename fails when another call has renamed the temporary file away.   *)
renameTmpLock(c) ==
  /\ goes(c, "rename", IF tmpLock = NoLane THEN "wait" ELSE "put")
  /\ lease' = IF tmpLock = NoLane THEN lease ELSE [owner |-> tmpLock, old |-> FALSE]
  /\ tmpLock' = NoLane
  /\ UNCHANGED <<tries, targetFile, puts, ioErrors>>

(* An error, in writing or in reading back, leads to another attempt, with   *)
(* the lease kept for the wait, or to the end.                               *)
afterError(c) == IF tries[c] >= MAX_RETRIES THEN "giveUp" ELSE "mismatch"

putContent(c) ==
  /\ \/ /\ goes(c, "put", "verify")
        /\ targetFile' = c /\ puts' = [puts EXCEPT ![c] = IF @ = 2 THEN 2 ELSE @ + 1]
        /\ UNCHANGED ioErrors
     \/ /\ ioErrors < MaxIoErrors /\ goes(c, "put", afterError(c))
        /\ ioErrors' = ioErrors + 1 /\ UNCHANGED <<targetFile, puts>>
  /\ UNCHANGED <<lease, tmpLock, tries>>

verifyContent(c) ==
  /\ goes(c, "verify", IF targetFile = c THEN "release" ELSE afterError(c))
  /\ UNCHANGED <<lease, tmpLock, tries, targetFile, puts, ioErrors>>

(* releaseLock removes the lease file, whosever it is.                       *)
releaseLease(c) ==
  /\ \/ goes(c, "release", "written")
     \/ goes(c, "mismatch", "wait")
     \/ goes(c, "giveUp", "threw")
  /\ lease' = NoLease
  /\ UNCHANGED <<tmpLock, tries, targetFile, puts, ioErrors>>

callStep(c) ==
  /\ Cardinality(excuses) <= MaxExcuses
  /\ \/ tryAcquireLock(c) \/ readLockFile(c) \/ unlinkStaleLease(c) \/ fillTmpLock(c)
     \/ renameTmpLock(c) \/ putContent(c) \/ verifyContent(c) \/ releaseLease(c)
  /\ excuses' = excuses
       \cup (IF c \in contending' /\ contending \ {c} # {} THEN {"together"} ELSE {})
       \cup (IF c \in atWork' /\ \E x \in atWork \ {c} : callLane[x] = callLane[c]
             THEN {"sameLane"} ELSE {})

(* The process is killed.                                                    *)
CallDies(c) ==
  /\ call[c] \notin {"written", "threw", "dead"}
  /\ call' = [call EXCEPT ![c] = "dead"]
  /\ UNCHANGED <<lease, tmpLock, tries, targetFile, puts, excuses, ioErrors>>

(* The time-out of the lease passes.                                         *)
LeaseRunsOut ==
  /\ ~lease.old
  /\ lease' = [lease EXCEPT !.old = TRUE]
  /\ excuses' = excuses \cup (IF atWork # {} THEN {"ranOut"} ELSE {})
  /\ UNCHANGED <<tmpLock, call, tries, targetFile, puts, ioErrors>>

LeasedWriteNext == (\E c \in Call : callStep(c) \/ CallDies(c)) \/ LeaseRunsOut

LeasedWriteSpec == LeasedWriteInit /\ [][LeasedWriteNext]_writeVars

-----------------------------------------------------------------------------
(* Two calls write side by side only if a lease ran out under its holder,    *)
(* two calls of one lane met, or two found the file without a valid lease at *)
(* the same time: the rename then excludes nobody.                           *)
OneWriterUnlessExcused == excuses = {} => Cardinality(atWork) <= 1

(* Without such an encounter a call puts its content in place at most once,  *)
(* and one that throws has not done so: its caller may keep what it had.     *)
WhoThrowsHasNotWritten ==
  excuses = {} => \A c \in Call : puts[c] <= 1 /\ (call[c] = "threw" => puts[c] = 0)

LeasedWritesAreExclusive == OneWriterUnlessExcused /\ WhoThrowsHasNotWritten
=============================================================================
