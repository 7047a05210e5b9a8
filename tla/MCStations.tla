----------------------------- MODULE MCStations -----------------------------
(* Small instances of the components that share no variable with each other: *)
(* a behaviour belongs to one of them, which is chosen at the start.         *)
EXTENDS ActDaemon, StoreJournal, EditLease, Presence, StatusQueue, Recovery, WatcherLock,
        InboxWatcher, TaskChain, BlockedRemediator, SessionMemory, CpuAlerts, Snapshots,
        LeasedWrite, TLC

CONSTANTS am1, am2, ag1, ag2, g1, f1, f2, f3, f4, f5, c1, c2, b1, b2, b3, base, s1, s2, noSnap,
          Stations   \* the components that a run is about

VARIABLE station

MCLanes == <<"library", "kernel">>
MCActLane == am1 :> "library" @@ am2 :> "kernel"
MCActPriority == am1 :> "P0" @@ am2 :> "P3"
(* Agents of one lane differ in nothing but their name. *)
AgentsAlike == Permutations(Agent)

MCAgentLane == [a \in Agent |-> "library"]
MCSignature == [i \in QItem |-> IF i = g1 THEN "genuine" ELSE "forged"]
MCKey == f1 :> "k" @@ f2 :> "k" @@ f3 :> "z" @@ f4 :> "h" @@ f5 :> "o"
MCNature == f1 :> "action" @@ f2 :> "plain" @@ f3 :> "alien" @@ f4 :> "plain" @@ f5 :> "keyless"
MCConsensus == f1 :> "route" @@ f2 :> "escalate" @@ f3 :> "route" @@ f4 :> "hold" @@ f5 :> "route"
MCCallLane == "x" :> "kernel" @@ "y" :> "kernel" @@ "z" :> "library"
MCChainKind == c1 :> "task" @@ c2 :> "reviewed_amendment"
MCBase == b1 :> base @@ b2 :> base @@ b3 :> NoBase
MCMarks == b1 :> {} @@ b2 :> {} @@ b3 :> {"lease", "contradicts"}
MCConsecutive == [warning |-> 2, critical |-> 3, emergency |-> 2]
MCCooldown == [warning |-> 2, critical |-> 1, emergency |-> 1]

Init ==
  /\ station \in Stations
  /\ ActInit /\ JournalInit /\ LeaseInit /\ PresenceInit /\ QueueInit /\ RecoveryInit
  /\ LockInit /\ WatchInit /\ ChainInit /\ RemediatorInit /\ MemoryInit /\ AlertInit
  /\ SnapshotInit /\ LibraryInit /\ LeasedWriteInit
  /\ attested \in (IF station = "queue" THEN BOOLEAN ELSE {FALSE})
  /\ signing \in (IF station = "recovery" THEN BOOLEAN ELSE {FALSE})

Next ==
  /\ UNCHANGED station
  /\ IF station = "act" THEN ActNext ELSE UNCHANGED actVars
  /\ IF station = "journal" THEN JournalNext ELSE UNCHANGED journalVars
  /\ IF station = "lease" THEN LeaseNext ELSE UNCHANGED leaseVars
  /\ IF station = "presence" THEN PresenceNext ELSE UNCHANGED presenceVars
  /\ IF station = "queue" THEN QueueNext ELSE UNCHANGED <<verificationVars, queueVars>>
  /\ IF station = "recovery" THEN RecoveryNext ELSE UNCHANGED recoveryVars
  /\ IF station = "lock" THEN LockNext ELSE UNCHANGED lockVars
  /\ IF station = "watch" THEN WatchNext ELSE UNCHANGED watchVars
  /\ IF station = "chain" THEN ChainNext ELSE UNCHANGED chainVars
  /\ IF station = "remediator" THEN RemediatorNext ELSE UNCHANGED remediatorVars
  /\ IF station = "memory" THEN MemoryNext ELSE UNCHANGED memoryVars
  /\ IF station = "alert" THEN AlertNext ELSE UNCHANGED alertVars
  /\ IF station = "snapshot" THEN SnapshotNext ELSE UNCHANGED snapshotVars
  /\ IF station = "library" THEN LibraryNext ELSE UNCHANGED libVars
  /\ IF station = "write" THEN LeasedWriteNext ELSE UNCHANGED writeVars

vars == <<station, actVars, journalVars, leaseVars, presenceVars, verificationVars, queueVars,
          recoveryVars, lockVars, watchVars, chainVars, remediatorVars, memoryVars, alertVars,
          snapshotVars, libVars, writeVars>>

Spec == Init /\ [][Next]_vars

(* Each component's own fairness, where it is the one that runs.             *)
FairSpec ==
  /\ Spec
  /\ WF_actVars(station = "act" /\ daemonStep)
  /\ WF_presenceVars(station = "presence" /\ watcherStep)
  /\ \A v \in Visitor : WF_presenceVars(station = "presence" /\ setWatcherMode(v))
  /\ \A p \in Watcher : WF_lockVars(station = "lock" /\ lockStep(p))
  /\ WF_watchVars(station = "watch" /\ watchStep)
  /\ WF_snapshotVars(station = "snapshot" /\ start)
  /\ WF_snapshotVars(station = "snapshot" /\ poll)
  /\ WF_snapshotVars(station = "snapshot" /\ loopStep)
  /\ \A p \in Poll : WF_libVars(station = "library" /\ pollStep(p))

(* Every component's variables have their types.                             *)
TypesOK ==
  /\ ActTypeOK /\ JournalTypeOK /\ LeaseTypeOK /\ PresenceTypeOK /\ VerificationTypeOK
  /\ QueueTypeOK /\ RecoveryTypeOK /\ LockTypeOK /\ WatchTypeOK /\ ChainTypeOK
  /\ RemediatorTypeOK /\ MemoryTypeOK /\ AlertTypeOK /\ SnapshotTypeOK /\ LibraryTypeOK
  /\ LeasedWriteTypeOK

(* Nothing keeps the watchers off a lane for good: neither what an agent has *)
(* left behind nor the lock of a dead watcher.                               *)
LaneIsWatchedAgain == WatcherComesBack /\ DeadLockIsReclaimed
=============================================================================
