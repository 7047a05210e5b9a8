--------------------------- MODULE Stations_proof ----------------------------
(* What is proved of each component alone holds of the components side by    *)
(* side: each of them runs by its own specification.                         *)
EXTENDS MCStations, Start_proof, Watch_proof, Records_proof

-----------------------------------------------------------------------------
(* A step of the stations is a step of each component, or leaves it alone.   *)
LEMMA StepOfEachStation ==
  ASSUME [Next]_vars
  PROVE  /\ [ActNext]_actVars /\ [JournalNext]_journalVars /\ [LeaseNext]_leaseVars
         /\ [PresenceNext]_presenceVars /\ [QueueNext]_<<verificationVars, queueVars>>
         /\ [RecoveryNext]_recoveryVars /\ [LockNext]_lockVars /\ [WatchNext]_watchVars
         /\ [ChainNext]_chainVars /\ [RemediatorNext]_remediatorVars
         /\ [MemoryNext]_memoryVars /\ [AlertNext]_alertVars /\ [SnapshotNext]_snapshotVars
         /\ [LibraryNext]_libVars /\ [LeasedWriteNext]_writeVars
<1>1. CASE Next
  BY <1>1, Zenon DEF Next
<1>2. CASE UNCHANGED vars
  BY <1>2 DEF vars
<1> QED BY <1>1, <1>2

(* Whichever station a behaviour belongs to, every component behaves as its  *)
(* own specification says: the theorems on the components hold of the        *)
(* stations that the run checks.                                             *)
THEOREM EachStationRuns ==
  Spec => /\ ActSpec /\ JournalSpec /\ LeaseSpec /\ PresenceSpec /\ QueueSpec
          /\ RecoverySpec /\ LockSpec /\ WatchSpec /\ ChainSpec /\ RemediatorSpec
          /\ MemorySpec /\ AlertSpec /\ SnapshotSpec /\ LibrarySpec /\ LeasedWriteSpec
<1>1. Init => /\ ActInit /\ JournalInit /\ LeaseInit /\ PresenceInit /\ QueueInit
              /\ RecoveryInit /\ LockInit /\ WatchInit /\ ChainInit /\ RemediatorInit
              /\ MemoryInit /\ AlertInit /\ SnapshotInit /\ LibraryInit /\ LeasedWriteInit
  BY DEF Init
<1>2. [Next]_vars =>
        /\ [ActNext]_actVars /\ [JournalNext]_journalVars /\ [LeaseNext]_leaseVars
        /\ [PresenceNext]_presenceVars /\ [QueueNext]_<<verificationVars, queueVars>>
        /\ [RecoveryNext]_recoveryVars /\ [LockNext]_lockVars /\ [WatchNext]_watchVars
        /\ [ChainNext]_chainVars /\ [RemediatorNext]_remediatorVars
        /\ [MemoryNext]_memoryVars /\ [AlertNext]_alertVars /\ [SnapshotNext]_snapshotVars
        /\ [LibraryNext]_libVars /\ [LeasedWriteNext]_writeVars
  BY StepOfEachStation
<1> QED
  BY <1>1, <1>2, PTL
     DEF Spec, ActSpec, JournalSpec, LeaseSpec, PresenceSpec, QueueSpec, RecoverySpec,
         LockSpec, WatchSpec, ChainSpec, RemediatorSpec, MemorySpec, AlertSpec,
         SnapshotSpec, LibrarySpec, LeasedWriteSpec

(* For any number of messages, files, processes, calls and failures, every   *)
(* variable of every component keeps its type.                               *)
THEOREM TypesAreAlwaysOK == Spec => []TypesOK
<1>1. /\ ActTypeOK /\ JournalTypeOK /\ LeaseTypeOK /\ PresenceTypeOK
      /\ VerificationTypeOK /\ QueueTypeOK /\ RecoveryTypeOK /\ LockTypeOK /\ WatchTypeOK
      /\ ChainTypeOK /\ RemediatorTypeOK /\ MemoryTypeOK /\ AlertTypeOK /\ SnapshotTypeOK
      /\ LibraryTypeOK /\ LeasedWriteTypeOK
      => TypesOK
  BY DEF TypesOK
<1> QED
  BY <1>1, EachStationRuns, ActTypesAlways, JournalTypesAlways, LeaseTypesAlways,
     PresenceTypesAlways, QueueTypesAlways, RecoveryTypeCorrect, LockTypesAlways,
     WatchTypesAlways, ChainTypesAlways, RemediatorTypesAlways, MemoryTypesAlways,
     AlertTypesAlways, SnapshotTypesAlways, LibraryTypesAlways, LeasedWriteTypesAlways, PTL
=============================================================================
