----------------------------- MODULE Snapshots -----------------------------
(* The two watchers of the snapshots, side by side: each has its own state   *)
(* file and its own record of what it has processed.                         *)
EXTENDS SnapshotWatcher, LibrarySnapshots

(* What the two snapshot watchers have on record as processed they have      *)
(* processed, and nothing twice, but for the reasons that each of them names.*)
SnapshotRecordsAreTrue == RecordedIsHanded /\ RepeatedWasOverlapped /\ RecordedWasAnalysed

(* Each of them gets to every snapshot.                                      *)
SnapshotsAreProcessed == SnapshotsAreReached /\ LibraryIsReached
=============================================================================
