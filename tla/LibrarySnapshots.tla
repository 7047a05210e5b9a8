-------------------------- MODULE LibrarySnapshots --------------------------
(* The watcher that runs the Library's analyzer on new snapshots             *)
(* (scripts/library-snapshot-watcher.js): each poll loads the state file,    *)
(* runs the analyzer on what is new and saves its own copy of the state at   *)
(* its end. After the first poll an interval starts one whether or not the   *)
(* one before is over.                                                       *)
EXTENDS Integers

CONSTANTS
  LibSnap,       \* the names of the snapshots
  Poll,          \* the polls that can be under way at once
  MaxLibWrites,  \* bound: writes of snapshots, which are the modification times
  MaxLibDeaths,  \* bound: deaths of the watcher
  MaxLibErrors   \* bound: analyzers that cannot be started

ASSUME LibraryAssumption == {MaxLibWrites, MaxLibDeaths, MaxLibErrors} \subseteq Nat

VARIABLES
  libTime,     \* libTime[s]: the last write of s, 0 before the first
  libRecord,   \* the state file, as last written
  libIntact,   \* it can be parsed
  intervalOn,  \* the first poll is over
  pollState,   \* pollState[p]: the copy of the poll p
  newSnapshots,\* newSnapshots[p]: what it has yet to analyse, with the times listed,
               \* of which it takes the latest
  libPhase,    \* libPhase[p]: "over", "analyse" or "save"
  analysed,    \* the pairs of a snapshot and the write that the analyzer was run on
  twice,       \* those of them it was run on again
  disturbed,   \* two polls were under way, a snapshot was written between its listing
               \* and its analysis, an analyzer did not start or a poll was cut off
  libDeaths, libErrors

libVars == <<libTime, libRecord, libIntact, intervalOn, pollState, newSnapshots, libPhase,
             analysed, twice, disturbed, libDeaths, libErrors>>

LibTime == 0..MaxLibWrites
NoRecord == [s \in LibSnap |-> 0]

LibraryTypeOK ==
  /\ libTime \in [LibSnap -> LibTime] /\ libRecord \in [LibSnap -> LibTime]
  /\ {libIntact, intervalOn, disturbed} \subseteq BOOLEAN
  /\ pollState \in [Poll -> [LibSnap -> LibTime]]
  /\ newSnapshots \in [Poll -> SUBSET (LibSnap \X LibTime)]
  /\ libPhase \in [Poll -> {"over", "analyse", "save"}]
  /\ analysed \subseteq LibSnap \X LibTime /\ twice \subseteq analysed
  /\ libDeaths \in 0..MaxLibDeaths /\ libErrors \in 0..MaxLibErrors

LibraryInit ==
  /\ libTime = NoRecord /\ libRecord = NoRecord /\ libIntact = TRUE /\ intervalOn = FALSE
  /\ pollState = [p \in Poll |-> NoRecord] /\ newSnapshots = [p \in Poll |-> {}]
  /\ libPhase = [p \in Poll |-> "over"]
  /\ analysed = {} /\ twice = {} /\ disturbed = FALSE /\ libDeaths = 0 /\ libErrors = 0

underWay == {p \in Poll : libPhase[p] # "over"}
libWrites == CHOOSE t \in LibTime : /\ \A s \in LibSnap : libTime[s] <= t
                                    /\ t = 0 \/ \E s \in LibSnap : libTime[s] = t

-----------------------------------------------------------------------------
LibraryWrites(s) ==
  /\ libWrites < MaxLibWrites
  /\ libTime' = [libTime EXCEPT ![s] = libWrites + 1]
  /\ UNCHANGED <<libRecord, libIntact, intervalOn, pollState, newSnapshots, libPhase,
                 analysed, twice, disturbed, libDeaths, libErrors>>

loadRecord == IF libIntact THEN libRecord ELSE NoRecord

findNewSnapshots(record) == {<<s, libTime[s]>> : s \in {x \in LibSnap : record[x] < libTime[x]}}

(* A poll that finds nothing is over at once; the first one is waited for.   *)
processSnapshots(p) ==
  /\ p \notin underWay /\ (intervalOn \/ underWay = {})
  /\ LET new == findNewSnapshots(loadRecord)
     IN IF new = {}
        THEN /\ ~intervalOn /\ intervalOn' = TRUE
             /\ UNCHANGED <<pollState, newSnapshots, libPhase, disturbed>>
        ELSE /\ pollState' = [pollState EXCEPT ![p] = loadRecord]
             /\ newSnapshots' = [newSnapshots EXCEPT ![p] = new]
             /\ libPhase' = [libPhase EXCEPT ![p] = "analyse"]
             /\ disturbed' = (disturbed \/ underWay # {})
             /\ UNCHANGED intervalOn
  /\ UNCHANGED <<libTime, libRecord, libIntact, analysed, twice, libDeaths, libErrors>>

(* The latest of what a poll has yet to analyse, and that it is done with it.*)
isNext(p, x) == x \in newSnapshots[p] /\ \A y \in newSnapshots[p] : y[2] <= x[2]
advance(p, x) ==
  /\ newSnapshots' = [newSnapshots EXCEPT ![p] = @ \ {x}]
  /\ libPhase' = [libPhase EXCEPT ![p] = IF newSnapshots[p] = {x} THEN "save" ELSE "analyse"]

(* A fault for the model checker: an analyzer that did not start is recorded.*)
runAnalyzer_RecordsErrors(p, x) ==
  /\ libPhase[p] = "analyse" /\ isNext(p, x) /\ advance(p, x)
  /\ pollState' = [pollState EXCEPT ![p][x[1]] = x[2]]
  /\ LET now == <<x[1], libTime[x[1]]>>
     IN \/ /\ analysed' = analysed \cup {now} /\ twice' = twice \cup ({now} \cap analysed)
           /\ disturbed' = (disturbed \/ now # x)
           /\ UNCHANGED libErrors
        \/ /\ libErrors < MaxLibErrors /\ libErrors' = libErrors + 1 /\ disturbed' = TRUE
           /\ UNCHANGED <<analysed, twice>>
  /\ UNCHANGED <<libTime, libRecord, libIntact, intervalOn, libDeaths>>

(* The analyzer is run on the file as it is now; what was listed is recorded,*)
(* whatever the analyzer's exit code is, unless it could not be started.     *)
runAnalyzer(p, x) ==
  /\ libPhase[p] = "analyse" /\ isNext(p, x) /\ advance(p, x)
  /\ LET now == <<x[1], libTime[x[1]]>>
     IN \/ /\ analysed' = analysed \cup {now} /\ twice' = twice \cup ({now} \cap analysed)
           /\ pollState' = [pollState EXCEPT ![p][x[1]] = x[2]]
           /\ disturbed' = (disturbed \/ now # x)
           /\ UNCHANGED libErrors
        \/ /\ libErrors < MaxLibErrors /\ libErrors' = libErrors + 1 /\ disturbed' = TRUE
           /\ UNCHANGED <<pollState, analysed, twice>>
  /\ UNCHANGED <<libTime, libRecord, libIntact, intervalOn, libDeaths>>

(* The whole of this poll's copy goes to the file.                           *)
savePoll(p) ==
  /\ libPhase[p] = "save"
  /\ libRecord' = pollState[p] /\ libIntact' = TRUE /\ intervalOn' = TRUE
  /\ libPhase' = [libPhase EXCEPT ![p] = "over"]
  /\ UNCHANGED <<libTime, pollState, newSnapshots, analysed, twice, disturbed,
                 libDeaths, libErrors>>

(* The process ends, in the middle of saving or not, and another is started. *)
libraryDies ==
  /\ libDeaths < MaxLibDeaths
  /\ libDeaths' = libDeaths + 1 /\ intervalOn' = FALSE
  /\ newSnapshots' = [p \in Poll |-> {}] /\ libPhase' = [p \in Poll |-> "over"]
  /\ disturbed' = (disturbed \/ underWay # {})
  /\ \/ UNCHANGED libIntact
     \/ "save" \in {libPhase[p] : p \in Poll} /\ libIntact' = FALSE
  /\ UNCHANGED <<libTime, libRecord, pollState, analysed, twice, libErrors>>

pollStep(p) ==
  \/ processSnapshots(p) \/ savePoll(p)
  \/ \E x \in newSnapshots[p] : runAnalyzer(p, x)

LibraryNext ==
  \/ \E s \in LibSnap : LibraryWrites(s)
  \/ \E p \in Poll : pollStep(p)
  \/ libraryDies

LibrarySpec == LibraryInit /\ [][LibraryNext]_libVars

-----------------------------------------------------------------------------
(* The analyzer was run on what the state file says was processed, or on a   *)
(* later write of it, whatever polls overlap, fail or are cut off; and it is *)
(* run again on the same write only after one of that.                       *)
RecordedWasAnalysed ==
  /\ \A s \in LibSnap : libRecord[s] > 0 => \E a \in analysed : a[1] = s /\ a[2] >= libRecord[s]
  /\ twice # {} => disturbed

(* A snapshot that is newer than its record is analysed and recorded.        *)
LibraryIsReached ==
  \A s \in LibSnap : libRecord[s] < libTime[s] ~> libRecord[s] >= libTime[s]
=============================================================================
