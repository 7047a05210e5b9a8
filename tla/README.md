# A verification of the lane message system

This directory holds TLA+ models of the part of the repository that moves work
between its agents: the inbox, the decision on each message, the queues, the
programs that execute tasks, the relay between lanes, and the programs beside
them that keep records, locks and leases. TLC checks the models on small
instances; TLAPS proves the theorems listed below for every value of the
constants.

Paths are relative to the repository (`scripts/lane-worker.js` is
`src/scripts/lane-worker.js` here).

## 1. The system

Four *lanes* (`archivist`, `kernel`, `library`, `swarmmind`) each own a clone of
the repository and, in it, directories that serve as queues: `inbox`,
`action-required`, `in-progress`, `processed`, `blocked`, `quarantine`,
`needs-review`, `stale-foreign`, `outbox`. A message is a JSON file. There is no
broker and no lock around the directories: processes list them, read a file,
write a copy and unlink the source, or rename. All of the difficulty is in what
happens between two such steps.

| Part | State | Operations | Interacts with |
|---|---|---|---|
| Routing gate: `completion-proof.js`, `execution-gate.js`, `verification-domain-gate.js`, `artifact-resolver.js`, `identity-enforcer.js`, `SchemaValidator.js`, `decideRoute` in `lane-worker.js` | none; it reads the disk for evidence | decide a queue and a reason | called by the worker |
| Lane worker: `lane-worker.js` | its session id, its ownership claim file, the files it has listed, the file in hand | start, claim, list, read, repair, write copy, unlink, report (NACK), park foreign or deferred files, stop | every directory, the reaper, other workers |
| Task executors: `generic-task-executor.js`, `executor-watcher.js`, `autonomous-executor.js` | the file in hand, the child process | take (rename), execute, answer, finish; guard and block; hold, return, expire; time out | `action-required`, `in-progress`, the inbox (answers), the journal |
| Quarantine reaper: `quarantine-reaper.js` | none | expire or re-queue quarantined files | the worker, by the inbox |
| Relay daemon: `relay-daemon.js`, `claim-commit-guard.js` | the stage of its tick, the files listed, the file in hand | deliver the outbox, collect from other outboxes and from cross inboxes, reject, archive | other lanes' daemons and workers |
| Inbox watcher: `inbox-watcher.js`, `lease-write.js` | processed keys and the batch in memory, quarantine tracker | scan, preempt, ask consensus, handle, move, until a scan finds nothing | the lane worker by the inbox, the watcher lock |
| Leased writes: `util/atomic-write.js` | the lease file, temporary files | acquire, put the content, read it back, release, try again | whoever writes the same file |
| Watcher lock: `concurrency-policy.js` | the lock file | create exclusively, judge, take over, release | every watcher of a lane |
| Agent presence: `agent-presence.js` | lock file and mode file | acquire, release, set the mode, may the watcher run | agents and the watcher |
| Blocked remediator: `blocked-remediator.js` | the items of its scan | scan, deduplicate, judge by rules, move | `blocked` and `quarantine`, beside reaper and worker |
| Task chains: `task-chain-engine.js` | active chains, in memory and in a file | scan, follow up, block orphans, save | inboxes |
| Act daemon: `act-daemon.js` | its state file, the batch | scan, session per message, alarm, shutdown | `inbox`, `processed`, `expired` of every lane |
| Store journal: `store-journal.js` | entries, snapshot | append, preflight, render, autofix | agents that ask who owns a path |
| Edit leases: `edit-lease-manager.js` | the file of intents | claim, heartbeat, release, expire | agents of all lanes |
| Status queues: `queue/Queue.js` | the queue file, a temporary file | enqueue, updateStatus | the verification of items |
| Verification: `attestation/Verifier.js`, `VerifierWrapper.js`, `QuarantineManager.js` | quarantine, retry timers, the hand-off signal | verify, retry, release, hand off, reload keys | the status queues |
| Recovery: `resilience/RecoveryClassifier.js`, `ContinuityVerifier.js` | failures, quarantine, fingerprint | start, classify, recover, clear, expire | what starts a lane |
| Session memory: `memory/SessionMemory.js` | the memory file, one copy per process | load, begin, record, end | the sessions of a lane |
| Resource alerts: `adaptive-cpu-alerts.js` | counts and cooldowns, in a file | sample, report | the lane worker |
| Snapshot watchers: `src/lib/analysis/graph-snapshot-watcher.ts` (started by `scripts/watch-graph-snapshots.ts`), `library-snapshot-watcher.js` | a state file of times; a queue in memory, or one copy of the state per poll | poll, wait, parse, record, save, hand over; list, analyse, save | whoever writes graph snapshots |
| Guards, synchronisation, repair tools, web site | generated data, logs | see section 7 | the repository |

What is hard: several programs that do not know of each other rename and unlink
the same files; a worker's write and unlink are two steps with a crash between
them; ownership and the session stamp are read once and used later; the reaper
sends files back that have been stamped; executors call other executors that
look in a different directory; the relay moves a direct message from both ends.
The programs beside them have the same trouble with single files: each command
loads a file, decides and writes the whole file back, with an `await`, a death or
another command in between; locks are judged stale by one step and removed by the
next; timers outlive what they were set for; what one process remembers is lost,
or kept, by a restart.

What makes each part correct:

- gate: open work is never refused for evidence it cannot have, a claim of
  completion is accepted only with evidence on disk, a refusal does not become
  an admission when the same message comes again;
- worker: no message is lost, a refusal reaches its sender, a message waits in
  `needs-review` or `stale-foreign` only for the reason the code gives;
- executors: only admitted work runs, each admission runs at most once, the
  journal does not claim completion of what has not been filed, what waits is reached;
- relay: the outbox keeps a message until every target has it, a message
  arrives a bounded number of times, every target is reached;
- inbox watcher: no file vanishes, no action is repeated in one life of the
  process, and the inbox is worked off although the lane worker takes from it;
- lock and presence: one watcher at a time, none beside an agent, and none kept
  off for good by what a dead one has left behind;
- leased writes: one call writes a file at a time, and one that fails has left it alone,
  as far as a lease put in place by a rename can see to it;
- records (journal, leases, queue, memory): what was recorded stays, what was
  given to one is not given to another, a decision is taken once;
- restarts (act daemon, recovery, chains, alerts): what was done is not done
  again, a change of the code or a lasting load is reported, and only what a
  crash has cut off, or a rotated key has made unreadable, is forgotten;
- snapshots: what is on record as processed was processed, nothing twice, and each
  snapshot is reached, but for reasons that can be named.

## 2. Modules

| Module | Models |
|---|---|
| `CompletionProof` | `completion-proof.js`, `artifact-resolver.js`: what counts as proof, which follow-ups are owed, which references resolve |
| `RoutingGate` | `decideRoute` with the schema, identity, execution and domain gates it calls, and the repair that precedes it, as operators on a message |
| `MessageRouting` | one message through the gate while evidence, leases and the reaper change the world around it; the properties of the gate |
| `LaneFiles` | the directories, file names and suffixes, and the four operations on them; the journal, which refuses events it does not know and completions without a handoff |
| `LaneWorker` | the worker process, one action per step between which others can act |
| `LaneExecutor` | the three executor programs, their calls of each other, exceptions and time-outs |
| `LanePipeline` | composes workers, executors, reaper and deliveries; the properties of a lane |
| `Courier` | abstract: what lanes may expect of the transport |
| `RelayDaemon` | the daemons; `Transport` instantiates `Courier` under a refinement mapping |
| `InboxWatcher` | the scheduled inbox watcher, with leased moves, deaths and the other takers of its inbox |
| `WatcherLock` | `acquireWatcherLock`: exclusive creation, judgement, takeover, release |
| `Presence` | an agent's lock and mode files against the watcher's check |
| `BlockedRemediator` | a pass over `blocked` and then `quarantine`, file by file, beside what is parked there (again), aged, taken back or handled |
| `TaskChain` | a run of the chain engine: iterations, up to two follow-ups of a task, orphans, saving; messages from elsewhere that name a chain |
| `ActDaemon` | start, poll, batch, sessions, state file, alarm |
| `StoreJournal` | the ledger, the loop that yields ownership from `active_ownership`, the snapshot, runs of autofix that may overlap |
| `LeasedWrite` | `atomicWriteWithLease`: the lease file, the content, reading back, attempts |
| `EditLease` | claims, heartbeats and releases by commands that load and save |
| `Verification` | checks of signed items, quarantine, retries, hand-off |
| `StatusQueue` | extends `Verification`: enqueue and updateStatus step by step |
| `Recovery` | failure classes, quarantine and fingerprint over starts, torn files and rotated keys |
| `SessionMemory` | the memory file and the copies of the processes that use it |
| `CpuAlerts` | counts, reports and cooldowns over restarts |
| `SnapshotWatcher` | the queue of the graph snapshots and the one loop that works it off while polls add to it |
| `LibrarySnapshots` | polls that may overlap, each with its own copy of the state |
| `Snapshots` | both, with the properties that speak of both |
| `MCMessageRouting`, `MCLanePipeline`, `MCRelay`, `MCStations` | instances for TLC |
| `RoutingGate_proof`, `MessageRouting_proof`, `LanePipeline_proof`, `RelayDaemon_proof`, `Start_proof` (`Recovery`, `ActDaemon`, `CpuAlerts`), `Watch_proof` (`WatcherLock`, `InboxWatcher`, `Presence`, `Snapshots`), `Records_proof` (`Verification`, `StatusQueue`, `StoreJournal`, `TaskChain`, `BlockedRemediator`, `SessionMemory`, `EditLease`, `LeasedWrite`), `Stations_proof` (`MCStations`) | theorems and proofs |

### How state and actions correspond to the code

*Messages.* The gate reads a few dozen facts of a message. `Message` in
`CompletionProof` is a record with one field per fact (whether the JSON parses,
what the schema check says, the signature verdict, type, task kind,
`requires_action`, proof fields present, follow-up owed, timestamps in order, the
named artifact on disk, and so on). Parsing, hashing, signatures and the text of
reasons are left out; which reason it is stays, because the documentation and the
reaper tell them apart. `decideRoute` is the sequence `formVerdict`,
`claimVerdict`, `gateVerdict` of early returns, each "next" when the block of
code falls through. An exception inside it is the verdict `Throw`: `processOnce`
catches it and leaves the file in the inbox. `Remediate` is the repair
`processFile` applies first.

*Files.* `box[<<directory, name>>]` is `NoFile` or the stamp of the worker session
that wrote the file. A name is a message and a suffix; `uniquePath` gives any free
suffix, as the timestamp does. `write`, `unlink`, `rename` are the file system
calls, each atomic; nothing larger is.

*Worker.* `ListInbox`, `ReadFile` (with the whole of `decideRoute`), `WriteCopy`,
`UnlinkSource`, `Report`, `MoveFile` are the steps of `processOnce`;
`StartWorker`, `ClaimActiveOwner`, `OwnerClaimAges`, `StopWorker` its life. A stop
may come between any two steps. An unlink of a file that has gone throws, which
skips the journal entry and the NACK: `UnlinkSource` ends the job then.

*Executors.* `phase[x]`, `own[x]`, `cur[x]` are the program counter, the file an
outer executor looked at, and the file an inner run works on. `Take` is the rename
that decides who runs a task. `AutonomousHold` / `AutonomousRun` / `AutonomousClose`
follow `executeTaskWithJournal`, including that the inner program lists
`action-required` while the task is in `in-progress`. `Throws` and `Crash` are the
exceptions and the 30 s time-out of the child. `log` is a call of `store-journal.js`
append: it refuses an event that is not in `validEvents` and a completion without a
handoff, and the callers go on either way, as `appendStoreJournal` swallows the failure.
So `WatcherClose` changes nothing but its own state. `WatcherBlock` is the verdict WARN:
BLOCK ends the journal's process with 1, which the watcher takes for a skipped check.

*Relay.* `file[m]` is a posted file, which is half written for a while. `stage`,
`todo`, `list`, `job` of a daemon are the stage of its tick, the lanes still to
visit, the names listed and not read, and the message in hand with the targets
left. `SendTo`, `Archive`, `Copy`, `Remove`, `Reject` are single file operations
of two daemons that run at the same time. `Crash` may come between any of them.

*Inbox watcher.* `filed` is the relation of files and directories: a file can be in
two while it is copied and not yet removed. `step`, `listed`, `batch`, `moving` are
the program counter, the names not yet read, what has been read, and the move under
way. What the scan makes of a file and what the consensus script (which the
repository does not hold) says of it are constants. A message without a key to be known
by is filed unhandled. `TakeAway` is the lane worker, `refuseMutation` the guard of the
lane's mode, `moveFails` a lease that is not to be had or the undefined `safeUnlink` of
`lease-write.js`.

*Lock.* `lockFile` holds whose it is and what a reader makes of it: torn between
creation and writing, fresh, or old. `watcher[p]` is where `acquireWatcherLock`
stands; judging, unlinking and creating again are steps of their own.

*Leased writes.* `lease` is the lease file, `tmpLock` the temporary file that becomes one,
`call[c]` where a call stands between two file operations. `contending` are the calls
that have found no valid lease, `atWork` those that `tryAcquireLock` has let in.
`excuses` records the three encounters that let a second one in.

*Presence.* `acquire` and `release` each write two files, one per step; `settled`
remembers which agents had finished before the watcher began to look.

*Records.* A command of the journal, of the leases or of the queue is loaded, decided
and written in separate steps wherever the code lets another process in.
`overlapped`, `raced` and `interleaved` say that two commands have overlapped: what the
code promises only in turn is stated under them, and what it promises however they
overlap (`OwnershipIsTheLatestClaim`, `OneRetryPerCall`) is not. The journal is the
sequence of its entries, since a line is appended by one system call; who owns a path
is what the loop of `buildOwnershipState` has when it has gone through it (`ownershipAfter`,
a recursive function of the position). An entry's `ownership` is its `active_ownership`: none,
or a list of paths, whatever its event is. `fixing[r]` is what the r-th run of autofix has
still to complete, `contested[a]` counts the finds of `a` by a run while another had it.
The remediator's `items` are what a pass has read: a file with the directory, the time and
the age it had then; `agedOut` are the messages whose kept retry was a day old.

*Starts.* `memory` and `stateFile`, `state` and `disk`, `depths` and `savedDepths`,
`data` and `memoryFile` are what a process holds and what it has saved; a start
reads the second, a kill or a crash loses the first, and may cut the file off.
`seal` is the key that the stored fingerprint is signed with, `stateSeal` how the state
file was written; `isBelieved` and `stateIsRead` are the verdicts of `_loadStoredData` and
`_loadState` on them. `lastUp` is a history variable: the files of the last start that came
up. `replaced` counts the sessions that `startSession` put another one in the place of.

*Snapshots.* `processed` is the record in memory and `recordFile` the saved one; a
time of modification is the number of the write. `at` is where the loop of
`processQueue` stands: before each wait, and before each access to a file that another
process may change in between. `queuedAgain` and `excused` name the two things that
the code lets happen (a poll that finds a file still pending, a record that was made
and not handed over), `disturbed` those of the Library's watcher.

Only apply mode (`--apply`) is modelled: a dry run changes no file.

## 3. Runs

| Run | Instance | Shows |
|---|---|---|
| `Gate` | every combination of the fields the form checks read (strict identity, fallback schema), and every combination of the fields that the evidence, completion and execution gates read; artifacts and leases change | type correctness; `RequeueDoesNotAdmit`: a verdict on form is final; `NewWorkNotRefusedForEvidence`, `OnlyOpenWorkIsHandedOver`, `ClaimsNeedEvidence` |
| `LaneRaces` | 2 workers, a watcher that may fail once, one task, delivered twice, reaper | `NoMessageLost`, `ExecutionsWereAdmitted` |
| `LaneRestarts` | 2 workers of which the second finds the first's claim, one stop, 3 sessions, 2 re-queues, a message the gate refuses | type correctness, `RefusalIsReported`, `OnlyAdmittedExecuted`, `ParkedForItsReason` |
| `LaneSingle` | 1 worker, generic and autonomous executor, one fault, a plain, a guarded and an auto-started task | `ExecutedAtMostOnce`, `InOnePlace`, `CompletedIsFiled` |
| `LaneLive` | 1 worker that takes 2 files in a pass, 1 watcher, fair; a plain, a guarded and a poison message | `InboxDrains`, `TasksAreAnswered` |
| `RelayRaces` | 3 lanes, 2 daemons, a direct, an unsigned and a cross-inbox message, one crash | `TransportSpec` (refinement of `Courier`), `ArrivalsAreBounded` |
| `RelayLive` | 3 lanes, 2 daemons, fair; a direct message and a broadcast, one failed send or copy | `EveryTargetIsReached` |
| `Stations` | act daemon, presence, recovery, watcher lock, inbox watcher, alerts and the two snapshot watchers, fair, each at its own small bounds | see the next table |
| `Records` | leases, verification and queue, chains, remediator, memory, leased writes, the journal | see the next table |

The last two are instances of `MCStations` and differ in the constant `Stations`. Each is
a sum, not a product: the components share no variable, so a behaviour belongs to one of
them, chosen at the start from `Stations` (`station`), and the others stand still.
A property of one component is therefore checked against every behaviour of it. `TypesOK`
is an invariant of `Stations`; `TypesAreAlwaysOK` proves it for the components of both.

| Component | Instance | Shows |
|---|---|---|
| act daemon | 2 messages for 2 lanes of different priority, 2 starts, 1 kill, 2 rounds | `RepeatsAreExplained`; `MailIsHandled` (liveness) |
| journal | 2 agents on one path, 3 entries with and without paths, 1 claim that runs out, 1 midnight, 2 runs of autofix that may overlap | `OwnershipIsTheLatestClaim` (preflight against the loop read as a sentence), `AutofixCompletesOnce` |
| leases | 2 lanes on one file, 2 ticks, leases of 1 tick | `LeaseIsExclusiveInTurn` |
| presence | 2 agents and the watcher | `LaneIsWatchedAgain` (liveness), with the lock |
| verification, queue | 2 processes, a genuine and a forged item, with and without a verifier, deaths, 1 key change, 2 calls, 2 retries | `OneRetryPerCall`, `DecisionsStandInTurn` |
| recovery | 3 failures, 2 versions of the code, 1 change of the key, signing and not at each start, torn files | `DriftIsFlagged` |
| watcher lock | 3 watchers that may die anywhere | `OneWatcherButForRobbery`, `LaneIsWatchedAgain` |
| inbox watcher | 5 files: an urgent action, a plain file with the same key, an alien one, one that is held, one without a key; 3 posts, 1 taken, 1 mishap, 1 refused mutation | `HandledOnce`, `NothingVanishes`, `InboxIsWorkedOff` (liveness) |
| chains | 2 chains, one of a review that is also an amendment, depth 3, 1 message from elsewhere of any kind, 1 crash | `OrphansAreExplained` |
| remediator | 2 retries of one message and one file of its own, 4 times parked, 2 passes, 1 taken back | `FreshIsKept` |
| memory | 2 processes, 3 sessions begun of which 1 is kept, ended or replaced, 2 notes, 1 torn write | `SessionsAreRemembered` |
| alerts | 3 levels with counts 2, 3, 2, 3 ticks, 1 lost file | `SustainedLoadIsReported` |
| leased writes | 3 calls for one file, two of one lane, 2 attempts, 1 write error, deaths; up to the first encounter that excuses | `LeasedWritesAreExclusive` |
| graph snapshots | 2 snapshots, 2 writes (complete or not), a queue of 2, 1 death, 1 failed save, 1 removal | `SnapshotRecordsAreTrue`; `SnapshotsAreProcessed` (liveness) |
| Library's snapshots | 2 snapshots, 2 polls that may overlap, 2 writes, 1 death, 1 analyzer that does not start | the same two, their other halves |

Three runs end in a violation, each of a sentence of the repository:

- `LaneRequeue`: the reaper renames a quarantined copy over the inbox file that
  the worker is about to unlink; the message is gone ("Move back to inbox for
  reprocessing", `scripts/quarantine-reaper.js:64`).
- `LaneCompletion`: the autonomous executor moves the task to `in-progress`, starts
  the generic executor, which looks in `action-required`, and journals "executed
  action-required task" (`scripts/autonomous-executor.js:325-327`).
- `RelayReject`: a cross-inbox file that is still being written is read as `{}` and
  deleted as unsigned (`scripts/relay-daemon.js:326-330`); `collectIncoming` skips
  such a file.

### Bounds

`MaxDeliver` deliveries of each message, `MaxStops` worker stops, `MaxSession`
worker sessions, `MaxFaults` executor exceptions and time-outs, `MaxRequeue` puts-back
by the reaper, `MaxTag` suffixes, `MaxErrors` failed sends or copies, `MaxCrashes`
daemon deaths. One of each is enough for a first occurrence to meet every other
step; where a property needs a second (a message is delivered again, a restarted
worker finds a claim, the reaper puts back what had been put back) the bound is 2 or 3. One message suffices for the
races, since the code never relates two messages except through the lists it
iterates; `LaneSingle`, `LaneLive` and the relay runs hold several kinds together for
that. Two workers, two executors and two daemons are the smallest number with a race;
symmetry is used for workers and, in `Records`, for agents of one lane, which differ in nothing
but their name.
In `Stations` and `Records` the bounds are those of the table. Each is the least at which the case a
property is about can happen: two processes for an overlap and a third for the robbery
of a lock that has been taken over (the robber, the robbed and the one that judged
first); one death, one torn write or one lost file; one more session than is kept; a
file posted again after it has been handled; a claim that ends while another one runs.
Counts that the code never resets are capped in the guards (`MaxStarts`, `MaxPosts`,
`MaxEntries` and so on), and `CpuAlerts` stops its ghost counts at the limit they are
compared with. A leased write stops at the first encounter that excuses it (`MaxExcuses`
is 0), since its property says nothing afterwards. `RelayRaces` has `MaxErrors` 0: that a
message arrives once more for each failed write is what the theorem `ArrivalsStayBounded`
says for every bound, and `RelayLive` has the failed write.
`maxFiles` is 2 in `LaneLive`, with one message that throws: a pass is cut short and
still gets past it. With as many such files as a pass takes, the rest of the inbox
starves, which the premise of `InboxDrains` states (the hazard at
`scripts/lane-worker.js:643`). Elsewhere it is above the number of messages. `CHECK_DEADLOCK FALSE` appears where all messages reach
a resting place and the bounds stop further deliveries; a worker that has nothing to
do polls without changing anything.

### Fairness

`LaneLive` assumes weak fairness of each started worker's steps and of the executor's
progress, not of deliveries, re-queues, faults, restarts or expiry: workers and
watchers poll with `setInterval` for as long as they live, and no step of theirs waits
for another process. The fairness of the executor is for steps other than faults, so
nothing forces an exception to happen or not. `RelayLive` assumes weak fairness of
each running daemon (a `setInterval` as well) and that a lane that has begun to write a
file ends; commits, lane workers, failures and crashes are not forced.
`EveryTargetIsReached` is stated for messages that stay accepted and committed.
`Stations` assumes weak fairness of `daemonStep` (the act daemon's loop polls until it
is told to stop; signals and kills are not forced), of `watcherStep` and of
`setWatcherMode` (a scheduled task; a command of an agent that has begun ends, but no
agent has to come or to leave), of `lockStep(p)` of each watcher (synchronous code; a
death disables it), of `watchStep` (a scheduled task that is started anew after a
death), and of the polls and steps of the two snapshot watchers (`poll`, `loopStep`,
`pollStep(p)`: `setInterval`, and promises that time-outs resolve) and of their `start`
after a death. Posts, deaths, failing moves, expiry and the other takers of a file are not
forced. Weak fairness of one disjunction per process suffices since a process does one
thing at a time.

## 4. Theorems

| Theorem | Statement |
|---|---|
| `MessageRouting_proof!TypeCorrect` | type correctness of the gate, all messages and options |
| `OpenWorkOnly`, `NewWorkAdmitted` | `OnlyOpenWorkIsHandedOver`, `NewWorkNotRefusedForEvidence` |
| `SecondBlockIsDead` | the second completion check of `decideRoute` never decides |
| `ClaimsAreBacked`, `RefusalIsFinal` | the two action properties of the gate |
| `LanePipeline_proof!TypeCorrect` | type correctness of a lane, any number of processes and messages |
| `NothingIsLost` | `NoMessageLost` |
| `OnlyAdmittedWorkRuns` | `OnlyAdmittedExecuted` |
| `ExecutionsAreAlwaysAdmitted` | `ExecutionsWereAdmitted`, any number of workers, any finite set of executors, any crashes, deliveries and re-queues |
| `ParkedOnlyForItsReason` | `ParkedForItsReason` |
| `RefusalIsAlwaysReported` | `RefusalIsReported` |
| `NoTaskRunsTwice`, `AMessageIsInOnePlace` | `OneDelivery` implies `ExecutedAtMostOnce` and `InOnePlace`, whatever executors there are |
| `CompletionIsFiled` | `OneAutonomous` implies `CompletedIsFiled`, whatever workers, watchers, plain executors and reaper do |
| `RelayDaemon_proof!RelayImplementsCourier` | `Spec => TransportSpec` |
| `ArrivalsStayBounded` | `ArrivalsAreBounded`, any lanes, targets and daemons |
| `Start_proof!RecoveryTypeCorrect` | types of the recovery at start, any limits |
| `QuarantineHoldsAlways` | a quarantined lane whose state can be read does not come up before it is cleared or the time is over |
| `DriftIsAlwaysFlagged` | `DriftIsFlagged`, any edits, rotations, holds, deaths and failures |
| `AlarmIsAlwaysFinal` | an alarm on disk ends all sessions, whatever is restarted |
| `RepeatsAreAlwaysExplained` | `RepeatsAreExplained`, any messages and deaths |
| `SustainedLoadIsAlwaysReported`, `AlertsAreAlwaysSpaced` | `SustainedLoadIsReported`; two reports of a level are a cooldown apart unless the file was lost |
| `Watch_proof!OneWatcherAlways` | `OneWatcherButForRobbery`, any number of watchers |
| `NothingEverVanishes` | `NothingVanishes`, any number of files |
| `HandledOnceAlways` | `HandledOnce`, any files, keys and mishaps |
| `WatcherAlwaysKeepsOff` | no pass beside an agent that came before, unless another agent wiped its traces |
| `RecordedIsAlwaysHanded` | a graph snapshot on record was handed over, any number of snapshots and writes, unless a kill or a write came between two given steps |
| `SnapshotRecordsAreAlwaysTrue` | `SnapshotRecordsAreTrue`, both watchers, any finite set of snapshots |
| `Records_proof!LeaseAlwaysExclusiveInTurn` | `LeaseIsExclusiveInTurn`, any lanes and files |
| `LeasedWritesAlwaysExclusive` | `LeasedWritesAreExclusive`, any calls, lanes and attempts, and whatever comes after an encounter |
| `HandoffIsAlwaysSignalled` | an item over the limit stays signalled, unless the release of another wiped the signal |
| `OneRetryPerCallAlways`, `DecisionsAlwaysStandInTurn` | `OneRetryPerCall`, `DecisionsStandInTurn` |
| `AttestedQueueNeverDecides` | a queue with a verifier changes no status at all |
| `SnapshotAlwaysCurrentInTurn` | the journal's snapshot is complete when commands do not overlap |
| `AutofixAlwaysCompletesOnce` | `AutofixCompletesOnce`, any agents, days and runs, however they overlap |
| `OwnershipIsAlwaysTheLatestClaim` | `OwnershipIsTheLatestClaim`, any journal, whatever its entries name and however commands overlap |
| `OrphansAreAlwaysExplained` | `OrphansAreExplained`, any chains, depths, crashes and messages from elsewhere |
| `FreshIsAlwaysKept` | `FreshIsKept`, any files and passes, whatever is parked again, taken back or grows old |
| `SessionsAreAlwaysRemembered` | `SessionsAreRemembered`, any limit and number of sessions |
| `Stations_proof!EachStationRuns` | the specification of the `Stations` and `Records` runs implies that of each component, whose theorems therefore hold of it |
| `TypesAreAlwaysOK` | `TypesOK`, all components of the run, any values of their constants |

*Gate.* `routeOf` is a composition of verdicts; lemmas say which queue and reason
each stage can return (`FormQueues`, `ClaimQueues`, ...), `Remediate` changes none of
the facts the claim stages read (`RemediateSameClaims`) and is idempotent where it
matters for a settled form (`RemediateTwice`). The invariants strengthen the
property by the relation of `queue` and `reason` to `routeOf(msg)`.

*Lane.* Type correctness needs to know that an executor in the middle of a task
holds a name (`ExecOK`) and a worker in the middle of a file a directory and a name
(`JobOK`). `NoMessageLost` is not inductive: the unlink of a worker removes a file,
and it is harmless only because the copy it wrote is still somewhere. `CopyKept` says
that for each worker before its unlink there is a location of the message other than
its source, unless the message has been re-queued; `Keeps` says what each file
operation preserves, and each action is shown to be made of such operations.
`OnlyAdmittedExecuted` follows from `AdmitInv`: no file of another message is in
`action-required` or at work, and no worker is about to put one there.

`ExecutionsWereAdmitted` counts, and the count has to include what a held task may still
become: an autonomous executor may give a file back, so that its file is neither waiting
nor at work for a while. `CountInv` says for each message that executions, copies in
`action-required` and executors engaged with it are no more than its admissions; each step
moves at most one unit (`Balance`). The cardinalities need the executors to be finitely
many, which `LaneExecutorAssumption` says.

`RefusalIsReported` was first stated without an excuse, and TLC found that a worker which
is not the owner can take a refused message aside while the owner writes its copy: the
unlink then throws and nobody is told. `RefusalInv` follows a refused message from the
write of its copy, over the unlink, to the report; a copy comes to `blocked` or `quarantine`
only by a worker that goes on to its unlink (`RefusedArrives`), and only a second worker's
move takes the source from under it (`SourceLeaves`). `ParkedForItsReason` rests on
`JobReason`: where a worker carries a file follows from what it read in it.

`ExecutedAtMostOnce` and `InOnePlace` are promised by one worker that is not stopped and for
messages that come once. With a second worker two copies of a message are written; after a
stop between write and unlink the message is read again; both are races that the code has,
and the counts above hold with them. So the theorems have the setting as a hypothesis,
`OneDelivery`, which the constants of `LaneSingle` satisfy. `OnceInv` says that a message has
one *settled* place (a file that is not the source of an unlink about to come), that a claimed
file is in one executor's hands and has not run, and that one that has run lies in
`in-progress` or `processed`; each step relocates one settled file or none (`Relocates`,
`Stays`). `CompletedIsFiled` has the hypothesis `OneAutonomous`: only the
autonomous executor's completion has a handoff and gets into the journal, and it is written after the file
has been moved to `processed`, where nothing takes it from. In between, a child that the executor
started works on whatever is in the directory; `HeldOrFiled` says that the file it holds
nevertheless stays in `in-progress` until it is filed, which no other process does for it unless
there is a second autonomous executor. That the task also *ran* is false, as `LaneCompletion` shows.

*Relay.* `IInv` adds to the types: a whole file was posted, and a file of an outbox
that is still being written has not been touched (`FilesFollowPosting`); what is in an
inbox has arrived (`InboxesHoldArrivals`), which is why a collector may remove the source of
what it finds there; the cross stage has no outbox file at hand (`CrossListsCross`),
for it would reject a half-written one; a sender that has met no failure has reached all targets
it no longer has left (`SenderOK`); a collector is the only target of its file
(`CollectorOK`). Each step is then a `Post`, an `Arrive`, a `Forget` or a
stutter of `Courier`. `ArrivalsAreBounded` is a budget: to what has arrived `CarryInv` adds
what the sender's daemon may still send (`sends`) and what the receiver's may still copy
(`copies`), each of which is at most one as long as the file can be read, and one more for
each failure and each crash, since a daemon that begins again does not know what it sent.

*Starts.* `DriftIsFlagged` speaks of the files of the last start that came up; what is stored may
be torn or signed with another key since. `StoredIsLastUp` says that a fingerprint that is signed
is the one of that start, whichever key has signed it: holds leave it alone, and a save that a
death cuts off takes the seal with it. A daemon that runs knows of the alarm on the disk (`AlarmIsKnown`): the state
is loaded before anything else and only grows in this respect. The counts of the alerts
run ahead of what a worker has seen in a row (`Counting`: they are kept over a restart,
while the worker's own samples begin anew), and the end of a cooldown is that of the
last report or has been lost with the file (`Cooling`). `RepeatInv` is a budget as well: the
sessions a message had, plus those that may still start for it (one per double in the batch,
one if neither the memory nor the file knows it), are bounded; that the state file has what
the memory has (`DiskFollows`) means that only a death gives it another one.

*Watchers.* `OneWatcherButForRobbery` counts; what is inductive is `LockNamesHolder`:
who is inside and has not been robbed is named by the lock file, which names one.
`CopiesLie`: a move that has written its copy has it where it goes, which is not the
inbox, so removing the source loses nothing. (The lane worker, which takes from the
inbox too, files what it takes.) `HandledInv`: all handlings of a message but one are paid
for by a mishap, and while one is not, the message is `Settled` (in `processed`, its name or
key known to the process) or `UnderWay` there. `PresenceInvariant`: unless an agent has undone
what another wrote, the lock file is there while an agent is. `RecordedIsHanded` speaks of
the file; what the next save writes must be accounted for as well (`MemoryIsAccounted`),
but only until the loop has thrown: then the record in memory holds what was neither
saved nor handed over, and `LoopIsAlive` says that no loop of that process saves it.
That nothing is processed twice (`RepeatInvariant`) rests on the queue: no name is in it twice
unless it was queued again, what waits is newer than its record, and what is in hand has not
been handed over with this time; `TimesGrow` is needed because a record is compared with the
time of the file. For the Library's watcher, `RecordsWereAnalysed` holds of the file and of
each poll's own copy, and `NothingTwice` is `KnowsAll` of the one poll under way.

*Leases and records.* `Exclusive` holds of the file and of everything about to be
written to it, for overlapping commands as well, since each writes an exclusive set;
what an overlap breaks is `Recorded`: that what a command writes has every lease given
so far. So the first half of the property needs `~raced` and the second does not.
`HoldsTheLease` is what makes a leased write exclusive: while a valid lease is there nobody
is about to put another in its place, and one call at most is about to put one where
there is none; `PutsOnce` follows the content through the attempts.
`Alone` says that a call by itself works on what the file holds, and that the
temporary file it renames is its own; `Standing` is the property with what it needs
about items that never came. `Undecided` and `NothingPasses` prove that `updateStatus`
never gets past the comparison with a status the verifier does not use.
`RenderingInTurn`: a command alone renders all entries.
`AutofixInvariant` counts the completions of a session together with those that are due
from the runs under way, which are one, and one more for each contested find; a completion is
never of an earlier day than the start it answers, so that a later run sees it.

`OwnershipIsTheLatestClaim` compares a loop over the entries with a sentence about them.
`OwnershipLoop` proves that the recursive function that models the loop has a solution, and
`SaysOf` is its invariant: after i entries the state of a path names the session of the
latest claim among them, active unless a later entry ends it. Both go by the least number for
which they would fail (`LeastIsThere`, from `WFMin`), which takes the place of an induction.
`FreshIsKept` needs `ScanIsTrue`: a pass has items and files to read only while it scans, and
files to move only while it moves; a file that it is to read or has read has been parked and is
not filed away; and it reads each file once. The retry kept of a message (`mayBeKept`, the least
time) is then not among its `duplicates`, so that it is spared, unless it was read as stale, and
then the message is in `agedOut`. `ChainInvariant`: a follow-up that waits belongs to a chain the
engine knows, unless the chain was completed or a crash came; the depths stay below the limit,
so a known chain is not dropped. `MemoryInvariant`: with one process at a time and no torn write, the file holds the
last sessions of all that ended (`trimmed`), and trimming what was trimmed and grown by one
gives the same as trimming the whole (`TrimmedAgain`); the session under way is none of those
kept, so that what `startSession` throws away with it is recorded in no other.

*Stations.* A behaviour of `MCStations` belongs to one component and leaves the others at
their start, so that each component's own specification holds of it (`EachStationRuns`) and
with it what is proved above. `TypesAreAlwaysOK` is proved component by component and then
put together. Where a type is no more than what each action writes it is inductive by itself.
Where it is a bound it needs a reason: the attempts of the inbox watcher at a file, those to
come included, are paid for by posts and mishaps (`TriesArePaid`), which needs `CopiesLie` of
the moves; the queue of the snapshot loop grows by a poll no further than its bound and
shrinks by each step of the loop (`SnapshotCounts`, with `RepeatInvariant`); the act daemon
stays within its directories because a scan that goes on has one left (`ScanGoesOn`); and a
temporary file, a copy, a chain under way or a move is one at most (`OneTempFile`,
`OneCopyEach`, `OneCopyOfMemory`, `OneAtATime`, `OneMove`).

Assumptions are the named ones on the constants (`RelayAssumption` and its like),
which TLC evaluates in the runs.

*Only model-checked:* liveness, since TLAPS has no ENABLED: `InboxDrains`,
`TasksAreAnswered`, `EveryTargetIsReached`, `MailIsHandled`, `InboxIsWorkedOff`,
`LaneIsWatchedAgain`, `SnapshotsAreProcessed`. Every invariant and every action property that
a passing run checks is also a theorem. The properties of the three runs that expect a
violation are false of the code, so that there is nothing to prove.

## 5. Observations that no run carries

- `library/docs/failure-modes/ROUTING_INVARIANT_TABLE.md`: INV-1 sends new work to
  `actionRequired` or `inProgress`, but a worker that is not the owner puts it into
  `needs-review`; INV-3 sends a message that asks for nothing to `processed`, but
  follow-up fields and non-terminal types block it; INV-4 says of a schema
  rejection that there is no recovery within the message, but the worker fills in
  missing fields; INV-5 sends unverifiable work to `actionRequired`, but it is blocked
  as `EXECUTION_NOT_VERIFIED`.
- `docs/operations/PARALLEL_WORKERS_QUICKSTART.md:76` says that no two workers process
  the same message, by leases; the worker takes none.
- `handleStaleTasks` files a task that waited for an hour as processed;
  `scripts/full-lane-review-and-dispatch.js:108` says such messages never move there on
  their own.
- A worker that is not the owner can move a file to `needs-review` while the owner
  writes its refused copy: the message is in two places and its sender is not told.
- A task put into `in-progress` by auto-start, or left there by an executor that
  failed, is never looked at again.
- The receiver's relay daemon deletes an outbox file that is not signed; the sender's
  would have signed it. Which comes first decides whether it arrives.
- A message with high confidence and no derivation reaches `repoRoot`, which is not defined
  at `scripts/lane-worker.js:711`: the decision throws on every pass and the message stays in
  the inbox; the comment at line 673 says "flag, don't block yet". It is the poison message of
  `LaneLive`.
- As many files that make the decision throw as `maxFiles` starve the rest of an inbox.
- `scripts/executor-watcher.js:33-35` takes a verdict BLOCK of the preflight, which ends the
  journal's process with 1, for a check that could not be made, and goes on; only WARN
  blocks. The policy (`store-journal.js:38`): "If another agent owns the path, do not edit."
- `executor-watcher.js` and `autonomous-executor.js` append `work_failed`, `work_blocked`,
  `output_gate_rejection` and `uncertainty_detected`; the journal knows none of these events
  (`store-journal.js:298-311`) and refuses them. The `work_completed` that the watcher
  appends after a run has no handoff (`executor-watcher.js:38-51`, 93) and is refused too
  (`store-journal.js:183`), so that no run of the watcher is ever completed in the journal,
  although the policy (line 36) has every session write it.
- `scripts/util/atomic-write.js:62`: the rename that puts a lease in place replaces one that
  has come in between, and the temporary file it renames may be another call's; two calls
  that both find no valid lease both write (`excuses`). A call gives up after ten attempts,
  which is 11 s of waiting, although it allows itself the time-out of 30 s and 5 s more: the
  lease of a dead call outlasts it. `scripts/atomic-write-util.js` exports the same name and
  takes no lease at all.
- `scripts/concurrency-policy.js:139`: two watchers that have both judged the lock of a
  dead one remove it by name one after the other; the second removes the first one's
  new lock, and both work. The repository's policy (`CONCURRENCY_POLICY_v1.json`) says
  `"one_watcher_process_per_repo": true`; `OneWatcherButForRobbery` is what is left of it.
- `scripts/inbox-watcher.js` calls `moveMalformedToQuarantine`, which does not exist: a
  malformed file ends every scan. An urgent file that is held or blocked stays in the
  inbox and starves everything less urgent. Both are the `obstacles` of
  `InboxIsWorkedOff`. Its `./send-message` and `./consensus-check` are not in the
  repository. After a death between the write and the unlink of a move, the source
  stays in the inbox, since its name is known from `processed`. Two files with one idempotency key
  in one batch are both handled.
- `scripts/act-daemon.js`: a restart with an alarm on disk reloads it and stops; the
  round patterns are written with a doubled backslash and match nothing; the priority
  P0 sorts behind the others.
- `scripts/store-journal.js`: two overlapping commands can leave the older snapshot
  behind, though it is said to be "always current". Ownership goes by `active_ownership`, not
  by the event (line 235): a `file_ownership_released` without it, as the help shows it,
  releases nothing; one that names paths claims them; the empty list, or a list of that
  session that has run out, ends all claims of it. Two runs of `autofix --apply` that overlap
  complete the same session twice (`contested`).
- `src/queue/Queue.js:138` asks for the status `SUCCESS`; `src/core/protocols/outcome.js:8`
  says `success`. A queue with a verifier therefore never changes a status
  (`AttestedQueueNeverDecides`). `scripts/governed-start.js:97` and `:103` call
  `addTrustedKey`, which `Verifier` does not have.
- `scripts/blocked-remediator.js:197-198` sorts the retries of a message by age and keeps the
  first, the oldest; the rule at line 19 says "keep newest per base message". When that one is a
  day old the same pass moves it too, as its rule says (235-262), and no retry is left
  (`agedOut`). A file that matches the rule for expired leases is moved before the
  rule that keeps contradictions is looked at.
- `scripts/task-chain-engine.js` moves orphans in a dry run as well. The consensus follow-up of
  another lane comes to archivist with that lane's `chain_id`, which archivist's engine does not
  know: it is blocked as an orphan (126-144, 333-336), although line 255 says "Other lanes must
  confirm or contest". `OrphansAreExplained` speaks of the engine's own follow-ups.
- `src/resilience`: where the state is signed and a verifier is configured it is not believed
  after a restart, so that a quarantine is forgotten; `QuarantineHolds` is stated for state that
  can be read. A fingerprint that is torn, unsigned or signed with another key is rejected and
  the present one adopted with action CONTINUE and no drift, although `ContinuityVerifier.js:92`
  calls this "FAIL_CLOSED"; `DriftIsFlagged` excuses it (`isBelieved`). Nothing in the repository constructs a
  `ContinuityVerifier`; the model takes its methods in the order their comments give.
- `src/memory/SessionMemory.js:87`: `startSession` throws away an active session and its notes.
- `src/lib/analysis/graph-snapshot-watcher.ts:185` records a snapshot before the processor
  runs, with the time the file has at that moment: a kill in between, or a write that
  overtakes, means that the snapshot is never analysed; nor is one whose analysis has
  failed tried again. An exception in the loop (a file removed after it was parsed, a
  state file that cannot be written) leaves `isProcessing` set, and from then on the
  queue only grows (`thrown` in `SnapshotsAreReached`). A poll that comes while a file
  waits or is taken queues it again.
- `scripts/library-snapshot-watcher.js:146`: polls that overlap analyse the same snapshot
  and overwrite each other's state.
- `scripts/agent-presence.js`: `release` removes the lock of whichever agent holds it.

## 6. Abstractions worth knowing

- Writing a file is atomic except for a posted file in the relay. A reader that meets
  a half-written inbox file gets a JSON error and quarantines it as `INVALID_JSON`,
  which the gate's runs cover as a message.
- The recovery does not model a signer that throws while a state is saved (nothing is saved
  then), nor chains of two engines that run at once; `store-journal.js autofix` also deletes
  owner files of dead processes, which is left out.
- Ages are not clocks: a claim, a lease or a waiting task may become old at any time.
- What a task does (`executeTask`) is a step that succeeds or throws.
- A suffix is unique to a millisecond in the code and unique in the model.
- Whether the claims of an outbox message are committed changes once, from no to yes.
- The journal of a lane is a set of events with their messages; what it refuses is not in it.

- The components of `Stations` do not share variables in the model. In the code
  some meet: the inbox watcher and the lane worker in the inbox (the watcher's model has
  the worker as `TakeAway` and the posts as repeats), the remediator and the reaper in
  `quarantine` (`Park`, `TakeBack` and `Handle` of `BlockedRemediator`), the watcher lock and the
  inbox watcher (one scan at a time is assumed in `InboxWatcher`).
- A write that a death cuts off leaves a file that does not parse; the code then starts
  from its default, and so do the models (`intact`, `readable`, `readableRecord`,
  `libIntact`, `MaxLosses`).
- The clock of leases, alerts and recovery is a counter or a free step.
- The snapshots of the Library's watcher are not removed in the model, and its one-time
  mode is left out; what a processor or an analyzer finds is not looked at, as in the code.
- Nothing is said of what a signature, a fingerprint or a consensus verdict is made of:
  each is a value that the code compares.

## 7. Not modelled, and the plan

Built in this order: gate, lane (files, worker, executors, pipeline), relay, locks and
leases, records, restarts, scheduled programs. What could follow:

1. the inbox watcher and the remediator composed into `LanePipeline`, sharing its files;
2. leases that share a file by symbol; the leased writes under the moves of the inbox
   watcher, which now may fail at any time.

Parts left out, with the reason (`PROJECT.json` has one entry for each):

- lane synchronisation: one operator runs it by hand, and its control is a sequence of
  git commands on other clones;
- write guards: checks on the content of a file, without a state;
- recovery tools: one-shot repairs on a stopped lane;
- contradiction adjudicator, usage gate, audit log: append-only logs and scores that no
  modelled part reads back;
- compaction bridge: copies of session notes;
- governed start: it starts processes, whose life afterwards is modelled;
- web site, database, index generation: rendering of generated data without a protocol;
- heartbeats, health reports, self-audits: each rewrites a file of its own from scratch.
- within modelled parts: cryptography and key files, what a task does, the wording of
  answers and reports, test and dry-run modes.
