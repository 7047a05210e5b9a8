---------------------------- MODULE StoreJournal ----------------------------
(* The work ledger that agents consult before they edit a file               *)
(* (scripts/store-journal.js). Every command is a process of its own: it     *)
(* appends an entry, and then renders a report from all that it reads back.  *)
(* (The daily summary is rendered before the snapshot, in the same way; the  *)
(* model keeps the snapshot.)                                                *)
EXTENDS Integers, FiniteSets, Sequences, SequencesExt

CONSTANTS
  Agent,         \* agents, each with one session
  agentLane,     \* agentLane[a]: the lane that a works for
  JournalPath,   \* the files that agents edit
  MaxEntries,    \* bound: entries
  MaxDay,        \* bound: midnights
  MaxLapses,     \* bound: claims that run out
  MaxAutofix     \* bound: runs of autofix

ASSUME JournalAssumption ==
  /\ DOMAIN agentLane = Agent
  /\ MaxEntries \in Nat /\ MaxDay \in Nat /\ MaxLapses \in Nat /\ MaxAutofix \in Nat

VARIABLES
  entries,     \* the entries of all journals, in the order of their writing
  today,       \* the number of the day, which is the file written to
  lapsed,      \* the claims whose expires_at has passed
  snapshot,    \* the number of entries that the snapshot is made from
  process,     \* process[a]: the command that a runs, between its steps
  work,        \* work[a]: "none", "started" or "completed"
  cleared,     \* cleared[a]: the path that a preflight has just cleared for a, if any
  fixing,      \* fixing[r]: the sessions that the r-th run of autofix has found and
               \* not yet completed, and the day on which it found them
  autofixes,   \* runs of autofix
  contested,   \* contested[a]: finds of a by a run while another had it still to do
  overlapped   \* a command began while another one ran

journalVars == <<entries, today, lapsed, snapshot, process, work, cleared,
                 fixing, autofixes, contested, overlapped>>

Run == 1..MaxAutofix

Rendering == [step : {"idle", "read", "write"}, seen : Nat]
NoCommand == [step |-> "idle", seen |-> 0]

(* An entry. Its active_ownership is none, or a list of paths: a set of at   *)
(* most one set of paths.                                                    *)
Ownership == {{}} \cup {{ps} : ps \in SUBSET JournalPath}
Entry == [lane : {agentLane[a] : a \in Agent}, day : 0..MaxDay, session : Agent,
          event : {"work_started", "work_completed", "claimed", "released"},
          ownership : Ownership]

JournalTypeOK ==
  /\ entries \in Seq(Entry) /\ today \in 0..MaxDay
  /\ lapsed \subseteq 1..Len(entries)
  /\ snapshot \in Nat
  /\ process \in [Agent -> Rendering]
  /\ work \in [Agent -> {"none", "started", "completed"}]
  /\ cleared \in [Agent -> {{}} \cup {{p} : p \in JournalPath}]
  /\ fixing \in [Run -> [day : 0..MaxDay, left : SUBSET Agent]]
  /\ autofixes \in 0..MaxAutofix /\ contested \in [Agent -> Nat] /\ overlapped \in BOOLEAN

JournalInit ==
  /\ entries = <<>> /\ today = 0 /\ lapsed = {}
  /\ snapshot = 0
  /\ process = [a \in Agent |-> NoCommand]
  /\ work = [a \in Agent |-> "none"]
  /\ cleared = [a \in Agent |-> {}]
  /\ fixing = [r \in Run |-> [day |-> 0, left |-> {}]]
  /\ autofixes = 0 /\ contested = [a \in Agent |-> 0] /\ overlapped = FALSE

(* The numbers of the entries in one lane's file of one day, in order.       *)
readJournal(lane, days) ==
  {i \in DOMAIN entries : entries[i].lane = lane /\ entries[i].day \in days}

Unowned == [p \in JournalPath |-> [owner |-> "nobody", active |-> FALSE]]

dropAll(s, a) ==
  [p \in JournalPath |-> IF s[p].owner = a THEN [s[p] EXCEPT !.active = FALSE] ELSE s[p]]

(* The paths that an entry names.                                            *)
paths(e) == UNION e.ownership

(* One entry's effect, by its active_ownership and whatever its event. A     *)
(* list that has run out, and the empty one, end all that its owner had      *)
(* claimed up to there; another is a claim.                                  *)
applyEntry(s, i) ==
  LET e == entries[i]
  IN CASE e.ownership = {} -> s
       [] e.ownership # {} /\ (paths(e) = {} \/ i \in lapsed) -> dropAll(s, e.session)
       [] OTHER -> [p \in JournalPath |->
                      IF p \in paths(e) THEN [owner |-> e.session, active |-> TRUE] ELSE s[p]]

(* The owners as the loop over the entries es leaves them: ownershipAfter[i] *)
(* is what it has when it has come to the i-th entry of the journals.        *)
ownershipAfter(es) ==
  LET state[i \in 0..Len(entries)] ==
        IF i = 0 THEN Unowned
        ELSE IF i \in es THEN applyEntry(state[i - 1], i) ELSE state[i - 1]
  IN state

buildOwnershipState_NewestFirst(lane, days) ==
  LET es == readJournal(lane, days)
      state[i \in 1..Len(entries) + 1] ==
        IF i > Len(entries) THEN Unowned
        ELSE IF i \in es THEN applyEntry(state[i + 1], i) ELSE state[i + 1]
  IN state[1]
buildOwnershipState(lane, days) == ownershipAfter(readJournal(lane, days))[Len(entries)]

(* A preflight reads one file: its own lane's, of today.                     *)
BLOCK(a, p) == buildOwnershipState(agentLane[a], {today})[p].active

-----------------------------------------------------------------------------
idle(a) == process[a].step = "idle"

busy == {a \in Agent : ~idle(a)}

append(a, day, event, ownership) ==
  entries' = Append(entries, [lane |-> agentLane[a], day |-> day, session |-> a,
                              event |-> event, ownership |-> ownership])

(* cmdAppend: the entry is written in one step, then the snapshot is made.   *)
cmdAppend(a, event, ownership) ==
  /\ idle(a) /\ Len(entries) < MaxEntries
  /\ append(a, today, event, ownership)
  /\ process' = [process EXCEPT ![a] = [step |-> "read", seen |-> 0]]
  /\ overlapped' = (overlapped \/ busy # {})
  /\ UNCHANGED <<today, lapsed, snapshot, fixing, autofixes, contested>>

(* Policy rules 1, 2, 7 and 8: an agent reports its session, and claims a    *)
(* path when a preflight has not said BLOCK. The executor claims the task    *)
(* that it starts in the report itself, and asks no preflight.               *)
StartWork(a, ownership) ==
  /\ work[a] = "none"
  /\ cmdAppend(a, "work_started", ownership)
  /\ work' = [work EXCEPT ![a] = "started"]
  /\ UNCHANGED cleared

CompleteWork(a) ==
  /\ work[a] = "started"
  /\ cmdAppend(a, "work_completed", {})
  /\ work' = [work EXCEPT ![a] = "completed"]
  /\ UNCHANGED cleared

cmdPreflight(a, p) ==
  /\ work[a] # "completed" /\ idle(a) /\ cleared[a] = {}
  /\ Len(entries) < MaxEntries
  /\ ~BLOCK(a, p)
  /\ cleared' = [cleared EXCEPT ![a] = {p}]
  /\ UNCHANGED <<entries, today, lapsed, snapshot, process, work, fixing, autofixes, contested, overlapped>>

Claim(a, p) ==
  /\ p \in cleared[a]
  /\ cmdAppend(a, "claimed", {{p}})
  /\ cleared' = [cleared EXCEPT ![a] = {}]
  /\ UNCHANGED work

(* A release is what its --data say: nothing, the empty list, or a path.     *)
Release(a, ownership) ==
  /\ \E i \in DOMAIN entries : paths(entries[i]) # {} /\ entries[i].session = a
  /\ cmdAppend(a, "released", ownership)
  /\ UNCHANGED <<work, cleared>>

(* cmdSnapshot: read all journals, then write one file over.                 *)
readAllLanes(a) ==
  /\ process[a].step = "read"
  /\ process' = [process EXCEPT ![a] = [step |-> "write", seen |-> Len(entries)]]
  /\ UNCHANGED <<entries, today, lapsed, snapshot, work, cleared, fixing, autofixes, contested, overlapped>>

cmdSnapshot(a) ==
  /\ process[a].step = "write"
  /\ snapshot' = process[a].seen
  /\ process' = [process EXCEPT ![a] = NoCommand]
  /\ UNCHANGED <<entries, today, lapsed, work, cleared, fixing, autofixes, contested, overlapped>>

(* cmdAutofix: the sessions of today and yesterday that have begun, have     *)
(* not completed; those of them that are older than orphanTTL are completed  *)
(* one after the other. (How old a session is, is left open.)                *)
orphans_CompletedToday ==
  LET on(days) == {i \in DOMAIN entries : entries[i].day \in days}
      sessionsWith(event, days) == {entries[i].session : i \in {j \in on(days) : entries[j].event = event}}
  IN sessionsWith("work_started", {today, today - 1}) \ sessionsWith("work_completed", {today})
orphans ==
  LET recent == {i \in DOMAIN entries : entries[i].day \in {today, today - 1}}
      sessionsWith(event) == {entries[i].session : i \in {j \in recent : entries[j].event = event}}
  IN sessionsWith("work_started") \ sessionsWith("work_completed")

(* The runs that still have a to complete. No lock keeps one from another.   *)
autofixing(a) == {r \in Run : a \in fixing[r].left}

cmdAutofix ==
  /\ autofixes < MaxAutofix
  /\ \E found \in SUBSET orphans \ {{}} :
       /\ fixing' = [fixing EXCEPT ![autofixes + 1] = [day |-> today, left |-> found]]
       /\ contested' = [a \in Agent |->
            contested[a] + (IF a \in found /\ autofixing(a) # {} THEN 1 ELSE 0)]
  /\ autofixes' = autofixes + 1
  /\ UNCHANGED <<entries, today, lapsed, snapshot, process, work, cleared, overlapped>>

completeOrphan(r, a) ==
  /\ a \in fixing[r].left /\ Len(entries) < MaxEntries
  /\ append(a, fixing[r].day, "work_completed", {})
  /\ fixing' = [fixing EXCEPT ![r].left = @ \ {a}]
  /\ UNCHANGED <<today, lapsed, snapshot, process, work, cleared, autofixes, contested, overlapped>>

(* Time: a claim runs out, a day ends.                                       *)
Lapse(i) ==
  /\ paths(entries[i]) # {} /\ i \notin lapsed
  /\ Cardinality(lapsed) < MaxLapses
  /\ lapsed' = lapsed \cup {i}
  /\ UNCHANGED <<entries, today, snapshot, process, work, cleared, fixing, autofixes, contested, overlapped>>

Midnight ==
  /\ today < MaxDay
  /\ today' = today + 1
  /\ UNCHANGED <<entries, lapsed, snapshot, process, work, cleared, fixing, autofixes, contested, overlapped>>

JournalNext ==
  \/ \E a \in Agent :
       \/ \E ownership \in {{}} \cup {{{p}} : p \in JournalPath} : StartWork(a, ownership)
       \/ \E ownership \in {{}, {{}}} \cup {{{p}} : p \in JournalPath} : Release(a, ownership)
       \/ CompleteWork(a)
       \/ \E p \in JournalPath : cmdPreflight(a, p) \/ Claim(a, p)
       \/ readAllLanes(a) \/ cmdSnapshot(a)
       \/ \E r \in Run : completeOrphan(r, a)
  \/ \E i \in DOMAIN entries : Lapse(i)
  \/ cmdAutofix \/ Midnight

JournalSpec == JournalInit /\ [][JournalNext]_journalVars

-----------------------------------------------------------------------------
(* What buildOwnershipState computes entry by entry: a path is owned by the  *)
(* last entry that names it and has not run out, unless a later entry of     *)
(* that owner names the empty list, or any list that has run out. A release  *)
(* that says nothing of paths ends no ownership, and one that names a path   *)
(* begins one.                                                               *)
Owned(lane, days, p) ==
  LET es == readJournal(lane, days)
      claims == {i \in es \ lapsed : p \in paths(entries[i])}
  IN /\ claims # {}
     /\ LET last == Max(claims)
        IN ~\E i \in es : /\ i > last /\ entries[i].session = entries[last].session
                          /\ entries[i].ownership = {{}} \/ i \in lapsed
OwnershipIsTheLatestClaim ==
  \A a \in Agent, p \in JournalPath : BLOCK(a, p) <=> Owned(agentLane[a], {today}, p)

(* "snapshot is regenerated on every append - always current", as far as it  *)
(* goes: if no two commands ever overlap, and autofix, which makes no        *)
(* snapshot, has not run, it is complete when all is quiet.                  *)
SnapshotIsCurrentInTurn ==
  (~overlapped /\ busy = {} /\ autofixes = 0) => snapshot = Len(entries)

(* Autofix completes a session once on top of what the session itself        *)
(* writes, and once more for each time that a run has found the session      *)
(* while another run still had it to complete: whatever day it is, how often *)
(* it runs and how long a run takes does not matter, only that overlap does. *)
completions(a) == {i \in DOMAIN entries : entries[i].session = a /\ entries[i].event = "work_completed"}
AutofixCompletesOnce ==
  \A a \in Agent :
    Cardinality(completions(a)) <= 1 + contested[a] + (IF work[a] = "completed" THEN 1 ELSE 0)
=============================================================================
