------------------------- MODULE BlockedRemediator -------------------------
(* The repair of the parking directories (scripts/blocked-remediator.js, run *)
(* with --apply): one pass reads blocked, then quarantine, and moves what is *)
(* older than a day and all but one of the retries of a message, while the   *)
(* worker and the reaper go on.                                              *)
EXTENDS Naturals, FiniteSets

CONSTANTS
  Parked,       \* the files
  baseOf,       \* baseOf[f]: the file f is a retry of, or NoBase
  NoBase,
  marks,        \* marks[f]: the rules that f matches, beside the last one
  MaxArrivals,  \* bound: times that a file is parked
  MaxTaken,     \* bound: files that the reaper takes back
  MaxPasses     \* bound: passes

(* The rules, in order; what a rule does is in actionOf.                     *)
Rule == {"deduplicate", "test", "lease", "log", "contradicts", "other"}

ASSUME RemediatorAssumption ==
  /\ Parked \subseteq DOMAIN baseOf
  /\ \A f \in Parked : marks[f] \subseteq Rule \ {"deduplicate"}
  /\ MaxArrivals \in Nat /\ MaxTaken \in Nat /\ MaxPasses \in Nat

VARIABLES
  place,      \* place[f]: the directory that holds f
  born,       \* born[f]: the rank of its modification time
  arrivals,   \* times that a file was parked
  staleFiles, \* the files that are older than STALE_THRESHOLD_HOURS
  unscanned,  \* the files of a directory that have been listed and not yet read
  items,      \* what this pass has read of the files
  doomed,     \* what this pass has yet to move
  dropped,    \* the files that this pass moves though they were not stale when read
  agedOut,    \* the messages whose kept retry this pass has read as stale
  rem,        \* "rest", "blocked", "quarantine" or "act"
  reaped, passes

remediatorVars == <<place, born, arrivals, staleFiles, unscanned, items, doomed, dropped,
                    agedOut, rem, reaped, passes>>

Parking == {"blocked", "quarantine"}
parked == {f \in Parked : place[f] \in Parking}

(* What scanDirectory reads of a file, with the directory of its fullPath.   *)
Item == [file : Parked, dir : Parking, time : 0..MaxArrivals + 1, stale : BOOLEAN]

RemediatorTypeOK ==
  /\ place \in [Parked -> Parking \cup {"nowhere", "inbox", "handled", "archive", "expired"}]
  /\ born \in [Parked -> 0..MaxArrivals] /\ arrivals \in 0..MaxArrivals
  /\ staleFiles \subseteq Parked /\ unscanned \subseteq Parked
  /\ items \subseteq Item /\ doomed \subseteq Item
  /\ dropped \subseteq Parked /\ agedOut \subseteq {baseOf[f] : f \in Parked}
  /\ rem \in {"rest", "act"} \cup Parking /\ reaped \in 0..MaxTaken /\ passes \in 0..MaxPasses

RemediatorInit ==
  /\ place = [f \in Parked |-> "nowhere"] /\ born = [f \in Parked |-> 0] /\ arrivals = 0
  /\ staleFiles = {} /\ unscanned = {} /\ items = {} /\ doomed = {}
  /\ dropped = {} /\ agedOut = {}
  /\ rem = "rest" /\ reaped = 0 /\ passes = 0

-----------------------------------------------------------------------------
(* The surroundings: the worker parks a file, or handles it; the reaper      *)
(* takes one back, which the worker may park again under its name; a day     *)
(* goes by for a file and for all that are older.                            *)
Park(f, d) ==
  /\ place[f] \in {"nowhere", "inbox"} /\ arrivals < MaxArrivals
  /\ place' = [place EXCEPT ![f] = d] /\ arrivals' = arrivals + 1
  /\ born' = [born EXCEPT ![f] = arrivals + 1] /\ staleFiles' = staleFiles \ {f}
  /\ UNCHANGED <<unscanned, items, doomed, dropped, agedOut, rem, reaped, passes>>

Handle(f) ==
  /\ place[f] = "inbox"
  /\ place' = [place EXCEPT ![f] = "handled"]
  /\ UNCHANGED <<born, arrivals, staleFiles, unscanned, items, doomed, dropped, agedOut, rem,
                 reaped, passes>>

TakeBack(f) ==
  /\ place[f] = "quarantine" /\ reaped < MaxTaken
  /\ place' = [place EXCEPT ![f] = "inbox"] /\ reaped' = reaped + 1
  /\ UNCHANGED <<born, arrivals, staleFiles, unscanned, items, doomed, dropped, agedOut, rem, passes>>

DayGoesBy(f) ==
  /\ f \in parked \ staleFiles
  /\ staleFiles' = staleFiles \cup {g \in Parked : born[g] > 0 /\ born[g] <= born[f]}
  /\ UNCHANGED <<place, born, arrivals, unscanned, items, doomed, dropped, agedOut, rem, reaped, passes>>

(* findMatchingRule: the first that matches.                                 *)
ruleOf(f) ==
  IF baseOf[f] # NoBase THEN "deduplicate"
  ELSE IF "test" \in marks[f] THEN "test"
  ELSE IF "lease" \in marks[f] THEN "lease"
  ELSE IF "log" \in marks[f] THEN "log"
  ELSE IF "contradicts" \in marks[f] THEN "contradicts" ELSE "other"

startPass ==
  /\ rem = "rest" /\ passes < MaxPasses
  /\ unscanned' = {f \in Parked : place[f] = "blocked"} /\ rem' = "blocked"
  /\ items' = {} /\ dropped' = {} /\ agedOut' = {} /\ passes' = passes + 1
  /\ UNCHANGED <<place, born, arrivals, staleFiles, doomed, reaped>>

listQuarantine ==
  /\ rem = "blocked" /\ unscanned = {}
  /\ unscanned' = {f \in Parked : place[f] = "quarantine"} /\ rem' = "quarantine"
  /\ UNCHANGED <<place, born, arrivals, staleFiles, items, doomed, dropped, agedOut, reaped, passes>>

(* A file that is gone when its age is asked for is of age 0.                *)
scanItem(f) ==
  /\ rem \in Parking /\ f \in unscanned
  /\ unscanned' = unscanned \ {f}
  /\ items' = items \cup
       {IF place[f] = rem
        THEN [file |-> f, dir |-> rem, time |-> born[f], stale |-> f \in staleFiles]
        ELSE [file |-> f, dir |-> rem, time |-> MaxArrivals + 1, stale |-> FALSE]}
  /\ UNCHANGED <<place, born, arrivals, staleFiles, doomed, dropped, agedOut, rem, reaped, passes>>

(* The retries of a message are sorted by age, the greatest first; the first *)
(* one is kept.                                                              *)
retries(b) == {x \in items : baseOf[x.file] = b /\ ruleOf(x.file) = "deduplicate"}
retriedMessages == {baseOf[x.file] : x \in {y \in items : ruleOf(y.file) = "deduplicate"}}
mayBeKept(b) == {x \in retries(b) : \A y \in retries(b) : x.time <= y.time}

duplicates_All(kept) ==
  UNION {{x \in retries(b) : retries(b) # {x}} : b \in retriedMessages}
duplicates(kept) == UNION {retries(b) \ {kept[b]} : b \in retriedMessages}

(* Every duplicate goes, and what is stale goes as its rule says: the kept   *)
(* retry too, a contradiction not.                                           *)
judgeItems ==
  /\ rem = "quarantine" /\ unscanned = {}
  /\ \E kept \in [retriedMessages -> items] :
       /\ \A b \in retriedMessages : kept[b] \in mayBeKept(b)
       /\ doomed' = duplicates(kept) \cup
                    {x \in items : x.stale /\ ruleOf(x.file) # "contradicts"}
       /\ agedOut' = {b \in retriedMessages : kept[b].stale}
  /\ dropped' = {x.file : x \in {y \in doomed' : ~y.stale}}
  /\ rem' = "act" /\ items' = {}
  /\ UNCHANGED <<place, born, arrivals, staleFiles, unscanned, reaped, passes>>

(* A file that is not where it was read is not renamed.                      *)
remediate(x) ==
  /\ rem = "act" /\ x \in doomed
  /\ doomed' = doomed \ {x}
  /\ place' = IF place[x.file] = x.dir
              THEN [place EXCEPT ![x.file] = IF ruleOf(x.file) = "lease" THEN "expired" ELSE "archive"]
              ELSE place
  /\ UNCHANGED <<born, arrivals, staleFiles, unscanned, items, dropped, agedOut, rem, reaped, passes>>

endRemediation ==
  /\ rem = "act" /\ doomed = {}
  /\ rem' = "rest"
  /\ UNCHANGED <<place, born, arrivals, staleFiles, unscanned, items, doomed, dropped, agedOut,
                 reaped, passes>>

RemediatorNext ==
  \/ \E f \in Parked, d \in Parking : Park(f, d)
  \/ \E f \in Parked : Handle(f) \/ TakeBack(f) \/ DayGoesBy(f) \/ scanItem(f)
  \/ \E x \in doomed : remediate(x)
  \/ startPass \/ listQuarantine \/ judgeItems \/ endRemediation

RemediatorSpec == RemediatorInit /\ [][RemediatorNext]_remediatorVars

-----------------------------------------------------------------------------
(* The retries of a file's message, beside itself, that this pass leaves     *)
(* parked or that went back to the inbox.                                    *)
spared(f) ==
  {g \in Parked \ {f} : /\ baseOf[g] = baseOf[f] /\ g \notin {x.file : x \in doomed}
                        /\ place[g] \in Parking \cup {"inbox", "handled"}}

(* What was not a day old when a pass read it is moved only as one of        *)
(* several retries, and then the pass spares another retry of its message,   *)
(* whatever the worker and the reaper do meanwhile - unless the one that it  *)
(* keeps, the oldest, was a day old when read: then the same pass may move   *)
(* them all. (blocked-remediator.js 19 says "keep newest"; 197-198 keep the  *)
(* oldest.)                                                                  *)
FreshIsKept ==
  \A f \in dropped : /\ baseOf[f] # NoBase
                     /\ baseOf[f] \in agedOut \/ spared(f) # {}
=============================================================================
