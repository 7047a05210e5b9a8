---------------------------- MODULE InboxWatcher ----------------------------
(* The scheduled program that files the messages of an inbox                 *)
(* (scripts/inbox-watcher.js): it scans, handles what is urgent first, and   *)
(* repeats until a scan finds nothing. What it knows of earlier messages is  *)
(* in its memory; a new process only knows the names in processed.           *)
(* (The lock it takes for each scan is module WatcherLock. The verdict of    *)
(* consensusCheck, which the repository does not hold, is a constant.)       *)
EXTENDS Naturals, FiniteSets

CONSTANTS
  WatchedFile,     \* the messages, one name each
  keyOf,           \* keyOf[f]: the idempotency key
  urgent,          \* the messages of priority P0 and P1
  nature,          \* nature[f]: what the scan makes of f
  consensus,       \* consensus[f]: what routeMessage says
  MAX_QUARANTINE_ATTEMPTS,
  MaxPosts,        \* bound: messages posted, repeats included
  MaxTakes,        \* bound: files that another process takes away
  MaxMishaps       \* bound: deaths of the watcher and moves that fail, and denials

ASSUME WatchedAssumption ==
  /\ DOMAIN keyOf = WatchedFile /\ urgent \subseteq WatchedFile
  /\ nature \in [WatchedFile -> {"plain", "action", "alien", "malformed", "keyless"}]
  /\ consensus \in [WatchedFile -> {"route", "escalate", "hold", "block"}]
  /\ MAX_QUARANTINE_ATTEMPTS \in Nat /\ MaxPosts \in Nat /\ MaxTakes \in Nat
  /\ MaxMishaps \in Nat

VARIABLES
  filed,        \* the pairs <<f, d>> such that directory d holds f
  step,         \* "off", "scan", "work", or "move"
  listed,       \* the files of this scan that it has not read yet
  batch,        \* the messages it has read and not yet processed
  moving,       \* the move that is under way, as a set of one
  processedKeys,
  attempts,     \* quarantine-tracker.json
  handled,      \* handled[f]: how often handleActionRequired ran for f
  posts, takes, mishaps,
  denials       \* mutations that the mode did not allow

watchCounts == <<posts, takes, mishaps, denials>>
watchVars == <<filed, step, listed, batch, moving, processedKeys, attempts, handled, watchCounts>>

Folder == {"inbox", "processed", "expired", "quarantine", "action-required"}
keys == {keyOf[f] : f \in WatchedFile}
in(d) == {f \in WatchedFile : <<f, d>> \in filed}

Move == [file : WatchedFile, to : Folder, written : BOOLEAN,
         onSuccess : SUBSET (WatchedFile \cup keys), always : SUBSET keys,
         back : {"scan", "work"}]

WatchTypeOK ==
  /\ filed \subseteq WatchedFile \X Folder
  /\ step \in {"off", "scan", "work", "move"}
  /\ listed \subseteq WatchedFile /\ batch \subseteq WatchedFile
  /\ moving \subseteq Move /\ Cardinality(moving) = (IF step = "move" THEN 1 ELSE 0)
  /\ processedKeys \subseteq WatchedFile \cup keys
  /\ attempts \in [WatchedFile -> 0..MaxPosts + MaxMishaps]
  /\ handled \in [WatchedFile -> Nat]

WatchInit ==
  /\ filed = {} /\ step = "off" /\ listed = {} /\ batch = {} /\ moving = {}
  /\ processedKeys = {} /\ attempts = [f \in WatchedFile |-> 0]
  /\ handled = [f \in WatchedFile |-> 0]
  /\ posts = 0 /\ takes = 0 /\ mishaps = 0 /\ denials = 0

-----------------------------------------------------------------------------
Post(f) ==
  /\ posts < MaxPosts /\ f \notin in("inbox")
  /\ filed' = filed \cup {<<f, "inbox">>} /\ posts' = posts + 1
  /\ UNCHANGED <<step, listed, batch, moving, processedKeys, attempts, handled, takes, mishaps, denials>>

(* The lane worker takes files out of the same directory.                    *)
TakeAway(f) ==
  /\ takes < MaxTakes /\ f \in in("inbox")
  /\ filed' = (filed \ {<<f, "inbox">>}) \cup {<<f, "processed">>} /\ takes' = takes + 1
  /\ UNCHANGED <<step, listed, batch, moving, processedKeys, attempts, handled, posts, mishaps, denials>>

exit ==
  /\ step' = "off" /\ listed' = {} /\ batch' = {} /\ moving' = {} /\ processedKeys' = {}

loadProcessedKeys_Empty ==
  /\ step = "off"
  /\ processedKeys' = {} /\ listed' = in("inbox") /\ step' = "scan"
  /\ UNCHANGED <<filed, batch, moving, attempts, handled, watchCounts>>
loadProcessedKeys ==
  /\ step = "off"
  /\ processedKeys' = in("processed")
  /\ listed' = in("inbox") \ in("processed") /\ step' = "scan"
  /\ UNCHANGED <<filed, batch, moving, attempts, handled, watchCounts>>

begin(move) ==
  /\ moving' = {move} /\ step' = "move"

toward(f, d, names, always, back) ==
  [file |-> f, to |-> d, written |-> FALSE, onSuccess |-> names, always |-> always, back |-> back]

moveToExpired_CountsTwice(f) ==
  /\ attempts' = [attempts EXCEPT ![f] = @ + 2]
  /\ begin(toward(f, IF attempts'[f] > MAX_QUARANTINE_ATTEMPTS THEN "quarantine" ELSE "expired",
                  {f}, {}, "scan"))
moveToExpired(f) ==
  /\ attempts' = [attempts EXCEPT ![f] = @ + 1]
  /\ begin(toward(f, IF attempts'[f] > MAX_QUARANTINE_ATTEMPTS THEN "quarantine" ELSE "expired",
                  {f}, {}, "scan"))

(* What cannot be read or parsed is handed to a method that does not exist:  *)
(* that ends the process. What has no key to be known by is filed unhandled. *)
scan(f) ==
  /\ step = "scan" /\ f \in listed
  /\ IF f \notin in("inbox") \/ nature[f] = "malformed"
     THEN exit /\ UNCHANGED attempts
     ELSE /\ listed' = listed \ {f}
          /\ CASE nature[f] = "alien" -> moveToExpired(f) /\ UNCHANGED batch
               [] nature[f] # "alien" /\ (nature[f] = "keyless" \/ keyOf[f] \in processedKeys) ->
                    /\ begin(toward(f, "processed", {f}, {}, "scan"))
                    /\ UNCHANGED <<batch, attempts>>
               [] OTHER -> batch' = batch \cup {f} /\ UNCHANGED <<step, moving, attempts>>
          /\ UNCHANGED processedKeys
  /\ UNCHANGED <<filed, handled, watchCounts>>

(* The message that the starvation guard adds is among those that            *)
(* applyPreemption then takes away: it changes nothing.                      *)
applyPreemption_NoEarlyReturn(messages) == messages \cap urgent
applyPreemption(messages) ==
  IF messages \cap urgent # {} THEN messages \cap urgent ELSE messages

endScan ==
  /\ step = "scan" /\ listed = {}
  /\ IF batch = {} THEN exit
     ELSE /\ batch' = applyPreemption(batch) /\ step' = "work"
          /\ UNCHANGED <<listed, moving, processedKeys>>
  /\ UNCHANGED <<filed, attempts, handled, watchCounts>>

(* One message of the batch. "block" calls the method that does not exist:   *)
(* the message stays, as it does for "hold". An action is taken before its   *)
(* message is moved.                                                         *)
processMessage(f) ==
  /\ step = "work" /\ f \in batch
  /\ batch' = batch \ {f}
  /\ CASE consensus[f] \in {"hold", "block"} -> UNCHANGED <<step, moving>>
       [] consensus[f] = "escalate" -> begin(toward(f, "action-required", {}, {keyOf[f]}, "work"))
       [] consensus[f] = "route" -> begin(toward(f, "processed", {f}, {keyOf[f]}, "work"))
  /\ handled' = IF consensus[f] = "route" /\ nature[f] = "action"
                THEN [handled EXCEPT ![f] = @ + 1] ELSE handled
  /\ UNCHANGED <<filed, listed, processedKeys, attempts, watchCounts>>

(* enforceMutation: in a mode that allows none the message stays, unhandled. *)
refuseMutation(f) ==
  /\ step = "work" /\ f \in batch /\ denials < MaxMishaps
  /\ batch' = batch \ {f} /\ denials' = denials + 1
  /\ UNCHANGED <<filed, step, listed, moving, processedKeys, attempts, handled, posts, takes, mishaps>>

endMove(m, ok) ==
  /\ processedKeys' = processedKeys \cup m.always \cup (IF ok THEN m.onSuccess ELSE {})
  /\ step' = m.back /\ moving' = {}

(* moveFileWithLease: the copy is written, then the source is removed. A     *)
(* source that is gone counts as moved; one that goes in between throws.     *)
moveFile_DropsFirst(m) ==
  /\ step = "move" /\ m \in moving
  /\ IF m.written
     THEN filed' = filed \cup {<<m.file, m.to>>} /\ endMove(m, TRUE)
     ELSE /\ filed' = filed \ {<<m.file, "inbox">>} /\ moving' = {[m EXCEPT !.written = TRUE]}
          /\ UNCHANGED <<step, processedKeys>>
  /\ UNCHANGED <<listed, batch, attempts, handled, watchCounts>>
moveFile(m) ==
  /\ step = "move" /\ m \in moving
  /\ IF m.written \/ m.file \in in(m.to) \/ m.file \notin in("inbox")
     THEN /\ filed' = filed \ {<<m.file, "inbox">>}
          /\ endMove(m, m.file \in in("inbox") \/ ~m.written)
     ELSE /\ filed' = filed \cup {<<m.file, m.to>>}
          /\ moving' = {[m EXCEPT !.written = TRUE]}
          /\ UNCHANGED <<step, processedKeys>>
  /\ UNCHANGED <<listed, batch, attempts, handled, watchCounts>>

(* The lease on the destination is not to be had; or a file appears there    *)
(* between the two looks for it, and lease-write.js calls a function that it *)
(* does not have. (The latter is this step, followed by TakeAway.)           *)
moveFails(m) ==
  /\ mishaps < MaxMishaps /\ step = "move" /\ m \in moving /\ ~m.written
  /\ m.file \in in("inbox") \ in(m.to)
  /\ endMove(m, FALSE)
  /\ mishaps' = mishaps + 1
  /\ UNCHANGED <<filed, listed, batch, attempts, handled, posts, takes, denials>>

(* A batch that is done is followed by another scan.                         *)
repeat ==
  /\ step = "work" /\ batch = {}
  /\ listed' = in("inbox") \ processedKeys /\ step' = "scan"
  /\ UNCHANGED <<filed, batch, moving, processedKeys, attempts, handled, watchCounts>>

DieInRun ==
  /\ mishaps < MaxMishaps /\ step # "off"
  /\ exit /\ mishaps' = mishaps + 1
  /\ UNCHANGED <<filed, attempts, handled, posts, takes, denials>>

watchStep ==
  \/ loadProcessedKeys \/ endScan \/ repeat
  \/ \E f \in listed : scan(f)
  \/ \E f \in batch : processMessage(f)
  \/ \E m \in moving : moveFile(m)

WatchNext ==
  \/ \E f \in WatchedFile : Post(f) \/ TakeAway(f)
  \/ watchStep \/ DieInRun
  \/ \E m \in moving : moveFails(m)
  \/ \E f \in batch : refuseMutation(f)

WatchSpec == WatchInit /\ [][WatchNext]_watchVars

-----------------------------------------------------------------------------
(* What is answered or ratified for a message happens once, whatever is      *)
(* posted again, taken away or restarted, and once more for each time the    *)
(* watcher died or could not move a file.                                    *)
HandledOnce == \A f \in WatchedFile : handled[f] <= 1 + mishaps

(* No move loses a message, wherever it is interrupted and whoever else      *)
(* moves it: what has been filed is in some directory.                       *)
NothingVanishes ==
  [][\A f \in WatchedFile : (\E d \in Folder : f \in in(d))
       => \E d \in Folder : (f \in in(d))']_watchVars

(* A file that is to be filed leaves the inbox, unless its name is known     *)
(* from earlier, a file in the inbox stops every scan, or an urgent one that *)
(* stays there keeps all the others waiting.                                 *)
obstacles(f) ==
  {g \in in("inbox") : \/ nature[g] = "malformed"
                       \/ consensus[g] \in {"hold", "block"} /\ (g \in urgent \/ f = g)}
InboxIsWorkedOff ==
  \A f \in WatchedFile :
    (f \in in("inbox")) ~> (f \notin in("inbox") \/ f \in processedKeys
                             \/ f \in in("processed") \/ obstacles(f) # {})
=============================================================================
