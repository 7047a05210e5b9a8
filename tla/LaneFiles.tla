------------------------------- MODULE LaneFiles -------------------------------
(* The directories of one lane's inbox (lanes/<lane>/inbox/...) and what the *)
(* processes of the lane do with the message files in them. A directory maps *)
(* a file name to at most one file, and a rename or a write replaces what    *)
(* was there. The only other thing the processes share is the journal.       *)
EXTENDS Integers, CompletionProof

CONSTANTS
  Msg,         \* the messages other lanes send
  Content,     \* what each message says
  MaxTag,      \* bound: how many suffixed names a message may get
  MaxSession,  \* bound: how many worker processes are started
  NoName       \* no file name

ASSUME LaneFilesAssumption ==
  /\ Content \in [Msg -> Message]
  /\ MaxTag \in Nat
  /\ MaxSession \in Nat

Dirs == {"inbox", "action-required", "in-progress", "processed", "blocked",
         "quarantine", "needs-review", "stale-foreign", "archive"}

(* A name is the message's own (tag 0) or that with a suffix. *)
Name == Msg \X (0..MaxTag)
messageOf(n) == n[1]

ASSUME NoNameAssumption == NoName \notin Name

(* A file carries the stamp of the worker session that wrote it, 0 when it   *)
(* is as the sender wrote it.                                                *)
NoFile == -1
Stamp == 0..MaxSession

VARIABLES
  box,       \* box[<<d, n>>]: the file named n in directory d, or NoFile
  journal    \* the store journal: <<event, message>>

(* The events of validEvents that the lane's programs pass to it.            *)
validEvents == {"work_started", "work_completed", "work_quarantined", "quarantine_event"}

(* cmdAppend: an event it does not know is refused, and so is a completion   *)
(* whose data holds no handoff. The caller swallows the refusal and goes on. *)
log(event, n, data) ==
  journal' = IF event \in validEvents /\ (event = "work_completed" => "handoff" \in data)
             THEN journal \cup {<<event, messageOf(n)>>} ELSE journal

FilesTypeOK ==
  /\ journal \subseteq validEvents \X Msg
  /\ box \in [Dirs \X Name -> Stamp \cup {NoFile}]

exists(d, n) == box[<<d, n>>] # NoFile

(* uniquePath and the executors' counters: the name itself while it is free, *)
(* then one of the suffixed names.                                           *)
uniquePath(d, n) ==
  IF ~exists(d, n) THEN {n}
  ELSE {k \in Name : messageOf(k) = messageOf(n) /\ ~exists(d, k)}

write(d, n, stamp) == box' = [box EXCEPT ![<<d, n>>] = stamp]

unlink(d, n) == box' = [box EXCEPT ![<<d, n>>] = NoFile]

(* rename(2) replaces the target and needs the source. *)
rename(d, n, e, k) ==
  /\ exists(d, n)
  /\ box' = [box EXCEPT ![<<d, n>>] = NoFile, ![<<e, k>>] = box[<<d, n>>]]

files(d) == {n \in Name : exists(d, n)}
=============================================================================
