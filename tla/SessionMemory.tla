--------------------------- MODULE SessionMemory ---------------------------
(* What the sessions of a lane remember of each other                        *)
(* (src/memory/SessionMemory.js): one file, which every process loads when   *)
(* it starts and writes over, whole, with each thing that it records.        *)
EXTENDS Integers, Sequences, FiniteSets, SequencesExt

CONSTANTS
  Rememberer,    \* the processes that use the memory
  maxSessions,
  MaxBegun,      \* bound: sessions begun
  MaxNotes,      \* bound: things recorded
  MaxTorn        \* bound: deaths in the middle of a write

ASSUME MemoryAssumption ==
  maxSessions \in Nat \ {0} /\ MaxBegun \in Nat /\ MaxNotes \in Nat /\ MaxTorn \in Nat

VARIABLES
  memoryFile,  \* the file, as last written
  tornWrites,  \* writes cut off; the last one of them left the file unreadable
  readable,
  data,        \* data[p]: p's copy, as a set of at most one
  begun,       \* sessions begun
  replaced,    \* sessions that startSession put another one in the place of
  notes,       \* the things recorded, with the sessions they belong to
  archive,     \* the sessions ended, in order
  shared       \* two processes had the memory open at once

memoryVars == <<memoryFile, tornWrites, readable, data, begun, replaced, notes, archive, shared>>

(* A session is a number; 0 is none. What a session holds is a set of notes. *)
Memory == [sessions : Seq(1..MaxBegun), current_session : 0..MaxBegun,
           recorded : SUBSET ((1..MaxBegun) \X (1..MaxNotes))]
FreshMemory == [sessions |-> <<>>, current_session |-> 0, recorded |-> {}]

MemoryTypeOK ==
  /\ memoryFile \in Memory /\ readable \in BOOLEAN /\ shared \in BOOLEAN
  /\ tornWrites \in 0..MaxTorn
  /\ \A p \in Rememberer : data[p] \subseteq Memory /\ Cardinality(data[p]) <= 1
  /\ begun \in 0..MaxBegun /\ replaced \in 0..begun
  /\ notes \subseteq (1..MaxBegun) \X (1..MaxNotes)
  /\ archive \in Seq(1..MaxBegun)

MemoryInit ==
  /\ memoryFile = FreshMemory /\ readable = TRUE /\ tornWrites = 0
  /\ data = [p \in Rememberer |-> {}]
  /\ begun = 0 /\ replaced = 0 /\ notes = {} /\ archive = <<>> /\ shared = FALSE

openers == {p \in Rememberer : data[p] # {}}

(* _save, in the middle of which the process may die.                        *)
saveMemory(p, d) ==
  \/ /\ memoryFile' = d /\ readable' = TRUE /\ data' = [data EXCEPT ![p] = {d}]
     /\ UNCHANGED tornWrites
  \/ /\ tornWrites < MaxTorn
     /\ tornWrites' = tornWrites + 1
     /\ readable' = FALSE /\ data' = [data EXCEPT ![p] = {}]
     /\ UNCHANGED memoryFile

loadOrCreate == IF readable THEN memoryFile ELSE FreshMemory

(* The constructor: a session that was not ended goes on.                    *)
openMemory(p) ==
  /\ p \notin openers
  /\ shared' = (shared \/ openers # {})
  /\ IF loadOrCreate.current_session # 0
     THEN /\ data' = [data EXCEPT ![p] = {loadOrCreate}]
          /\ UNCHANGED <<memoryFile, readable, tornWrites, begun>>
     ELSE /\ begun < MaxBegun /\ begun' = begun + 1
          /\ saveMemory(p, [loadOrCreate EXCEPT !.current_session = begun + 1])
  /\ UNCHANGED <<replaced, notes, archive>>

(* startSession: the session that goes on, if any, is replaced, not ended.   *)
startSession(p) ==
  \E d \in data[p] :
    /\ begun < MaxBegun /\ begun' = begun + 1
    /\ replaced' = replaced + (IF d.current_session = 0 THEN 0 ELSE 1)
    /\ saveMemory(p, [sessions |-> d.sessions, current_session |-> begun + 1,
                      recorded |-> {n \in d.recorded : n[1] # d.current_session}])
    /\ UNCHANGED <<notes, archive, shared>>

(* recordDecision, recordFileChange and recordInsight                        *)
recordNote(p) ==
  \E d \in data[p] :
    /\ d.current_session # 0 /\ Cardinality(notes) < MaxNotes
    /\ LET note == <<d.current_session, Cardinality(notes) + 1>>
       IN notes' = notes \cup {note} /\ saveMemory(p, [d EXCEPT !.recorded = @ \cup {note}])
    /\ UNCHANGED <<begun, replaced, archive, shared>>

(* With the oldest session goes what it held.                                *)
trimmed(s) == SubSeq(s, Len(s) - (IF Len(s) > maxSessions THEN maxSessions ELSE Len(s)) + 1, Len(s))

endSession_KeepsOldest(p) ==
  \E d \in data[p] :
    /\ d.current_session # 0
    /\ archive' = Append(archive, d.current_session)
    /\ saveMemory(p, [d EXCEPT !.sessions = SubSeq(Append(@, d.current_session), 1, maxSessions),
                               !.current_session = 0])
    /\ UNCHANGED <<begun, replaced, notes, shared>>
endSession(p) ==
  \E d \in data[p] :
    /\ d.current_session # 0
    /\ archive' = Append(archive, d.current_session)
    /\ LET kept == trimmed(Append(d.sessions, d.current_session))
       IN saveMemory(p, [sessions |-> kept, current_session |-> 0,
                         recorded |-> {n \in d.recorded : n[1] \in ToSet(kept)}])
    /\ UNCHANGED <<begun, replaced, notes, shared>>

Leave(p) ==
  /\ p \in openers
  /\ data' = [data EXCEPT ![p] = {}]
  /\ UNCHANGED <<memoryFile, readable, tornWrites, begun, replaced, notes, archive, shared>>

MemoryNext ==
  \E p \in Rememberer : openMemory(p) \/ startSession(p) \/ recordNote(p) \/ endSession(p) \/ Leave(p)

MemorySpec == MemoryInit /\ [][MemoryNext]_memoryVars

-----------------------------------------------------------------------------
(* "Stores what happened in a session so it can be loaded next time": as     *)
(* long as one process uses the memory at a time and no write is cut off,    *)
(* whoever leaves without ending its session, the file has the last          *)
(* maxSessions that were ended, the one that was not, and all that was       *)
(* recorded in them; every other session was replaced by startSession.       *)
SessionsAreRemembered ==
  (~shared /\ tornWrites = 0) =>
    /\ memoryFile.sessions = trimmed(archive)
    /\ begun = Len(archive) + replaced + (IF memoryFile.current_session = 0 THEN 0 ELSE 1)
    /\ memoryFile.recorded =
         {n \in notes : n[1] \in ToSet(trimmed(archive)) \cup {memoryFile.current_session}}
=============================================================================
