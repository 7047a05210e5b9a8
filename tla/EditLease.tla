----------------------------- MODULE EditLease -----------------------------
(* Leases on files that several lanes edit (scripts/edit-lease-manager.js).  *)
(* Every command is a process that loads the file of intents, works on its   *)
(* copy, and writes the whole file back; nothing locks the file.             *)
EXTENDS Integers, FiniteSets

CONSTANTS
  LeaseLane,       \* the lanes
  LeaseFile,       \* the files they edit
  sharedFiles,     \* SHARED_SCRIPTS and SCHEMA_FILES
  CANONICAL_OWNER, \* the lane that alone may claim those
  LEASE_TTL,       \* how long a lease runs, in ticks of the clock
  MaxTime,         \* bound: ticks of the clock
  MaxIntents       \* bound: intents on record

ASSUME LeaseAssumption ==
  /\ CANONICAL_OWNER \in LeaseLane
  /\ sharedFiles \subseteq LeaseFile
  /\ LEASE_TTL \in Nat \ {0} /\ MaxTime \in Nat /\ MaxIntents \in Nat

VARIABLES
  intents,    \* the intents in the file
  copy,       \* copy[l]: what l's command is about to write, as a set of sets
  held,       \* held[l]: the files l was given and has not given back
  clock,
  raced,      \* a command loaded the file while another was about to write it
  revived     \* a heartbeat renewed an intent that had expired

leaseVars == <<intents, copy, held, clock, raced, revived>>

Intent == [lane : LeaseLane, file : LeaseFile,
           status : {"planning", "editing", "done"}, expires_at : Nat]

LeaseTypeOK ==
  /\ intents \subseteq Intent
  /\ copy \in [LeaseLane -> SUBSET SUBSET Intent]
  /\ \A l \in LeaseLane : Cardinality(copy[l]) <= 1
  /\ held \in [LeaseLane -> SUBSET LeaseFile]
  /\ clock \in 0..MaxTime /\ raced \in BOOLEAN /\ revived \in BOOLEAN

LeaseInit ==
  /\ intents = {} /\ copy = [l \in LeaseLane |-> {}]
  /\ held = [l \in LeaseLane |-> {}]
  /\ clock = 0 /\ raced = FALSE /\ revived = FALSE

(* getActiveClaims *)
active(is) == {i \in is : i.status # "done" /\ i.expires_at >= clock}

writing(l) == copy[l] # {}

(* A command that saves: what it is about to write, noted with its loading.  *)
loadAndChange(l, is) ==
  /\ ~writing(l)
  /\ copy' = [copy EXCEPT ![l] = {is}]
  /\ raced' = (raced \/ \E k \in LeaseLane : writing(k))
  /\ UNCHANGED <<intents, clock>>

(* A claim conflicts with every active one, also one of the same lane.       *)
claim_IgnoresOwn(l, f) ==
  /\ f \in sharedFiles => l = CANONICAL_OWNER
  /\ {i \in active(intents) : i.file = f /\ i.lane # l} = {} /\ Cardinality(intents) < MaxIntents
  /\ loadAndChange(l, intents \cup
       {[lane |-> l, file |-> f, status |-> "planning", expires_at |-> clock + LEASE_TTL]})
  /\ held' = [held EXCEPT ![l] = @ \cup {f}]
  /\ UNCHANGED revived
claim(l, f) ==
  /\ f \in sharedFiles => l = CANONICAL_OWNER
  /\ {i \in active(intents) : i.file = f} = {} /\ Cardinality(intents) < MaxIntents
  /\ loadAndChange(l, intents \cup
       {[lane |-> l, file |-> f, status |-> "planning",
         expires_at |-> clock + LEASE_TTL]})
  /\ held' = [held EXCEPT ![l] = @ \cup {f}]
  /\ UNCHANGED revived

(* A heartbeat renews whatever is not done, expired or not.                  *)
heartbeat(l, f) ==
  LET mine == {i \in intents : i.lane = l /\ i.file = f /\ i.status # "done"}
  IN /\ mine # {} /\ f \in held[l]
     /\ loadAndChange(l, (intents \ mine) \cup
          {[i EXCEPT !.status = "editing", !.expires_at = clock + LEASE_TTL] : i \in mine})
     /\ revived' = (revived \/ ~(mine \subseteq active(intents)))
     /\ UNCHANGED held

release(l, f) ==
  LET mine == {i \in intents : i.lane = l /\ i.file = f}
  IN /\ f \in held[l]
     /\ held' = [held EXCEPT ![l] = @ \ {f}]
     /\ IF mine = {}
        THEN ~writing(l) /\ UNCHANGED <<intents, copy, clock, raced>>
        ELSE loadAndChange(l, (intents \ mine) \cup
               {[i EXCEPT !.status = "done", !.expires_at = clock] : i \in mine})
     /\ UNCHANGED revived

saveIntents(l) ==
  /\ writing(l)
  /\ intents' \in copy[l]
  /\ copy' = [copy EXCEPT ![l] = {}]
  /\ UNCHANGED <<held, clock, raced, revived>>

(* A lease that has run out is not given back: its holder does not look.     *)
Tick ==
  /\ clock < MaxTime
  /\ clock' = clock + 1
  /\ UNCHANGED <<intents, copy, held, raced, revived>>

LeaseNext ==
  \/ \E l \in LeaseLane, f \in LeaseFile : claim(l, f) \/ heartbeat(l, f) \/ release(l, f)
  \/ \E l \in LeaseLane : saveIntents(l)
  \/ Tick

LeaseSpec == LeaseInit /\ [][LeaseNext]_leaseVars

-----------------------------------------------------------------------------
onRecord(l, is) ==
  \A f \in held[l] : \E i \in is : i.lane = l /\ i.file = f /\ i.status # "done"

(* As long as no two commands overlap, a lease given is on record until it   *)
(* is given back, whatever lapses meanwhile and is claimed anew; and no file *)
(* has two leases that have not run out, unless an expired one is revived.   *)
LeaseIsExclusiveInTurn ==
  ~raced =>
    /\ \A l \in LeaseLane : writing(l) \/ onRecord(l, intents)
    /\ ~revived => \A i, j \in active(intents) : i.file = j.file => i = j
=============================================================================
