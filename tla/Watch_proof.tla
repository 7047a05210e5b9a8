----------------------------- MODULE Watch_proof ------------------------------
(* Theorems on what runs beside a lane's worker: the watcher's lock, its     *)
(* moves, the agents that keep it off, and the watcher of the snapshots.     *)
EXTENDS WatcherLock, InboxWatcher, Presence, Snapshots, FiniteSetTheorems,
        SequenceTheorems, WellFoundedInduction, TLAPS

-----------------------------------------------------------------------------
(* The lock file names whoever holds it and has not been robbed of it.       *)
holders == {p \in Watcher : watcher[p] \in {"write", "in", "remove"}}
LockNamesHolder == \A p \in holders \ robbed : lockFile.pid = p
LockInvariant == LockTypeOK /\ LockNamesHolder

(* What one watcher's step does to the file and to the watcher.              *)
LEMMA LockMoves ==
  ASSUME NEW p \in Watcher, LockInvariant, lockStep(p)
  PROVE  /\ \E to \in {"out", "write", "read", "unlink", "retry", "in", "remove"} :
              watcher[p] # to /\ watcher[p] # "dead" /\ watcher' = [watcher EXCEPT ![p] = to]
         /\ watcher'[p] = "write" => lockFile = NoLockFile /\ lockFile'.pid = p
         /\ watcher'[p] = "in" => watcher[p] = "write"
         /\ watcher'[p] = "remove" => watcher[p] = "in"
         /\ lockFile' # NoLockFile => (lockFile'.pid = lockFile.pid \/ watcher'[p] = "write")
         /\ lockFile' \in {NoLockFile} \cup [pid : Watcher, reading : Reading]
<1> USE WatcherAssumption DEF LockInvariant, LockTypeOK, NoLockFile, Reading, move
<1>1. CASE tryAcquire(p)
  BY <1>1 DEF tryAcquire
<1>2. CASE writeOwner(p)
  BY <1>2 DEF writeOwner
<1>3. CASE judgeLock(p)
  BY <1>3 DEF judgeLock
<1>4. CASE reclaim(p)
  BY <1>4 DEF reclaim
<1>5. CASE releaseLock(p)
  BY <1>5 DEF releaseLock
<1> QED BY <1>1, <1>2, <1>3, <1>4, <1>5 DEF lockStep

LEMMA LockInvariantStep ==
  ASSUME LockInvariant, [LockNext]_lockVars
  PROVE  LockInvariant'
<1> USE WatcherAssumption
<1>1. ASSUME NEW p \in Watcher, lockStep(p)
      PROVE  LockInvariant'
  <2>1. PICK to \in {"out", "write", "read", "unlink", "retry", "in", "remove"} :
          watcher[p] # to /\ watcher[p] # "dead" /\ watcher' = [watcher EXCEPT ![p] = to]
    BY <1>1, LockMoves
  <2>2. /\ robbed' = IF lockFile' = NoLockFile /\ lockFile.pid \in Watcher \ {p} /\ pidAlive
                     THEN robbed \cup {lockFile.pid}
                     ELSE IF watcher'[p] = "write" THEN robbed \ {p} ELSE robbed
    BY <1>1 DEF lockStep
  <2>3. LockTypeOK'
    BY <1>1, <2>1, <2>2, LockMoves DEF LockInvariant, LockTypeOK
  <2>4. ASSUME NEW q \in Watcher, watcher'[q] \in {"write", "in", "remove"}, q \notin robbed'
        PROVE  lockFile'.pid = q
    <3>1. CASE q = p /\ to = "write"
      BY <1>1, <2>1, <3>1, LockMoves DEF LockInvariant, LockTypeOK
    <3>2. CASE q = p /\ to # "write"
      <4>1. watcher'[p] = to /\ q \in holders /\ q \notin robbed
        BY <1>1, <2>1, <2>2, <2>4, <3>2, LockMoves DEF LockInvariant, LockTypeOK, holders
      <4>2. lockFile.pid = q
        BY <4>1 DEF LockInvariant, LockNamesHolder
      <4>3. lockFile' # NoLockFile
        BY <1>1, <2>1, <2>4, <3>2, <4>1, <4>2
        DEF lockStep, tryAcquire, writeOwner, judgeLock, reclaim, releaseLock, move,
            NoLockFile, LockInvariant, LockTypeOK
      <4> QED BY <1>1, <3>2, <4>1, <4>2, <4>3, LockMoves
    <3>3. CASE q # p
      <4>1. q \in holders /\ watcher[q] # "dead" /\ q \notin robbed
        BY <2>1, <2>2, <2>4, <3>3 DEF LockInvariant, LockTypeOK, holders
      <4>2. lockFile.pid = q
        BY <4>1 DEF LockInvariant, LockNamesHolder
      <4>3. lockFile # NoLockFile
        BY <4>2 DEF NoLockFile
      <4>4. lockFile' # NoLockFile
        BY <2>2, <2>4, <3>3, <4>1, <4>2 DEF pidAlive
      <4> QED BY <1>1, <4>2, <4>3, <4>4, LockMoves
    <3> QED BY <3>1, <3>2, <3>3
  <2> QED BY <2>3, <2>4 DEF LockInvariant, LockNamesHolder, holders
<1>2. ASSUME NEW p \in Watcher, Perish(p)
      PROVE  LockInvariant'
  BY <1>2 DEF Perish, LockInvariant, LockTypeOK, LockNamesHolder, holders
<1>3. CASE LockAges
  BY <1>3 DEF LockAges, LockInvariant, LockTypeOK, LockNamesHolder, holders, Reading, NoLockFile
<1>4. CASE UNCHANGED lockVars
  BY <1>4 DEF lockVars, LockInvariant, LockTypeOK, LockNamesHolder, holders
<1> QED BY <1>1, <1>2, <1>3, <1>4 DEF LockNext

(* At most one watcher works without having been robbed of its lock, for any *)
(* number of watchers, deaths and locks that grow old.                       *)
THEOREM OneWatcherAlways == LockSpec => []OneWatcherButForRobbery
<1>1. LockInit => LockInvariant
  BY DEF LockInit, LockInvariant, LockTypeOK, LockNamesHolder, holders
<1>2. LockInvariant => OneWatcherButForRobbery
  <2> SUFFICES ASSUME LockInvariant PROVE Cardinality(inside \ robbed) <= 1
    BY DEF OneWatcherButForRobbery
  <2>1. inside \ robbed \subseteq {lockFile.pid}
    BY DEF inside, LockInvariant, LockNamesHolder, holders
  <2>2. IsFiniteSet({lockFile.pid}) /\ Cardinality({lockFile.pid}) = 1
    BY FS_Singleton
  <2>3. Cardinality(inside \ robbed) <= Cardinality({lockFile.pid})
    BY <2>1, <2>2, FS_Subset
  <2> QED BY <2>2, <2>3
<1> QED BY <1>1, <1>2, LockInvariantStep, PTL DEF LockSpec

-----------------------------------------------------------------------------
(* A move that has written its copy has it where it goes, which is not the   *)
(* inbox.                                                                    *)
CopiesLie ==
  /\ listed \subseteq WatchedFile /\ batch \subseteq WatchedFile /\ moving \subseteq Move
  /\ \A m \in moving : /\ m.to \in Folder \ {"inbox"}
                       /\ m.written => <<m.file, m.to>> \in filed

LEMMA TowardIsAMove ==
  ASSUME NEW f \in WatchedFile, NEW d \in Folder, NEW names \in SUBSET {f},
         NEW always \in SUBSET {keyOf[f]}, NEW back \in {"scan", "work"}
  PROVE  /\ toward(f, d, names, always, back) \in Move
         /\ toward(f, d, names, always, back).to = d
         /\ ~toward(f, d, names, always, back).written
BY DEF toward, Move, keys

LEMMA CopiesLieStep ==
  ASSUME CopiesLie, [WatchNext]_watchVars
  PROVE  CopiesLie'
<1> USE DEF CopiesLie, Folder, in
<1>1. ASSUME NEW f \in WatchedFile, Post(f)
      PROVE  CopiesLie'
  BY <1>1 DEF Post
<1>2. ASSUME NEW f \in WatchedFile, TakeAway(f)
      PROVE  CopiesLie'
  BY <1>2 DEF TakeAway
<1>3. CASE loadProcessedKeys
  BY <1>3 DEF loadProcessedKeys
<1>4. CASE endScan
  BY <1>4 DEF endScan, exit, applyPreemption
<1>5. CASE repeat
  BY <1>5 DEF repeat
<1>6. ASSUME NEW f \in listed, scan(f)
      PROVE  CopiesLie'
  <2>0. f \in WatchedFile /\ listed' \subseteq WatchedFile /\ batch' \subseteq WatchedFile
    BY <1>6 DEF scan, exit
  <2>1. filed' = filed
    BY <1>6 DEF scan
  <2>2. \/ moving' = {} \/ moving' = moving
        \/ moveToExpired(f)
        \/ begin(toward(f, "processed", {f}, {}, "scan"))
    <3>1. CASE f \notin in("inbox") \/ nature[f] = "malformed"
      BY <1>6, <3>1 DEF scan, exit
    <3>2. CASE f \in in("inbox") /\ nature[f] = "alien"
      BY <1>6, <3>2, Zenon DEF scan
    <3>3. CASE f \in in("inbox") /\ nature[f] \notin {"malformed", "alien"} /\ keyOf[f] \in processedKeys
      BY <1>6, <3>3, Zenon DEF scan
    <3>4. CASE f \in in("inbox") /\ nature[f] \notin {"malformed", "alien"} /\ keyOf[f] \notin processedKeys
      BY <1>6, <3>4, Zenon DEF scan
    <3> QED BY <3>1, <3>2, <3>3, <3>4
  <2>3. CASE moving' = {} \/ moving' = moving
    BY <2>0, <2>1, <2>3
  <2>4. CASE moveToExpired(f)
    BY <2>0, <2>1, <2>4, TowardIsAMove DEF moveToExpired, begin
  <2>5. CASE begin(toward(f, "processed", {f}, {}, "scan"))
    BY <2>0, <2>1, <2>5, TowardIsAMove DEF begin
  <2> QED BY <2>2, <2>3, <2>4, <2>5
<1>7. ASSUME NEW f \in batch, processMessage(f)
      PROVE  CopiesLie'
  <2>0. f \in WatchedFile /\ UNCHANGED listed /\ batch' \subseteq batch
    BY <1>7 DEF processMessage
  <2>1. filed' = filed
    BY <1>7 DEF processMessage
  <2>2. CASE moving' = moving
    BY <2>0, <2>1, <2>2
  <2>3. CASE begin(toward(f, "action-required", {}, {keyOf[f]}, "work"))
    BY <2>0, <2>1, <2>3, TowardIsAMove DEF begin
  <2>4. CASE begin(toward(f, "processed", {f}, {keyOf[f]}, "work"))
    BY <2>0, <2>1, <2>4, TowardIsAMove DEF begin
  <2>5. consensus[f] \in {"route", "escalate", "hold", "block"}
    BY <2>0, WatchedAssumption
  <2>6. \/ moving' = moving
        \/ begin(toward(f, "action-required", {}, {keyOf[f]}, "work"))
        \/ begin(toward(f, "processed", {f}, {keyOf[f]}, "work"))
    BY <1>7, <2>5, Zenon DEF processMessage
  <2> QED BY <2>2, <2>3, <2>4, <2>6
<1>8. ASSUME NEW m \in moving, moveFile(m)
      PROVE  CopiesLie'
  <2>1. \/ moving' = {}
        \/ /\ moving' = {[m EXCEPT !.written = TRUE]}
           /\ filed' = filed \cup {<<m.file, m.to>>}
    BY <1>8 DEF moveFile, endMove
  <2>2. UNCHANGED <<listed, batch>>
    BY <1>8 DEF moveFile
  <2>3. [m EXCEPT !.written = TRUE] \in Move /\ [m EXCEPT !.written = TRUE].to = m.to
          /\ [m EXCEPT !.written = TRUE].file = m.file
    BY DEF Move
  <2> QED BY <2>1, <2>2, <2>3
<1>9. ASSUME NEW m \in moving, moveFails(m)
      PROVE  CopiesLie'
  BY <1>9 DEF moveFails, endMove
<1>10. CASE DieInRun
  BY <1>10 DEF DieInRun, exit
<1>11. ASSUME NEW f \in batch, refuseMutation(f)
       PROVE  CopiesLie'
  BY <1>11 DEF refuseMutation
<1>12. CASE UNCHANGED watchVars
  BY <1>12 DEF watchVars
<1> QED
  BY <1>1, <1>2, <1>3, <1>4, <1>5, <1>6, <1>7, <1>8, <1>9, <1>10, <1>11, <1>12
     DEF WatchNext, watchStep

(* A step removes a file from the inbox only when it lies elsewhere, too.    *)
LEMMA OnlyTheInboxIsLeft ==
  ASSUME CopiesLie, [WatchNext]_watchVars, NEW f \in WatchedFile, NEW d \in Folder, f \in in(d)
  PROVE  \E e \in Folder : <<f, e>> \in filed'
<1> USE DEF in
<1>1. <<f, d>> \in filed
  OBVIOUS
<1>2. CASE filed \subseteq filed'
  BY <1>1, <1>2
<1>3. ASSUME NEW g \in WatchedFile, TakeAway(g)
      PROVE  \E e \in Folder : <<f, e>> \in filed'
  BY <1>1, <1>3 DEF TakeAway, Folder
<1>4. ASSUME NEW m \in moving, moveFile(m)
      PROVE  \E e \in Folder : <<f, e>> \in filed'
  <2>1. CASE m.written \/ m.file \in in(m.to) \/ m.file \notin in("inbox")
    <3>1. filed' = filed \ {<<m.file, "inbox">>}
      BY <1>4, <2>1 DEF moveFile
    <3>2. CASE <<f, d>> = <<m.file, "inbox">>
      <4>1. <<m.file, m.to>> \in filed /\ m.to \in Folder \ {"inbox"}
        BY <1>1, <2>1, <3>2 DEF CopiesLie
      <4> QED BY <3>1, <3>2, <4>1
    <3> QED BY <1>1, <3>1, <3>2
  <2>2. CASE ~(m.written \/ m.file \in in(m.to) \/ m.file \notin in("inbox"))
    BY <1>1, <1>4, <2>2 DEF moveFile
  <2> QED BY <2>1, <2>2
<1>5. CASE /\ \A g \in WatchedFile : ~TakeAway(g)
           /\ \A m \in moving : ~moveFile(m)
  <2>1. filed \subseteq filed'
    BY <1>5 DEF WatchNext, watchStep, watchVars, Post, loadProcessedKeys, endScan, repeat, scan,
                processMessage, moveFails, refuseMutation, DieInRun
  <2> QED BY <1>2, <2>1
<1> QED BY <1>3, <1>4, <1>5

(* No message vanishes, for any number of files, repeats, deaths, failed     *)
(* moves and files that others take away.                                    *)
THEOREM NothingEverVanishes == WatchSpec => NothingVanishes
<1>1. WatchInit => CopiesLie
  BY DEF WatchInit, CopiesLie, Move
<1>2. CopiesLie /\ [WatchNext]_watchVars
        => \A f \in WatchedFile : (\E d \in Folder : f \in in(d)) => \E d \in Folder : (f \in in(d))'
  BY OnlyTheInboxIsLeft DEF in
<1> QED BY <1>1, <1>2, CopiesLieStep, PTL DEF WatchSpec, NothingVanishes

-----------------------------------------------------------------------------
(* What the watcher has listed, read and has under way are different files;  *)
(* it lists none whose name it knows, and what it has read lies in the inbox *)
(* or has been taken from there to the processed files.                      *)
arrived == in("inbox") \cup in("processed")

MoveOK(m) ==
  /\ m.file \notin batch \cup listed
  /\ m.back = "scan" => m.onSuccess \subseteq {m.file} /\ m.always = {}
  /\ m.back = "work" => listed = {} /\ keyOf[m.file] \in m.always
  /\ m.to = "processed" => m.file \in arrived

Filing ==
  /\ moving # {} => step = "move" /\ \E m \in moving : moving = {m}
  /\ step = "off" => batch = {}
  /\ step = "work" => listed = {}
  /\ listed \cap batch = {} /\ listed \cap processedKeys = {}
  /\ batch \subseteq arrived
  /\ \A m \in moving : MoveOK(m)

(* A message that was handled will not be handled again: it is among the     *)
(* processed files, and the process that runs knows its name or its key.     *)
Settled(f) ==
  /\ f \in in("processed") /\ f \notin batch
  /\ step = "off" \/ f \in processedKeys \/ keyOf[f] \in processedKeys

(* Or it is on its way there.                                                *)
UnderWay(f) == \E m \in moving : m.file = f /\ m.to = "processed" /\ m.back = "work"

(* Each handling of f but one is paid for by a mishap, and while one is not, *)
(* f is not handled again.                                                   *)
Paid(f) == \/ handled[f] <= mishaps
           \/ handled[f] <= 1 + mishaps /\ (Settled(f) \/ UnderWay(f))

HandledInv ==
  /\ CopiesLie /\ Filing
  /\ handled \in [WatchedFile -> Nat] /\ mishaps \in Nat
  /\ \A f \in WatchedFile : Paid(f)

(* Where nothing is handled or goes wrong, what is settled or under way has  *)
(* to stay so.                                                               *)
LEMMA PaidStays ==
  ASSUME NEW f \in WatchedFile, Paid(f), handled'[f] = handled[f], mishaps' = mishaps,
         Settled(f) \/ UnderWay(f) => Settled(f)' \/ UnderWay(f)'
  PROVE  Paid(f)'
BY DEF Paid

LEMMA MishapPays ==
  ASSUME NEW f \in WatchedFile, Paid(f), handled'[f] = handled[f], mishaps' = mishaps + 1,
         handled[f] \in Nat, mishaps \in Nat
  PROVE  Paid(f)'
BY DEF Paid

LEMMA SettledStays ==
  ASSUME NEW f \in WatchedFile, Settled(f), in("processed") \subseteq in("processed")',
         f \notin batch', step' = "off" \/ (step # "off" /\ processedKeys \subseteq processedKeys')
  PROVE  Settled(f)'
BY DEF Settled, in

(* The others: they post files, and take them to the processed ones.         *)
LEMMA OthersFile ==
  ASSUME HandledInv, NEW g \in WatchedFile, Post(g) \/ TakeAway(g)
  PROVE  Filing' /\ \A f \in WatchedFile : Paid(f)'
<1>1. /\ UNCHANGED <<step, listed, batch, moving, processedKeys, handled, mishaps>>
      /\ in("processed") \subseteq in("processed")' /\ arrived \subseteq arrived'
  BY DEF Post, TakeAway, arrived, in
<1>2. Filing'
  BY <1>1 DEF HandledInv, Filing, MoveOK
<1>3. ASSUME NEW f \in WatchedFile PROVE Paid(f)'
  <2>1. Settled(f) => Settled(f)'
    BY <1>1 DEF Settled
  <2>2. UnderWay(f) => UnderWay(f)'
    BY <1>1 DEF UnderWay
  <2>3. QED BY <1>1, <2>1, <2>2, PaidStays DEF HandledInv
<1>4. QED BY <1>2, <1>3

(* A process begins with the names of the processed files; one that ends     *)
(* forgets everything.                                                       *)
LEMMA LoadFiles ==
  ASSUME HandledInv, loadProcessedKeys
  PROVE  Filing' /\ \A f \in WatchedFile : Paid(f)'
<1>1. /\ step = "off" /\ step' = "scan" /\ batch = {} /\ moving = {}
      /\ processedKeys' = in("processed") /\ listed' = in("inbox") \ in("processed")
      /\ UNCHANGED <<filed, batch, moving, handled, mishaps>>
  BY DEF loadProcessedKeys, HandledInv, Filing, watchCounts
<1>2. Filing'
  BY <1>1 DEF Filing
<1>3. ASSUME NEW f \in WatchedFile PROVE Paid(f)'
  <2>1. Settled(f) => Settled(f)'
    BY <1>1 DEF Settled, in
  <2>2. ~UnderWay(f)
    BY <1>1 DEF UnderWay
  <2>3. QED BY <1>1, <2>1, <2>2, PaidStays DEF HandledInv
<1>4. QED BY <1>2, <1>3

LEMMA ExitFiles ==
  ASSUME HandledInv, exit, filed' = filed, handled' = handled,
         (mishaps' = mishaps /\ moving = {}) \/ mishaps' = mishaps + 1
  PROVE  Filing' /\ \A f \in WatchedFile : Paid(f)'
<1>1. Filing'
  BY DEF exit, Filing
<1>2. ASSUME NEW f \in WatchedFile PROVE Paid(f)'
  <2>1. CASE mishaps' = mishaps + 1
    BY <2>1, MishapPays DEF HandledInv
  <2>2. CASE mishaps' = mishaps /\ moving = {}
    <3>1. Settled(f) => Settled(f)'
      BY DEF exit, Settled, in
    <3>2. ~UnderWay(f)
      BY <2>2 DEF UnderWay
    <3>3. QED BY <2>2, <3>1, <3>2, PaidStays DEF HandledInv
  <2>3. QED BY <2>1, <2>2
<1>3. QED BY <1>1, <1>2

(* The end of a scan and of a batch: nothing is under way.                   *)
LEMMA TurnFiles ==
  ASSUME HandledInv, endScan \/ repeat
  PROVE  Filing' /\ \A f \in WatchedFile : Paid(f)'
<1>1. /\ UNCHANGED <<filed, handled, mishaps>> /\ moving = {} /\ step # "off"
      /\ step = "work" \/ listed = {}
  BY DEF endScan, repeat, HandledInv, Filing, watchCounts
<1>2. CASE exit
  BY <1>1, <1>2, ExitFiles
<1>3. CASE /\ UNCHANGED <<moving, processedKeys>> /\ batch' \subseteq batch
           /\ \/ step' = "work" /\ listed' = {}
              \/ step' = "scan" /\ batch' = {} /\ listed' \cap processedKeys = {}
  <2>1. Filing'
    BY <1>1, <1>3 DEF HandledInv, Filing, arrived, in
  <2>2. ASSUME NEW f \in WatchedFile PROVE Paid(f)'
    <3>1. Settled(f) => Settled(f)'
      BY <1>1, <1>3, SettledStays DEF Settled, in
    <3>2. ~UnderWay(f)
      BY <1>1 DEF UnderWay
    <3>3. QED BY <1>1, <3>1, <3>2, PaidStays DEF HandledInv
  <2>3. QED BY <2>1, <2>2
<1>4. QED BY <1>1, <1>2, <1>3 DEF endScan, repeat, applyPreemption

(* A file that is read is moved at once or joins the batch, as its key is    *)
(* not known.                                                                *)
LEMMA ScanFiles ==
  ASSUME HandledInv, NEW f \in listed, scan(f)
  PROVE  Filing' /\ \A g \in WatchedFile : Paid(g)'
<1>1. /\ UNCHANGED <<filed, handled, mishaps>> /\ moving = {} /\ step = "scan"
      /\ f \in WatchedFile /\ f \notin batch /\ f \notin processedKeys
  BY DEF scan, HandledInv, Filing, CopiesLie, watchCounts
<1>2. CASE exit
  BY <1>1, <1>2, ExitFiles
<1>3. CASE ~exit
  <2>1. /\ f \in in("inbox") /\ nature[f] # "malformed" /\ listed' = listed \ {f}
        /\ processedKeys' = processedKeys
    BY <1>3 DEF scan
  <2>2. \/ batch' = batch /\ moveToExpired(f)
        \/ batch' = batch /\ begin(toward(f, "processed", {f}, {}, "scan"))
        \/ /\ batch' = batch \cup {f} /\ UNCHANGED <<step, moving>>
           /\ keyOf[f] \notin processedKeys
    <3>1. CASE nature[f] = "alien"
      BY <1>1, <2>1, <3>1, Zenon DEF scan
    <3>2. CASE nature[f] # "alien" /\ keyOf[f] \in processedKeys
      BY <1>1, <2>1, <3>2, Zenon DEF scan
    <3>3. CASE nature[f] # "alien" /\ keyOf[f] \notin processedKeys
      BY <1>1, <2>1, <3>3, Zenon DEF scan
    <3> QED BY <3>1, <3>2, <3>3
  <2>3. /\ listed \cap batch = {} /\ listed \cap processedKeys = {} /\ batch \subseteq arrived
        /\ f \in arrived /\ arrived' = arrived
    BY <1>1, <2>1 DEF HandledInv, Filing, arrived, in
  <2>4. Filing'
    <3>1. CASE /\ batch' = batch \cup {f} /\ UNCHANGED <<step, moving>>
      BY <1>1, <2>1, <2>3, <3>1 DEF Filing
    <3>2. ASSUME NEW d \in Folder, begin(toward(f, d, {f}, {}, "scan")), batch' = batch
          PROVE  Filing'
      <4>1. /\ step' = "move" /\ moving' = {toward(f, d, {f}, {}, "scan")}
        BY <3>2 DEF begin
      <4>2. MoveOK(toward(f, d, {f}, {}, "scan"))'
        BY <1>1, <2>1, <2>3, <3>2 DEF MoveOK, toward
      <4> QED BY <1>1, <2>1, <2>3, <3>2, <4>1, <4>2 DEF Filing
    <3>3. CASE batch' = batch /\ moveToExpired(f)
      BY <3>2, <3>3 DEF moveToExpired, Folder
    <3> QED BY <2>2, <3>1, <3>2, <3>3 DEF Folder
  <2>5. ASSUME NEW g \in WatchedFile PROVE Paid(g)'
    <3>1. ~UnderWay(g)
      BY <1>1 DEF UnderWay
    <3>2. Settled(g) => g \notin batch'
      BY <1>1, <2>2 DEF Settled
    <3>3. Settled(g) => Settled(g)'
      BY <1>1, <2>1, <3>2, SettledStays DEF in
    <3> QED BY <1>1, <3>1, <3>3, PaidStays DEF HandledInv
  <2> QED BY <2>4, <2>5
<1> QED BY <1>2, <1>3

(* A message of the batch is not settled: what is handled was not yet paid   *)
(* for. It is then under way to the processed files.                         *)
LEMMA ProcessFiles ==
  ASSUME HandledInv, NEW f \in batch, processMessage(f)
  PROVE  Filing' /\ \A g \in WatchedFile : Paid(g)'
<1>1. /\ UNCHANGED <<filed, listed, processedKeys, mishaps>> /\ batch' = batch \ {f}
      /\ moving = {} /\ step = "work" /\ listed = {}
      /\ f \in WatchedFile /\ f \in arrived /\ arrived' = arrived
  BY DEF processMessage, HandledInv, Filing, CopiesLie, watchCounts, arrived, in
<1>2. \/ consensus[f] \in {"hold", "block"} /\ UNCHANGED <<step, moving>>
      \/ /\ consensus[f] = "escalate"
         /\ begin(toward(f, "action-required", {}, {keyOf[f]}, "work"))
      \/ consensus[f] = "route" /\ begin(toward(f, "processed", {f}, {keyOf[f]}, "work"))
  <2>1. consensus[f] \in {"route", "escalate", "hold", "block"}
    BY <1>1, WatchedAssumption
  <2>2. CASE consensus[f] \in {"hold", "block"}
    BY <2>2, Zenon DEF processMessage
  <2>3. CASE consensus[f] = "escalate"
    BY <2>3, Zenon DEF processMessage
  <2>4. CASE consensus[f] = "route"
    BY <2>4, Zenon DEF processMessage
  <2> QED BY <2>1, <2>2, <2>3, <2>4
<1>3. Filing'
  <2>1. ASSUME NEW d \in {"action-required", "processed"}, NEW names,
               begin(toward(f, d, names, {keyOf[f]}, "work"))
        PROVE  Filing'
    <3>1. step' = "move" /\ moving' = {toward(f, d, names, {keyOf[f]}, "work")}
      BY <2>1 DEF begin
    <3>2. MoveOK(toward(f, d, names, {keyOf[f]}, "work"))'
      BY <1>1 DEF MoveOK, toward
    <3> QED BY <1>1, <3>1, <3>2 DEF HandledInv, Filing
  <2>2. CASE UNCHANGED <<step, moving>>
    BY <1>1, <2>2 DEF HandledInv, Filing
  <2> QED BY <1>2, <2>1, <2>2
<1>4. ASSUME NEW g \in WatchedFile PROVE Paid(g)'
  <2>1. ~UnderWay(g)
    BY <1>1 DEF UnderWay
  <2>2. Settled(g) => Settled(g)'
    BY <1>1, SettledStays DEF Settled, in
  <2>3. CASE handled'[g] = handled[g]
    BY <1>1, <2>1, <2>2, <2>3, PaidStays DEF HandledInv
  <2>4. CASE g = f /\ consensus[f] = "route"
    <3>1. handled[g] <= mishaps /\ handled[g] \in Nat /\ mishaps \in Nat
      BY <2>1, <2>4 DEF HandledInv, Paid, Settled
    <3>2. handled'[g] <= 1 + mishaps'
      BY <1>1, <3>1 DEF processMessage, HandledInv
    <3>3. moving' = {toward(f, "processed", {f}, {keyOf[f]}, "work")}
      BY <1>2, <2>4 DEF begin
    <3>4. UnderWay(g)'
      BY <2>4, <3>3 DEF toward, UnderWay
    <3> QED BY <3>2, <3>4 DEF Paid
  <2> QED BY <2>3, <2>4 DEF processMessage, HandledInv
<1> QED BY <1>3, <1>4

(* A move that ends has its file among the processed ones, if it was to get  *)
(* there: it has written it, found it there, or somebody else took it there. *)
LEMMA MoveFiles ==
  ASSUME HandledInv, NEW m \in moving, moveFile(m)
  PROVE  Filing' /\ \A g \in WatchedFile : Paid(g)'
<1>1. /\ UNCHANGED <<listed, batch, handled, mishaps>> /\ step = "move" /\ moving = {m}
      /\ MoveOK(m) /\ m \in Move /\ m.to # "inbox"
      /\ m.written => <<m.file, m.to>> \in filed
  BY DEF moveFile, watchCounts, HandledInv, Filing, CopiesLie
<1>2. CASE m.written \/ m.file \in in(m.to) \/ m.file \notin in("inbox")
  <2>1. /\ filed' = filed \ {<<m.file, "inbox">>} /\ moving' = {} /\ step' = m.back
        /\ endMove(m, m.file \in in("inbox") \/ ~m.written)
    BY <1>2 DEF moveFile, endMove
  <2>2. /\ processedKeys \cup m.always \subseteq processedKeys'
        /\ processedKeys' \subseteq processedKeys \cup m.always \cup m.onSuccess
    BY <2>1 DEF endMove
  <2>3. in("processed") \subseteq in("processed")' /\ batch' \subseteq arrived'
    BY <1>1, <2>1 DEF in, arrived, HandledInv, Filing, MoveOK
  <2>4. m.to = "processed" => m.file \in in("processed")'
    BY <1>1, <1>2, <2>1 DEF in, arrived, MoveOK, Move
  <2>5. step' \in {"scan", "work"}
    BY <1>1, <2>1 DEF Move
  <2>6. Filing'
    <3>1. step' = "work" => listed' = {}
      BY <1>1, <2>1 DEF MoveOK
    <3>2. listed' \cap processedKeys' = {}
      <4>1. CASE m.back = "work"
        BY <1>1, <4>1 DEF MoveOK
      <4>2. CASE m.back = "scan"
        BY <1>1, <2>2, <4>2 DEF MoveOK, HandledInv, Filing
      <4> QED BY <2>1, <2>5, <4>1, <4>2
    <3> QED BY <1>1, <2>1, <2>3, <2>5, <3>1, <3>2 DEF HandledInv, Filing
  <2>7. ASSUME NEW g \in WatchedFile PROVE Paid(g)'
    <3>1. Settled(g) => Settled(g)'
      BY <1>1, <2>2, <2>3, SettledStays DEF Settled
    <3>2. UnderWay(g) => Settled(g)'
      <4> SUFFICES ASSUME UnderWay(g) PROVE Settled(g)'
        OBVIOUS
      <4>1. g = m.file /\ m.to = "processed" /\ m.back = "work"
        BY <1>1 DEF UnderWay
      <4>2. g \notin batch' /\ keyOf[g] \in processedKeys'
        BY <1>1, <2>2, <4>1 DEF MoveOK
      <4> QED BY <2>4, <4>1, <4>2 DEF Settled
    <3> QED BY <1>1, <3>1, <3>2, PaidStays DEF HandledInv
  <2> QED BY <2>6, <2>7
<1>3. CASE ~(m.written \/ m.file \in in(m.to) \/ m.file \notin in("inbox"))
  <2>1. /\ filed' = filed \cup {<<m.file, m.to>>} /\ UNCHANGED <<step, processedKeys>>
        /\ moving' = {[m EXCEPT !.written = TRUE]}
    BY <1>3 DEF moveFile
  <2> DEFINE n == [m EXCEPT !.written = TRUE]
  <2>2. /\ moving' = {n} /\ n.file = m.file /\ n.to = m.to /\ n.back = m.back
        /\ n.always = m.always /\ n.onSuccess = m.onSuccess
    <3>1. n \in Move /\ n.file = m.file /\ n.to = m.to /\ n.back = m.back
      BY <1>1 DEF Move
    <3>2. n.always = m.always /\ n.onSuccess = m.onSuccess
      BY <1>1 DEF Move
    <3> QED BY <2>1, <3>1, <3>2
  <2> HIDE DEF n
  <2>3. in("processed") \subseteq in("processed")' /\ arrived \subseteq arrived'
    BY <2>1 DEF in, arrived
  <2>4. MoveOK(n)'
    BY <1>1, <2>2, <2>3 DEF MoveOK
  <2>5. Filing'
    BY <1>1, <2>1, <2>2, <2>3, <2>4 DEF HandledInv, Filing
  <2>6. ASSUME NEW g \in WatchedFile PROVE Paid(g)'
    <3>1. Settled(g) => Settled(g)'
      BY <1>1, <2>1, <2>3, SettledStays DEF Settled
    <3>2. UnderWay(g) => UnderWay(g)'
      BY <1>1, <2>2 DEF UnderWay
    <3> QED BY <1>1, <3>1, <3>2, PaidStays DEF HandledInv
  <2> QED BY <2>5, <2>6
<1> QED BY <1>2, <1>3

LEMMA FailureFiles ==
  ASSUME HandledInv, NEW m \in moving, moveFails(m)
  PROVE  Filing' /\ \A g \in WatchedFile : Paid(g)'
<1>1. /\ UNCHANGED <<filed, listed, batch, handled>> /\ moving' = {} /\ step' = m.back
      /\ mishaps' = mishaps + 1 /\ processedKeys' = processedKeys \cup m.always
      /\ MoveOK(m) /\ m.back \in {"scan", "work"}
  BY DEF moveFails, endMove, HandledInv, Filing, CopiesLie, Move
<1>2. Filing'
  BY <1>1 DEF HandledInv, Filing, MoveOK, arrived, in
<1>3. \A g \in WatchedFile : Paid(g)'
  BY <1>1, MishapPays DEF HandledInv
<1> QED BY <1>2, <1>3

LEMMA RefusalFiles ==
  ASSUME HandledInv, NEW f \in batch, refuseMutation(f)
  PROVE  Filing' /\ \A g \in WatchedFile : Paid(g)'
<1>1. /\ step = "work" /\ batch' = batch \ {f}
      /\ UNCHANGED <<filed, step, listed, moving, processedKeys, handled, mishaps>>
  BY DEF refuseMutation
<1>2. Filing'
  BY <1>1 DEF HandledInv, Filing, MoveOK, arrived, in
<1>3. \A g \in WatchedFile : Paid(g)'
  BY <1>1 DEF HandledInv, Paid, Settled, UnderWay, in
<1> QED BY <1>2, <1>3

LEMMA HandledInvStep == HandledInv /\ [WatchNext]_watchVars => HandledInv'
<1> SUFFICES ASSUME HandledInv, [WatchNext]_watchVars PROVE HandledInv'
  OBVIOUS
<1>1. CopiesLie'
  BY CopiesLieStep DEF HandledInv
<1>2. Filing' /\ \A g \in WatchedFile : Paid(g)'
  <2>1. CASE \E g \in WatchedFile : Post(g) \/ TakeAway(g)
    BY <2>1, OthersFile
  <2>2. CASE loadProcessedKeys \/ endScan \/ repeat
    BY <2>2, LoadFiles, TurnFiles
  <2>3. CASE \E f \in listed : scan(f)
    BY <2>3, ScanFiles
  <2>4. CASE \E f \in batch : processMessage(f)
    BY <2>4, ProcessFiles
  <2>5. CASE \E m \in moving : moveFile(m) \/ moveFails(m)
    BY <2>5, MoveFiles, FailureFiles
  <2>6. CASE DieInRun
    BY <2>6, ExitFiles DEF DieInRun
  <2>7. CASE \E f \in batch : refuseMutation(f)
    BY <2>7, RefusalFiles
  <2>8. CASE UNCHANGED watchVars
    BY <2>8 DEF watchVars, watchCounts, HandledInv, Filing, MoveOK, Paid, Settled, UnderWay,
                arrived, in
  <2> QED BY <2>1, <2>2, <2>3, <2>4, <2>5, <2>6, <2>7, <2>8 DEF WatchNext, watchStep
<1>3. handled' \in [WatchedFile -> Nat]
  <2>1. CASE UNCHANGED handled
    BY <2>1 DEF HandledInv
  <2>2. CASE \E f \in batch : processMessage(f)
    BY <2>2 DEF processMessage, HandledInv, CopiesLie
  <2> QED BY <2>1, <2>2 DEF WatchNext, watchStep, watchVars, Post, TakeAway, loadProcessedKeys,
             endScan, repeat, scan, moveFile, moveFails, refuseMutation, DieInRun
<1>4. mishaps' \in Nat
  <2>1. mishaps' \in {mishaps, mishaps + 1}
    BY DEF WatchNext, watchStep, watchVars, watchCounts, Post, TakeAway, loadProcessedKeys,
           endScan, repeat, scan, processMessage, moveFile, moveFails, refuseMutation, DieInRun
  <2> QED BY <2>1 DEF HandledInv
<1> QED BY <1>1, <1>2, <1>3, <1>4 DEF HandledInv

(* A message is answered once, and once more for each death of the watcher   *)
(* and each move that fails, whatever is posted again or taken away, for any *)
(* number of messages, whatever their keys.                                  *)
THEOREM HandledOnceAlways == WatchSpec => []HandledOnce
<1>1. WatchInit => HandledInv
  BY DEF WatchInit, HandledInv, CopiesLie, Filing, Paid, arrived, Move, in
<1>2. HandledInv => HandledOnce
  BY DEF HandledInv, HandledOnce, Paid
<1> QED BY <1>1, <1>2, HandledInvStep, PTL DEF WatchSpec

-----------------------------------------------------------------------------
(* As long as no agent has undone what another one wrote, the lock file is   *)
(* there while an agent is.                                                  *)
PresenceInvariant ==
  /\ settled \subseteq present
  /\ ~foreign => (present # {} => lock # NoLock) /\ (check = "pass" => settled = {})

(* The watcher keeps off a lane unless an agent has wiped out the traces of  *)
(* another, for any number of agents.                                        *)
THEOREM WatcherAlwaysKeepsOff == PresenceSpec => []WatcherKeepsOff
<1>1. PresenceInit => PresenceInvariant
  BY DEF PresenceInit, PresenceInvariant
<1>2. PresenceInvariant /\ [PresenceNext]_presenceVars => PresenceInvariant'
  <2> SUFFICES ASSUME PresenceInvariant, [PresenceNext]_presenceVars
               PROVE  PresenceInvariant'
    OBVIOUS
  <2> USE PresenceAssumption DEF PresenceInvariant
  <2>1. ASSUME NEW v \in Visitor, acquire(v)
        PROVE  PresenceInvariant'
    BY <2>1 DEF acquire
  <2>2. ASSUME NEW v \in Visitor, releasePresence(v)
        PROVE  PresenceInvariant'
    BY <2>2 DEF releasePresence, others
  <2>3. ASSUME NEW v \in Visitor, setWatcherMode(v)
        PROVE  PresenceInvariant'
    BY <2>3 DEF setWatcherMode
  <2>4. CASE watcherStep
    BY <2>4 DEF watcherStep, beginCheck, readWatcherMode, isAgentActive, endPass
  <2>5. CASE UNCHANGED presenceVars
    BY <2>5 DEF presenceVars
  <2> QED BY <2>1, <2>2, <2>3, <2>4, <2>5 DEF PresenceNext
<1>3. PresenceInvariant => WatcherKeepsOff
  BY DEF PresenceInvariant, WatcherKeepsOff
<1> QED BY <1>1, <1>2, <1>3, PTL DEF PresenceSpec

-----------------------------------------------------------------------------
(* What is on record has been given to the processor, or is excused.         *)
accounted(s, t) == t = 0 \/ <<s, t>> \in handed \cup excused
underRecord == at \in {"save", "hand"}

SnapshotTypes ==
  /\ mtime \in [Snap -> Time] /\ written \in Time /\ whole \subseteq Snap
  /\ recordFile \in [Snap -> Time] /\ processed \in [Snap -> Time]
  /\ stage \in {"down", "first", "polling"}
  /\ isProcessing \in BOOLEAN /\ readableRecord \in BOOLEAN /\ thrown \in BOOLEAN

(* The loop is at work in a live process that has not thrown, on a snapshot  *)
(* whose record, once made, is that of what was parsed or is excused.        *)
LoopIsAlive ==
  /\ at # "none" => stage # "down" /\ isProcessing /\ ~thrown
  /\ thrown /\ stage # "down" => stage = "polling" /\ isProcessing
  /\ at = "stat" => inHand \in Snap
  /\ underRecord => /\ inHand \in Snap
                    /\ processed[inHand] = parsed \/ accounted(inHand, processed[inHand])
  /\ at = "hand" => recordFile[inHand] = processed[inHand]

(* The record in memory, which the next save writes, until the loop throws.  *)
MemoryIsAccounted ==
  stage # "down" /\ ~thrown =>
    \A s \in Snap : accounted(s, processed[s]) \/ (underRecord /\ inHand = s)

FileIsAccounted ==
  readableRecord =>
    \A s \in Snap : accounted(s, recordFile[s]) \/ (at = "hand" /\ inHand = s)

SnapshotInvariant == SnapshotTypes /\ LoopIsAlive /\ MemoryIsAccounted /\ FileIsAccounted

LEMMA TimesAreNumbers == 0 \in Time /\ (\A t \in Time : t \in Nat) /\ Empty \in [Snap -> Time]
<1>1. MaxWrites \in Nat
  BY SnapshotAssumption
<1> QED BY <1>1 DEF Time, Empty

(* What the loop goes on with leaves the records alone.                      *)
LEMMA NextOfQueueKeeps ==
  ASSUME SnapshotInvariant, nextOfQueue, at \in {"wait", "busy"},
         UNCHANGED <<diskVars, recordVars, processed, thrown, ledgerVars, deaths, refusals>>
  PROVE  SnapshotInvariant'
<1> USE DEF SnapshotInvariant, SnapshotTypes, LoopIsAlive, MemoryIsAccounted, FileIsAccounted,
            accounted, underRecord, diskVars, recordVars, ledgerVars
<1>1. CASE processingQueue = <<>>
  BY <1>1 DEF nextOfQueue, atRest
<1>2. CASE processingQueue # <<>>
  BY <1>2 DEF nextOfQueue, takeFrom
<1> QED BY <1>1, <1>2

(* An exception ends the process or leaves its loop stuck.                   *)
LEMMA ThrowOutKeeps ==
  ASSUME SnapshotInvariant, throwOut, at \in {"stat", "save"},
         UNCHANGED <<diskVars, recordVars, processed, ledgerVars>>
  PROVE  SnapshotInvariant'
BY DEF throwOut, SnapshotInvariant, SnapshotTypes, LoopIsAlive, MemoryIsAccounted, FileIsAccounted,
       accounted, underRecord, diskVars, recordVars, ledgerVars

LEMMA SnapshotInvariantStep == SnapshotInvariant /\ [SnapshotNext]_snapshotVars => SnapshotInvariant'
<1> SUFFICES ASSUME SnapshotInvariant, [SnapshotNext]_snapshotVars
             PROVE  SnapshotInvariant'
  OBVIOUS
<1>0. MaxWrites \in Nat /\ Time = 0..MaxWrites
  BY SnapshotAssumption DEF Time
<1> USE DEF SnapshotInvariant, SnapshotTypes, LoopIsAlive, MemoryIsAccounted, FileIsAccounted,
            accounted, underRecord, diskVars, recordVars, loopVars, ledgerVars
<1>1. ASSUME NEW s \in Snap, NEW complete \in BOOLEAN, WriteSnapshot(s, complete)
      PROVE  SnapshotInvariant'
  <2>1. mtime' \in [Snap -> Time] /\ written' \in Time
    BY <1>0, <1>1 DEF WriteSnapshot
  <2> QED BY <1>1, <2>1 DEF WriteSnapshot
<1>2. ASSUME NEW s \in Snap, RemoveSnapshot(s)
      PROVE  SnapshotInvariant'
  <2>1. mtime' \in [Snap -> Time] /\ written' \in Time
    BY <1>0, <1>2 DEF RemoveSnapshot
  <2> QED BY <1>2, <2>1 DEF RemoveSnapshot
<1>3. CASE start
  <2>1. /\ processed' = (IF readableRecord THEN recordFile ELSE Empty)
        /\ thrown' = FALSE /\ at' \in {"none", "wait"} /\ (at' = "wait" => isProcessing')
        /\ stage' \in {"first", "polling"} /\ isProcessing' \in BOOLEAN
    BY <1>3 DEF start, atRest, takeFrom
  <2>2. UNCHANGED <<diskVars, recordVars, ledgerVars>>
    BY <1>3 DEF start
  <2>3. at = "none"
    BY <1>3 DEF start
  <2>4. processed' \in [Snap -> Time]
    BY <2>1, TimesAreNumbers
  <2>5. (\A s \in Snap : accounted(s, processed[s]))'
    BY <2>1, <2>2, <2>3 DEF Empty
  <2>6. SnapshotTypes'
    BY <2>1, <2>2, <2>4
  <2>7. FileIsAccounted'
    BY <2>1, <2>2, <2>3
  <2>8. LoopIsAlive' /\ MemoryIsAccounted'
    BY <2>1, <2>3, <2>5
  <2> QED BY <2>6, <2>7, <2>8
<1>4. CASE poll
  <2>1. \/ UNCHANGED <<isProcessing, at, inHand, parsed>>
        \/ at' = "wait" /\ isProcessing' = TRUE /\ ~isProcessing
    <3>1. CASE isProcessing
      BY <1>4, <3>1, Zenon DEF poll
    <3>2. CASE ~isProcessing
      <4>1. PICK q : takeFrom(q)
        BY <1>4, <3>2, Zenon DEF poll
      <4> QED BY <3>2, <4>1 DEF takeFrom
    <3> QED BY <3>1, <3>2
  <2>2. UNCHANGED <<diskVars, recordVars, processed, stage, thrown, handed, excused>>
    BY <1>4, Zenon DEF poll
  <2>3. at \in {"none", "wait", "busy"} /\ stage = "polling"
    BY <1>4 DEF poll
  <2> QED BY <2>1, <2>2, <2>3
<1>5. CASE parseSnapshot
  <2>1. CASE inHand \in whole
    BY <1>5, <2>1 DEF parseSnapshot
  <2>2. CASE inHand \notin whole
    BY <1>5, <2>2, NextOfQueueKeeps DEF parseSnapshot
  <2> QED BY <2>1, <2>2
<1>6. CASE recordSnapshot
  <2>1. CASE mtime[inHand] = 0
    BY <1>6, <2>1, ThrowOutKeeps DEF recordSnapshot
  <2>2. CASE mtime[inHand] # 0
    <3>1. inHand \in Snap /\ mtime[inHand] \in Time
      BY <1>6 DEF recordSnapshot
    <3>2. /\ processed' = [processed EXCEPT ![inHand] = mtime[inHand]] /\ at' = "save"
          /\ excused' = IF mtime[inHand] = parsed THEN excused
                        ELSE excused \cup {<<inHand, mtime[inHand]>>}
          /\ UNCHANGED <<diskVars, recordVars, handed, isProcessing, inHand, parsed, thrown, stage>>
      BY <1>6, <2>2 DEF recordSnapshot
    <3> QED BY <1>6, <3>1, <3>2 DEF recordSnapshot
  <2> QED BY <2>1, <2>2
<1>7. CASE saveRecord
  <2>1. CASE throwOut /\ UNCHANGED recordVars
    BY <1>7, <2>1, ThrowOutKeeps DEF saveRecord
  <2>2. CASE recordFile' = processed /\ readableRecord' = TRUE /\ at' = "hand"
             /\ UNCHANGED <<isProcessing, inHand, parsed, thrown, stage>>
    BY <1>7, <2>2 DEF saveRecord
  <2> QED BY <1>7, <2>1, <2>2 DEF saveRecord
<1>8. CASE handOver
  BY <1>8 DEF handOver
<1>9. CASE analysisEnds
  BY <1>9, NextOfQueueKeeps DEF analysisEnds
<1>10. CASE watcherDies
  <2>1. /\ stage' = "down" /\ at' = "none" /\ thrown' = FALSE
        /\ processed' = Empty /\ isProcessing' = FALSE
        /\ UNCHANGED <<diskVars, recordFile, handed>>
        /\ readableRecord' = readableRecord \/ readableRecord' = FALSE
    BY <1>10, Zenon DEF watcherDies, atRest
  <2>2. SnapshotTypes' /\ LoopIsAlive' /\ MemoryIsAccounted'
    BY <2>1, TimesAreNumbers
  <2>3. excused \subseteq excused'
    BY <1>10 DEF watcherDies
  <2>4. FileIsAccounted'
    BY <2>1, <2>3, <1>10 DEF watcherDies
  <2> QED BY <2>2, <2>4
<1>11. CASE UNCHANGED snapshotVars
  BY <1>11 DEF snapshotVars
<1> QED
  BY <1>1, <1>2, <1>3, <1>4, <1>5, <1>6, <1>7, <1>8, <1>9, <1>10, <1>11
     DEF SnapshotNext, loopStep

(* For any number of snapshots, writes, deaths and failed saves, what the    *)
(* state file says was processed was given to the processor, but for what a  *)
(* kill cut off or a write overtook.                                         *)
THEOREM RecordedIsAlwaysHanded == SnapshotSpec => []RecordedIsHanded
<1>1. SnapshotInit => SnapshotInvariant
  <2> SUFFICES ASSUME SnapshotInit PROVE SnapshotInvariant
    OBVIOUS
  <2>1. \A s \in Snap : processed[s] = 0 /\ recordFile[s] = 0
    BY DEF SnapshotInit, Empty
  <2>2. SnapshotTypes
    BY TimesAreNumbers DEF SnapshotInit, SnapshotTypes
  <2> QED
    BY <2>1, <2>2 DEF SnapshotInit, SnapshotInvariant, LoopIsAlive, MemoryIsAccounted,
                      FileIsAccounted, accounted, underRecord
<1>2. SnapshotInvariant => RecordedIsHanded
  BY DEF SnapshotInvariant, SnapshotTypes, FileIsAccounted, accounted, RecordedIsHanded
<1> QED BY <1>1, <1>2, SnapshotInvariantStep, PTL DEF SnapshotSpec

-----------------------------------------------------------------------------
(* The watcher of the Library                                                *)

(* Every set of natural numbers that has an element has a least one.         *)
LEMMA LeastTimeIsThere ==
  ASSUME NEW S \in SUBSET Nat, S # {}
  PROVE  \E n \in S : \A m \in S : n <= m
<1>1. IsWellFoundedOn({p \in Nat \X Nat : p[1] < p[2]}, Nat)
  BY NatLessThanWellFounded, Zenon DEF OpToRel
<1>2. PICK n \in S : \A m \in S : <<m, n>> \notin {p \in Nat \X Nat : p[1] < p[2]}
  BY <1>1, WFMin, Zenon
<1>3. ASSUME NEW m \in S PROVE n <= m
  <2>1. m \in Nat /\ n \in Nat /\ <<m, n>> \notin {p \in Nat \X Nat : p[1] < p[2]}
    BY <1>2
  <2>2. ~(m < n)
    BY <2>1
  <2> QED BY <2>1, <2>2
<1> QED BY <1>3

LibraryTypes ==
  /\ libTime \in [LibSnap -> LibTime] /\ libRecord \in [LibSnap -> LibTime]
  /\ pollState \in [Poll -> [LibSnap -> LibTime]]
  /\ newSnapshots \in [Poll -> SUBSET (LibSnap \X LibTime)]
  /\ libPhase \in [Poll -> {"over", "analyse", "save"}]
  /\ analysed \subseteq LibSnap \X LibTime
  /\ {libIntact, disturbed, intervalOn} \subseteq BOOLEAN

ListedBefore == \A p \in Poll : \A x \in newSnapshots[p] : x[2] <= libTime[x[1]]

wasAnalysed(s, t) == t > 0 => \E a \in analysed : a[1] = s /\ a[2] >= t

RecordsWereAnalysed ==
  \A s \in LibSnap :
    wasAnalysed(s, libRecord[s]) /\ \A p \in underWay : wasAnalysed(s, pollState[p][s])

(* A poll that runs alone knows of all that was analysed, and has yet to     *)
(* analyse what is newer.                                                    *)
KnowsAll(p) ==
  /\ \A a \in analysed : a[2] <= pollState[p][a[1]]
  /\ \A x \in newSnapshots[p] : x[2] > pollState[p][x[1]]
  /\ \A x, y \in newSnapshots[p] : x[1] = y[1] => x = y

NothingTwice ==
  ~disturbed =>
    /\ twice = {} /\ libIntact /\ \A p, q \in underWay : p = q
    /\ underWay = {} => \A a \in analysed : a[2] <= libRecord[a[1]]
    /\ \A p \in underWay : KnowsAll(p)

LibraryInvariant == LibraryTypes /\ ListedBefore /\ RecordsWereAnalysed /\ NothingTwice

LEMMA LibTimes == MaxLibWrites \in Nat /\ LibTime = 0..MaxLibWrites /\ NoRecord \in [LibSnap -> LibTime]
<1>1. MaxLibWrites \in Nat
  BY LibraryAssumption
<1> QED BY <1>1 DEF LibTime, NoRecord

(* No snapshot is newer than the last write.                                 *)
LEMMA LastWrite ==
  ASSUME LibraryTypes
  PROVE  libWrites \in LibTime /\ \A s \in LibSnap : libTime[s] <= libWrites
<1> DEFINE Bounds == {t \in LibTime : \A s \in LibSnap : libTime[s] <= t}
<1>0. MaxLibWrites \in Nat /\ LibTime = 0..MaxLibWrites /\ \A s \in LibSnap : libTime[s] \in LibTime
  BY LibTimes DEF LibraryTypes
<1>1. Bounds \in SUBSET Nat /\ MaxLibWrites \in Bounds
  BY <1>0
<1>2. PICK n \in Bounds : \A m \in Bounds : n <= m
  BY <1>1, LeastTimeIsThere
<1>3. n \in LibTime /\ \A s \in LibSnap : libTime[s] <= n
  OBVIOUS
<1>4. n = 0 \/ \E s \in LibSnap : libTime[s] = n
  <2> SUFFICES ASSUME n # 0, \A s \in LibSnap : libTime[s] # n PROVE FALSE
    OBVIOUS
  <2>1. n - 1 \in LibTime /\ \A s \in LibSnap : libTime[s] <= n - 1
    BY <1>0, <1>3
  <2>2. n - 1 \in Bounds
    BY <2>1
  <2> QED BY <1>0, <1>2, <1>3, <2>2
<1> QED BY <1>3, <1>4, Zenon DEF libWrites

LEMMA LibraryWritesStep ==
  ASSUME LibraryInvariant, NEW s \in LibSnap, LibraryWrites(s)
  PROVE  LibraryInvariant'
<1>1. /\ libWrites < MaxLibWrites /\ libTime' = [libTime EXCEPT ![s] = libWrites + 1]
      /\ UNCHANGED <<libRecord, libIntact, intervalOn, pollState, newSnapshots, libPhase,
                     analysed, twice, disturbed>>
  BY DEF LibraryWrites
<1>2. libWrites \in LibTime /\ \A r \in LibSnap : libTime[r] <= libWrites
  BY LastWrite DEF LibraryInvariant
<1>3. libTime' \in [LibSnap -> LibTime] /\ \A r \in LibSnap : libTime[r] <= libTime'[r]
  BY <1>1, <1>2, LibTimes DEF LibraryInvariant, LibraryTypes
<1>4. LibraryTypes'
  BY <1>1, <1>3 DEF LibraryInvariant, LibraryTypes
<1>5. ListedBefore'
  <2>1. ASSUME NEW p \in Poll, NEW x \in newSnapshots[p] PROVE x[2] <= libTime'[x[1]]
    <3>1. x \in LibSnap \X LibTime /\ x[2] <= libTime[x[1]]
      BY DEF LibraryInvariant, LibraryTypes, ListedBefore
    <3>2. x[1] \in LibSnap /\ libTime[x[1]] <= libTime'[x[1]] /\ x[2] \in LibTime
      BY <1>3, <3>1
    <3>3. libTime[x[1]] \in Nat /\ libTime'[x[1]] \in Nat /\ x[2] \in Nat
      BY <1>3, <3>2, LibTimes DEF LibraryInvariant, LibraryTypes
    <3> QED BY <3>1, <3>2, <3>3
  <2> QED BY <1>1, <2>1 DEF ListedBefore
<1>6. RecordsWereAnalysed' /\ NothingTwice'
  BY <1>1 DEF LibraryInvariant, RecordsWereAnalysed, wasAnalysed, NothingTwice, KnowsAll, underWay
<1> QED BY <1>4, <1>5, <1>6 DEF LibraryInvariant

LEMMA ProcessSnapshotsStep ==
  ASSUME LibraryInvariant, NEW p \in Poll, processSnapshots(p)
  PROVE  LibraryInvariant'
<1> DEFINE new == findNewSnapshots(loadRecord)
<1>0. /\ p \notin underWay /\ UNCHANGED <<libTime, libRecord, libIntact, analysed, twice>>
      /\ LibraryTypes
  BY DEF processSnapshots, LibraryInvariant
<1>1. CASE new = {}
  <2>1. UNCHANGED <<pollState, newSnapshots, libPhase, disturbed>> /\ intervalOn' = TRUE
    BY <1>1 DEF processSnapshots
  <2> QED BY <1>0, <2>1 DEF LibraryInvariant, LibraryTypes, ListedBefore, RecordsWereAnalysed,
                            wasAnalysed, NothingTwice, KnowsAll, underWay
<1>2. CASE new # {}
  <2>1. /\ pollState' = [pollState EXCEPT ![p] = loadRecord]
        /\ newSnapshots' = [newSnapshots EXCEPT ![p] = new]
        /\ libPhase' = [libPhase EXCEPT ![p] = "analyse"]
        /\ disturbed' = (disturbed \/ underWay # {}) /\ UNCHANGED intervalOn
    BY <1>2 DEF processSnapshots
  <2>2. loadRecord \in [LibSnap -> LibTime] /\ new \in SUBSET (LibSnap \X LibTime)
    BY <1>0, LibTimes DEF LibraryTypes, loadRecord, findNewSnapshots
  <2>3. \A x \in new : /\ x[1] \in LibSnap /\ x[2] = libTime[x[1]] /\ loadRecord[x[1]] < x[2]
                       /\ x = <<x[1], libTime[x[1]]>>
    BY DEF findNewSnapshots
  <2> HIDE DEF new
  <2>4. LibraryTypes'
    BY <1>0, <2>1, <2>2 DEF LibraryTypes
  <2>5. /\ pollState'[p] = loadRecord /\ newSnapshots'[p] = new
        /\ \A q \in Poll \ {p} : pollState'[q] = pollState[q] /\ newSnapshots'[q] = newSnapshots[q]
        /\ underWay' = underWay \cup {p}
    BY <1>0, <2>1 DEF LibraryTypes, underWay
  <2>6. ListedBefore'
    <3>1. \A x \in new : x[2] <= libTime[x[1]]
      BY <1>0, <2>2, <2>3, LibTimes DEF LibraryTypes
    <3> QED BY <1>0, <2>5, <3>1 DEF LibraryInvariant, ListedBefore
  <2>7. \A s \in LibSnap : wasAnalysed(s, loadRecord[s])
    BY LibTimes DEF LibraryInvariant, RecordsWereAnalysed, loadRecord, wasAnalysed, NoRecord
  <2>8. RecordsWereAnalysed'
    <3>2. ASSUME NEW s \in LibSnap PROVE wasAnalysed(s, libRecord[s])'
      BY <1>0 DEF LibraryInvariant, RecordsWereAnalysed, wasAnalysed
    <3>3. ASSUME NEW s \in LibSnap PROVE wasAnalysed(s, pollState[p][s])'
      BY <1>0, <2>5, <2>7 DEF wasAnalysed
    <3>4. ASSUME NEW s \in LibSnap, NEW q \in underWay', q # p
          PROVE  wasAnalysed(s, pollState[q][s])'
      <4>1. q \in underWay /\ q \in Poll /\ pollState'[q] = pollState[q]
        BY <2>5, <3>4 DEF underWay
      <4>2. wasAnalysed(s, pollState[q][s])
        BY <4>1 DEF LibraryInvariant, RecordsWereAnalysed
      <4> QED BY <1>0, <4>1, <4>2 DEF wasAnalysed
    <3> QED BY <3>2, <3>3, <3>4 DEF RecordsWereAnalysed
  <2>9. ASSUME ~disturbed' PROVE twice' = {} /\ libIntact' /\ underWay' = {p} /\ KnowsAll(p)'
    <3>1. ~disturbed /\ underWay = {} /\ twice = {} /\ libIntact
          /\ \A a \in analysed : a[2] <= libRecord[a[1]]
      BY <2>1, <2>9 DEF LibraryInvariant, NothingTwice
    <3>2. loadRecord = libRecord
      BY <3>1 DEF loadRecord
    <3>3. \A x, y \in new : x[1] = y[1] => x = y
      BY <2>3
    <3> QED BY <1>0, <2>2, <2>3, <2>5, <3>1, <3>2, <3>3 DEF KnowsAll
  <2>10. NothingTwice'
    BY <2>9 DEF NothingTwice
  <2> QED BY <2>4, <2>6, <2>8, <2>10 DEF LibraryInvariant
<1> QED BY <1>1, <1>2

(* The analyzer is run on what the poll has listed as it is now, which is    *)
(* that or a later write.                                                    *)
LEMMA RunAnalyzerStep ==
  ASSUME LibraryInvariant, NEW p \in Poll, NEW x \in newSnapshots[p], runAnalyzer(p, x)
  PROVE  LibraryInvariant'
<1> DEFINE now == <<x[1], libTime[x[1]]>>
<1>1. /\ libPhase[p] = "analyse" /\ isNext(p, x) /\ advance(p, x)
      /\ UNCHANGED <<libTime, libRecord, libIntact, intervalOn>>
      /\ LibraryTypes /\ ListedBefore /\ RecordsWereAnalysed /\ NothingTwice
  BY DEF runAnalyzer, LibraryInvariant
<1>2. /\ x \in LibSnap \X LibTime /\ x[1] \in LibSnap /\ x[2] \in LibTime /\ now \in LibSnap \X LibTime
      /\ x[2] <= libTime[x[1]]
  BY <1>1 DEF LibraryTypes, ListedBefore
<1>3. \/ /\ analysed' = analysed \cup {now} /\ twice' = twice \cup ({now} \cap analysed)
         /\ pollState' = [pollState EXCEPT ![p][x[1]] = x[2]]
         /\ disturbed' = (disturbed \/ now # x)
      \/ /\ disturbed' = TRUE /\ UNCHANGED <<pollState, analysed, twice>>
  BY Zenon DEF runAnalyzer
<1>4. /\ newSnapshots'[p] = newSnapshots[p] \ {x}
      /\ \A q \in Poll \ {p} : newSnapshots'[q] = newSnapshots[q]
      /\ newSnapshots' \in [Poll -> SUBSET (LibSnap \X LibTime)]
  BY <1>1 DEF advance, LibraryTypes
<1>5. libPhase' \in [Poll -> {"over", "analyse", "save"}] /\ underWay' = underWay /\ p \in underWay
  <2>1. /\ libPhase \in [Poll -> {"over", "analyse", "save"}]
        /\ libPhase' = [libPhase EXCEPT ![p] = IF newSnapshots[p] = {x} THEN "save" ELSE "analyse"]
    BY <1>1 DEF advance, LibraryTypes
  <2>2. libPhase'[p] \in {"save", "analyse"} /\ \A q \in Poll \ {p} : libPhase'[q] = libPhase[q]
    BY <2>1
  <2> QED BY <1>1, <2>1, <2>2 DEF underWay
<1>6. ListedBefore'
  BY <1>1, <1>4 DEF ListedBefore
<1>7. CASE disturbed' = TRUE /\ UNCHANGED <<pollState, analysed, twice>>
  <2>1. LibraryTypes'
    BY <1>1, <1>4, <1>5, <1>7 DEF LibraryTypes
  <2>2. RecordsWereAnalysed'
    BY <1>1, <1>5, <1>7 DEF RecordsWereAnalysed, wasAnalysed
  <2>3. NothingTwice'
    BY <1>7 DEF NothingTwice
  <2> QED BY <1>6, <2>1, <2>2, <2>3 DEF LibraryInvariant
<1>8. CASE /\ analysed' = analysed \cup {now} /\ twice' = twice \cup ({now} \cap analysed)
           /\ pollState' = [pollState EXCEPT ![p][x[1]] = x[2]]
           /\ disturbed' = (disturbed \/ now # x)
  <2>1. /\ pollState' \in [Poll -> [LibSnap -> LibTime]] /\ pollState'[p][x[1]] = x[2]
        /\ \A s \in LibSnap \ {x[1]} : pollState'[p][s] = pollState[p][s]
        /\ \A q \in Poll \ {p} : pollState'[q] = pollState[q]
    BY <1>1, <1>2, <1>8 DEF LibraryTypes
  <2>2. LibraryTypes'
    BY <1>1, <1>2, <1>4, <1>5, <1>8, <2>1 DEF LibraryTypes
  <2>3. RecordsWereAnalysed'
    <3>1. ASSUME NEW s \in LibSnap PROVE wasAnalysed(s, libRecord[s])'
      BY <1>1, <1>8 DEF RecordsWereAnalysed, wasAnalysed
    <3>2. ASSUME NEW s \in LibSnap, NEW q \in underWay, pollState'[q][s] = pollState[q][s]
          PROVE  wasAnalysed(s, pollState[q][s])'
      BY <1>1, <1>8, <3>2 DEF RecordsWereAnalysed, wasAnalysed
    <3>3. wasAnalysed(x[1], pollState[p][x[1]])'
      <4>1. now \in analysed' /\ now[1] = x[1] /\ now[2] >= x[2]
        BY <1>2, <1>8, LibTimes
      <4> HIDE DEF now
      <4> QED BY <1>2, <2>1, <4>1 DEF wasAnalysed
    <3>4. ASSUME NEW s \in LibSnap, NEW q \in underWay, pollState'[q][s] # pollState[q][s]
          PROVE  q = p /\ s = x[1]
      BY <2>1, <3>4 DEF underWay
    <3>5. ASSUME NEW s \in LibSnap, NEW q \in underWay PROVE wasAnalysed(s, pollState[q][s])'
      BY <3>2, <3>3, <3>4
    <3> QED BY <1>5, <3>1, <3>5 DEF RecordsWereAnalysed
  <2>4. ASSUME ~disturbed' PROVE /\ twice' = {} /\ libIntact' /\ \A q, r \in underWay : q = r
                                 /\ \A q \in underWay : q = p
                                 /\ KnowsAll(p)'
    <3>1. /\ ~disturbed /\ now = x /\ twice = {} /\ libIntact /\ \A q, r \in underWay : q = r
          /\ \A q \in underWay : q = p
          /\ KnowsAll(p)
      BY <1>1, <1>5, <1>8, <2>4 DEF NothingTwice
    <3>2. pollState[p] \in [LibSnap -> LibTime] /\ \A a \in analysed : a \in LibSnap \X LibTime
      BY <1>1 DEF LibraryTypes
    <3>3. x[2] > pollState[p][x[1]]
      BY <3>1 DEF KnowsAll
    <3>4. x \notin analysed
      BY <1>2, <3>1, <3>2, <3>3, LibTimes DEF KnowsAll
    <3>5. \A a \in analysed' : a[2] <= pollState'[p][a[1]]
      <4>1. ASSUME NEW a \in analysed PROVE a[2] <= pollState'[p][a[1]]
        <5>1. a[2] <= pollState[p][a[1]] /\ a[1] \in LibSnap /\ a[2] \in LibTime
          BY <3>1, <3>2 DEF KnowsAll
        <5>2. CASE a[1] = x[1]
          <6>1. pollState'[p][a[1]] = x[2] /\ pollState[p][a[1]] < x[2] /\ pollState[p][a[1]] \in LibTime
            BY <2>1, <3>2, <3>3, <5>1, <5>2
          <6> QED BY <1>2, <5>1, <6>1, LibTimes
        <5>3. CASE a[1] # x[1]
          BY <2>1, <5>1, <5>3
        <5> QED BY <5>2, <5>3
      <4>2. x[2] <= pollState'[p][x[1]]
        BY <1>2, <2>1, LibTimes
      <4> QED BY <1>8, <3>1, <4>1, <4>2
    <3>6. ASSUME NEW y \in newSnapshots'[p] PROVE y[2] > pollState'[p][y[1]]
      <4>1. y \in newSnapshots[p] /\ y # x /\ y \in LibSnap \X LibTime
        BY <1>1, <1>4 DEF LibraryTypes
      <4>2. y[1] # x[1] /\ y[2] > pollState[p][y[1]] /\ y[1] \in LibSnap
        BY <3>1, <4>1 DEF KnowsAll
      <4> QED BY <2>1, <4>2
    <3>7. \A y, z \in newSnapshots'[p] : y[1] = z[1] => y = z
      BY <1>4, <3>1 DEF KnowsAll
    <3>8. KnowsAll(p)'
      BY <3>5, <3>6, <3>7 DEF KnowsAll
    <3>9. twice' = {}
      BY <1>8, <3>1, <3>4
    <3> QED BY <1>1, <3>1, <3>8, <3>9
  <2>5. NothingTwice'
    BY <1>5, <2>4 DEF NothingTwice
  <2> QED BY <1>6, <2>2, <2>3, <2>5 DEF LibraryInvariant
<1> QED BY <1>3, <1>7, <1>8

LEMMA SavePollStep ==
  ASSUME LibraryInvariant, NEW p \in Poll, savePoll(p)
  PROVE  LibraryInvariant'
<1>1. /\ libPhase[p] = "save" /\ libRecord' = pollState[p] /\ libIntact' = TRUE /\ intervalOn' = TRUE
      /\ libPhase' = [libPhase EXCEPT ![p] = "over"]
      /\ UNCHANGED <<libTime, pollState, newSnapshots, analysed, twice, disturbed>>
      /\ LibraryTypes /\ ListedBefore /\ RecordsWereAnalysed /\ NothingTwice
  BY DEF savePoll, LibraryInvariant
<1>2. underWay' = underWay \ {p} /\ p \in underWay
  BY <1>1 DEF LibraryTypes, underWay
<1>3. LibraryTypes' /\ ListedBefore'
  BY <1>1 DEF LibraryTypes, ListedBefore
<1>4. RecordsWereAnalysed'
  BY <1>1, <1>2 DEF RecordsWereAnalysed, wasAnalysed
<1>5. NothingTwice'
  <2>1. ASSUME ~disturbed PROVE underWay' = {} /\ twice = {} /\ KnowsAll(p)
    BY <1>1, <1>2, <2>1 DEF NothingTwice
  <2>2. ASSUME ~disturbed PROVE \A a \in analysed : a[2] <= pollState[p][a[1]]
    BY <2>1, <2>2 DEF KnowsAll
  <2> QED BY <1>1, <2>1, <2>2 DEF NothingTwice
<1> QED BY <1>3, <1>4, <1>5 DEF LibraryInvariant

LEMMA LibraryDiesStep ==
  ASSUME LibraryInvariant, libraryDies
  PROVE  LibraryInvariant'
<1>1. /\ newSnapshots' = [p \in Poll |-> {}] /\ libPhase' = [p \in Poll |-> "over"]
      /\ disturbed' = (disturbed \/ underWay # {}) /\ intervalOn' = FALSE
      /\ UNCHANGED libIntact \/ ("save" \in {libPhase[p] : p \in Poll} /\ libIntact' = FALSE)
      /\ UNCHANGED <<libTime, libRecord, pollState, analysed, twice>>
      /\ LibraryTypes /\ ListedBefore /\ RecordsWereAnalysed /\ NothingTwice
  BY DEF libraryDies, LibraryInvariant
<1>2. underWay' = {}
  BY <1>1 DEF underWay
<1>3. LibraryTypes' /\ ListedBefore'
  <2>1. /\ newSnapshots' \in [Poll -> SUBSET (LibSnap \X LibTime)]
        /\ libPhase' \in [Poll -> {"over", "analyse", "save"}]
        /\ libIntact' \in BOOLEAN /\ disturbed' \in BOOLEAN /\ intervalOn' \in BOOLEAN
    BY <1>1 DEF LibraryTypes
  <2> QED BY <1>1, <2>1 DEF LibraryTypes, ListedBefore
<1>4. RecordsWereAnalysed'
  BY <1>1, <1>2 DEF RecordsWereAnalysed, wasAnalysed
<1>5. ASSUME ~disturbed'
      PROVE  twice' = {} /\ libIntact' /\ \A a \in analysed' : a[2] <= libRecord'[a[1]]
  <2>1. ~disturbed /\ underWay = {}
    BY <1>1, <1>5
  <2>2. \A p \in Poll : libPhase[p] # "save"
    BY <2>1 DEF underWay
  <2>3. UNCHANGED libIntact
    BY <1>1, <2>2
  <2> QED BY <1>1, <2>1, <2>3 DEF NothingTwice
<1>6. NothingTwice'
  BY <1>2, <1>5 DEF NothingTwice
<1> QED BY <1>3, <1>4, <1>6 DEF LibraryInvariant

LEMMA LibraryInvariantIsInductive == LibrarySpec => []LibraryInvariant
<1>1. LibraryInit => LibraryInvariant
  <2> SUFFICES ASSUME LibraryInit PROVE LibraryInvariant
    OBVIOUS
  <2>1. /\ libTime = NoRecord /\ libRecord = NoRecord /\ libIntact = TRUE /\ intervalOn = FALSE
        /\ pollState = [p \in Poll |-> NoRecord] /\ newSnapshots = [p \in Poll |-> {}]
        /\ libPhase = [p \in Poll |-> "over"] /\ analysed = {} /\ twice = {} /\ disturbed = FALSE
    BY DEF LibraryInit
  <2>2. LibraryTypes
    BY <2>1, LibTimes DEF LibraryTypes
  <2>3. underWay = {}
    BY <2>1 DEF underWay
  <2>4. \A s \in LibSnap : libRecord[s] = 0
    BY <2>1 DEF NoRecord
  <2> QED BY <2>1, <2>2, <2>3, <2>4 DEF LibraryInvariant, ListedBefore, RecordsWereAnalysed,
                                        wasAnalysed, NothingTwice
<1>2. LibraryInvariant /\ [LibraryNext]_libVars => LibraryInvariant'
  <2> SUFFICES ASSUME LibraryInvariant, [LibraryNext]_libVars PROVE LibraryInvariant'
    OBVIOUS
  <2>1. ASSUME NEW p \in Poll, pollStep(p) PROVE LibraryInvariant'
    BY <2>1, ProcessSnapshotsStep, RunAnalyzerStep, SavePollStep DEF pollStep
  <2>2. CASE UNCHANGED libVars
    BY <2>2 DEF libVars, LibraryInvariant, LibraryTypes, ListedBefore, RecordsWereAnalysed,
                wasAnalysed, NothingTwice, KnowsAll, underWay
  <2> QED BY <2>1, <2>2, LibraryWritesStep, LibraryDiesStep DEF LibraryNext
<1> QED BY <1>1, <1>2, PTL DEF LibrarySpec

LEMMA RecordedWasAnalysedAlways == LibrarySpec => []RecordedWasAnalysed
<1>1. LibraryInvariant => RecordedWasAnalysed
  BY DEF LibraryInvariant, RecordsWereAnalysed, wasAnalysed, NothingTwice, RecordedWasAnalysed
<1> QED BY <1>1, LibraryInvariantIsInductive, PTL

-----------------------------------------------------------------------------
(* The watcher of the graph snapshots gives nothing to the processor twice   *)

(* No name is in the queue q twice, but for those in A.                      *)
OnceIn(q, A) == \A i, j \in 1..Len(q) : q[i] = q[j] => i = j \/ q[i] \in A

isFresh(s) == mtime[s] > 0 => processed[s] < mtime[s]

LoopTypes ==
  /\ processingQueue \in Seq(Snap) /\ parsed \in Time /\ handed \subseteq Snap \X Time
  /\ at \in {"none", "wait", "stat", "save", "hand", "busy"}
  /\ at # "none" => inHand \in Snap /\ stage # "down" /\ isProcessing
  /\ at = "none" => inHand = NoSnap
  /\ stage = "down" \/ ~isProcessing => processingQueue = <<>> /\ at = "none"

TimesGrow ==
  /\ \A s \in Snap : /\ mtime[s] <= written /\ processed[s] <= written /\ recordFile[s] <= written
                     /\ mtime[s] > 0 => mtime[s] >= processed[s] /\ mtime[s] >= recordFile[s]
                     /\ s \in whole => mtime[s] > 0
  /\ parsed <= written

(* As long as no state file was cut off, it has what was handed over, and    *)
(* the process knows it.                                                     *)
HandedIsRecorded ==
  ~cutOff =>
    /\ readableRecord /\ \A p \in repeated : p[1] \in queuedAgain
    /\ \A p \in handed : p[2] <= recordFile[p[1]]
    /\ stage # "down" => \A s \in Snap : recordFile[s] <= processed[s]

(* What waits is newer than its record, unless it was queued again.          *)
QueueIsFresh ==
  /\ OnceIn(processingQueue, queuedAgain)
  /\ \A i \in 1..Len(processingQueue) :
       /\ processingQueue[i] = inHand => inHand \in queuedAgain
       /\ processingQueue[i] \notin queuedAgain => isFresh(processingQueue[i])
  /\ at = "wait" /\ inHand \notin queuedAgain => isFresh(inHand)

InHandIsNew ==
  /\ at \in {"stat", "save", "hand"} /\ ~cutOff /\ inHand \notin queuedAgain
       => <<inHand, parsed>> \notin handed
  /\ at = "stat" /\ mtime[inHand] > 0 => mtime[inHand] >= parsed
  /\ at = "save" => processed[inHand] >= parsed
  /\ at = "hand" => recordFile[inHand] >= parsed

RepeatInvariant ==
  SnapshotTypes /\ LoopTypes /\ TimesGrow /\ HandedIsRecorded /\ QueueIsFresh /\ InHandIsNew

LEMMA SnapshotNumbers ==
  ASSUME SnapshotTypes, LoopTypes
  PROVE  /\ \A s \in Snap : mtime[s] \in Nat /\ processed[s] \in Nat /\ recordFile[s] \in Nat
         /\ written \in Nat /\ parsed \in Nat
         /\ \A p \in handed : p[1] \in Snap /\ p[2] \in Nat
BY TimesAreNumbers DEF SnapshotTypes, LoopTypes

LEMMA TakenFromQueue ==
  ASSUME NEW q \in Seq(Snap), q # <<>>, NEW A
  PROVE  /\ Head(q) \in Snap /\ Head(q) = q[1] /\ 1 \in 1..Len(q) /\ Tail(q) \in Seq(Snap)
         /\ \A i \in 1..Len(Tail(q)) : i + 1 \in 1..Len(q) /\ Tail(q)[i] = q[i + 1]
         /\ OnceIn(q, A) => OnceIn(Tail(q), A)
         /\ OnceIn(q, A) => \A i \in 1..Len(Tail(q)) : Tail(q)[i] = Head(q) => Head(q) \in A
<1>1. /\ Head(q) \in Snap /\ Head(q) = q[1] /\ Tail(q) \in Seq(Snap) /\ Len(q) \in Nat /\ Len(q) > 0
      /\ Len(Tail(q)) = Len(q) - 1
  BY HeadTailProperties
<1>2. \A i \in 1..Len(Tail(q)) : i + 1 \in 1..Len(q) /\ Tail(q)[i] = q[i + 1]
  BY <1>1, HeadTailProperties
<1>3. ASSUME OnceIn(q, A) PROVE OnceIn(Tail(q), A)
  <2>1. ASSUME NEW i \in 1..Len(Tail(q)), NEW j \in 1..Len(Tail(q)), Tail(q)[i] = Tail(q)[j]
        PROVE  i = j \/ Tail(q)[i] \in A
    <3>1. i + 1 = j + 1 \/ q[i + 1] \in A
      BY <1>2, <1>3, <2>1 DEF OnceIn
    <3> QED BY <1>2, <3>1
  <2> QED BY <2>1 DEF OnceIn
<1>4. ASSUME OnceIn(q, A), NEW i \in 1..Len(Tail(q)), Tail(q)[i] = Head(q) PROVE Head(q) \in A
  <2>1. i + 1 \in 1..Len(q) /\ 1 \in 1..Len(q) /\ q[i + 1] = q[1] /\ i + 1 # 1
    BY <1>1, <1>2, <1>4
  <2> QED BY <1>1, <1>4, <2>1 DEF OnceIn
<1> QED BY <1>1, <1>2, <1>3, <1>4

LEMMA AddedToQueue ==
  ASSUME NEW q \in Seq(Snap), NEW new \in Seq(Snap), NEW A, NEW B,
         OnceIn(q, A), OnceIn(new, {}), A \subseteq B,
         \A i \in 1..Len(q), j \in 1..Len(new) : q[i] = new[j] => new[j] \in B
  PROVE  /\ q \o new \in Seq(Snap) /\ OnceIn(q \o new, B)
         /\ \A i \in 1..Len(q \o new) : \/ \E j \in 1..Len(q) : (q \o new)[i] = q[j]
                                        \/ \E j \in 1..Len(new) : (q \o new)[i] = new[j]
<1>1. /\ q \o new \in Seq(Snap) /\ Len(q \o new) = Len(q) + Len(new)
      /\ Len(q) \in Nat /\ Len(new) \in Nat
  OBVIOUS
<1>2. ASSUME NEW i \in 1..Len(q \o new)
      PROVE  \/ i \in 1..Len(q) /\ (q \o new)[i] = q[i]
             \/ i - Len(q) \in 1..Len(new) /\ (q \o new)[i] = new[i - Len(q)]
  BY <1>1, ConcatProperties
<1>3. ASSUME NEW i \in 1..Len(q \o new), NEW j \in 1..Len(q \o new),
             (q \o new)[i] = (q \o new)[j]
      PROVE  i = j \/ (q \o new)[i] \in B
  <2>1. CASE /\ i \in 1..Len(q) /\ (q \o new)[i] = q[i]
             /\ j \in 1..Len(q) /\ (q \o new)[j] = q[j]
    BY <1>3, <2>1 DEF OnceIn
  <2>2. CASE /\ i - Len(q) \in 1..Len(new) /\ (q \o new)[i] = new[i - Len(q)]
             /\ j - Len(q) \in 1..Len(new) /\ (q \o new)[j] = new[j - Len(q)]
    <3>1. i - Len(q) = j - Len(q)
      BY <1>3, <2>2 DEF OnceIn
    <3> QED BY <1>1, <3>1
  <2>3. CASE /\ i \in 1..Len(q) /\ (q \o new)[i] = q[i]
             /\ j - Len(q) \in 1..Len(new) /\ (q \o new)[j] = new[j - Len(q)]
    BY <1>3, <2>3
  <2>4. CASE /\ i - Len(q) \in 1..Len(new) /\ (q \o new)[i] = new[i - Len(q)]
             /\ j \in 1..Len(q) /\ (q \o new)[j] = q[j]
    BY <1>3, <2>4
  <2> QED BY <1>2, <2>1, <2>2, <2>3, <2>4
<1> QED BY <1>1, <1>2, <1>3 DEF OnceIn

(* What is found to be new is named once, and is newer than the record.      *)
LEMMA NewOnes ==
  ASSUME \A s \in Snap : mtime[s] \in Nat, NEW record, NEW new \in getNewSnapshots(record)
  PROVE  /\ new \in Seq(Snap) /\ OnceIn(new, {})
         /\ \A i \in 1..Len(new) : record[new[i]] < mtime[new[i]]
<1> DEFINE N == {s \in Snap : record[s] < mtime[s]}
<1>1. Cardinality(N) \in Nat
  BY SnapshotAssumption, FS_Subset, FS_CardinalityType
<1>2. /\ new \in [1..Cardinality(N) -> N]
      /\ \A i, j \in DOMAIN new : i < j => mtime[new[i]] > mtime[new[j]]
  BY DEF getNewSnapshots
<1>3. new \in Seq(Snap) /\ Len(new) = Cardinality(N) /\ \A i \in 1..Len(new) : new[i] \in N
  <2> DEFINE n == Cardinality(N)
  <2> HIDE DEF n, N
  <2>1. n \in Nat /\ new \in [1..n -> N]
    BY <1>1, <1>2 DEF n
  <2>2. new \in Seq(N)
    BY <2>1
  <2>3. Len(new) = n /\ \A i \in 1..Len(new) : new[i] \in N
    BY <2>1, <2>2
  <2>4. N \subseteq Snap
    BY DEF N
  <2>5. new \in Seq(Snap)
    BY <2>1, <2>4
  <2> QED BY <2>3, <2>5 DEF n
<1>4. OnceIn(new, {})
  <2>1. ASSUME NEW i \in 1..Len(new), NEW j \in 1..Len(new), new[i] = new[j], i # j PROVE FALSE
    <3>1. i \in DOMAIN new /\ j \in DOMAIN new /\ (i < j \/ j < i) /\ mtime[new[i]] \in Nat
      BY <1>1, <1>2, <1>3, <2>1
    <3> QED BY <1>2, <2>1, <3>1
  <2> QED BY <2>1 DEF OnceIn
<1> QED BY <1>3, <1>4

LEMMA TakeFromQueue ==
  ASSUME NEW q \in Seq(Snap), q # <<>>, takeFrom(q), OnceIn(q, queuedAgain'),
         \A i \in 1..Len(q) : q[i] \notin queuedAgain' => isFresh(q[i])'
  PROVE  /\ QueueIsFresh' /\ InHandIsNew'
         /\ processingQueue' \in Seq(Snap) /\ inHand' \in Snap /\ at' = "wait"
         /\ isProcessing' = TRUE /\ parsed' = 0
<1>1. /\ processingQueue' = Tail(q) /\ inHand' = Head(q) /\ at' = "wait" /\ isProcessing' = TRUE
      /\ parsed' = 0
  BY DEF takeFrom
<1> PICK A : A = queuedAgain'
  OBVIOUS
<1>2. /\ Head(q) \in Snap /\ Head(q) = q[1] /\ 1 \in 1..Len(q) /\ Tail(q) \in Seq(Snap)
      /\ \A i \in 1..Len(Tail(q)) : i + 1 \in 1..Len(q) /\ Tail(q)[i] = q[i + 1]
      /\ OnceIn(Tail(q), A)
      /\ \A i \in 1..Len(Tail(q)) : Tail(q)[i] = Head(q) => Head(q) \in A
  BY TakenFromQueue
<1>3. Head(q) \notin A => isFresh(Head(q))'
  BY <1>2
<1>4. ASSUME NEW i \in 1..Len(Tail(q)), Tail(q)[i] \notin A PROVE isFresh(Tail(q)[i])'
  BY <1>2, <1>4
<1>5. QueueIsFresh'
  BY <1>1, <1>2, <1>3, <1>4 DEF QueueIsFresh
<1> QED BY <1>1, <1>2, <1>5 DEF InHandIsNew

(* A loop at its end leaves nothing behind.                                  *)
LEMMA AtRestIsFresh ==
  ASSUME atRest
  PROVE  /\ QueueIsFresh' /\ InHandIsNew' /\ processingQueue' = <<>> /\ at' = "none"
         /\ inHand' = NoSnap /\ parsed' = 0 /\ isProcessing' = FALSE
BY DEF atRest, QueueIsFresh, InHandIsNew, OnceIn

(* What a step does that only moves the loop.                                *)
LEMMA NextOfQueueRepeats ==
  ASSUME RepeatInvariant, nextOfQueue, at \in {"wait", "busy"},
         UNCHANGED <<diskVars, recordVars, processed, thrown, ledgerVars>>
  PROVE  RepeatInvariant'
<1>0. /\ UNCHANGED <<mtime, whole, written, recordFile, readableRecord, cutOff, processed, thrown,
                     handed, repeated, queuedAgain, excused>>
      /\ stage # "down" /\ inHand \in Snap /\ written \in Nat
  BY SnapshotNumbers DEF diskVars, recordVars, ledgerVars, RepeatInvariant, LoopTypes
<1>1. /\ QueueIsFresh' /\ InHandIsNew' /\ LoopTypes' /\ parsed' = 0
      /\ stage' \in {"first", "polling"} /\ isProcessing' \in BOOLEAN
  <2>1. CASE processingQueue = <<>>
    <3>1. atRest /\ stage' = "polling"
      BY <2>1 DEF nextOfQueue
    <3> QED BY <1>0, <3>1, AtRestIsFresh, TimesAreNumbers DEF LoopTypes, RepeatInvariant
  <2>2. CASE processingQueue # <<>>
    <3>1. takeFrom(processingQueue) /\ stage' = stage
      BY <2>2 DEF nextOfQueue
    <3>2. PICK q : q = processingQueue
      OBVIOUS
    <3>3. /\ q \in Seq(Snap) /\ q # <<>> /\ takeFrom(q) /\ OnceIn(q, queuedAgain')
          /\ \A i \in 1..Len(q) : q[i] \notin queuedAgain' => isFresh(q[i])
      BY <1>0, <2>2, <3>1, <3>2 DEF RepeatInvariant, LoopTypes, QueueIsFresh
    <3>4. \A i \in 1..Len(q) : q[i] \notin queuedAgain' => isFresh(q[i])'
      BY <1>0, <3>3 DEF isFresh
    <3>5. /\ QueueIsFresh' /\ InHandIsNew' /\ processingQueue' \in Seq(Snap) /\ inHand' \in Snap
          /\ at' = "wait" /\ isProcessing' = TRUE /\ parsed' = 0
      BY <3>3, <3>4, TakeFromQueue
    <3> QED BY <1>0, <3>1, <3>5, TimesAreNumbers DEF LoopTypes, RepeatInvariant, SnapshotTypes
  <2> QED BY <2>1, <2>2
<1>2. SnapshotTypes'
  BY <1>0, <1>1 DEF RepeatInvariant, SnapshotTypes
<1>3. TimesGrow'
  BY <1>0, <1>1 DEF RepeatInvariant, TimesGrow
<1>4. HandedIsRecorded'
  BY <1>0, <1>1 DEF RepeatInvariant, HandedIsRecorded
<1> QED BY <1>1, <1>2, <1>3, <1>4 DEF RepeatInvariant

LEMMA ThrowOutRepeats ==
  ASSUME RepeatInvariant, throwOut, at \in {"stat", "save"},
         UNCHANGED <<diskVars, recordVars, processed, ledgerVars>>
  PROVE  RepeatInvariant'
<1>0. /\ UNCHANGED <<mtime, whole, written, recordFile, readableRecord, cutOff, processed,
                     handed, repeated, queuedAgain, excused>>
      /\ stage # "down" /\ written \in Nat /\ processingQueue \in Seq(Snap)
  BY SnapshotNumbers DEF diskVars, recordVars, ledgerVars, RepeatInvariant, LoopTypes
<1>1. /\ thrown' = TRUE /\ at' = "none" /\ inHand' = NoSnap /\ parsed' = 0
      /\ \/ stage' = "down" /\ isProcessing' = FALSE /\ processingQueue' = <<>>
         \/ UNCHANGED <<stage, isProcessing, processingQueue>>
  BY DEF throwOut
<1>2. LoopTypes' /\ SnapshotTypes'
  <2>1. SnapshotTypes'
    BY <1>0, <1>1 DEF RepeatInvariant, SnapshotTypes
  <2>2. /\ processingQueue' \in Seq(Snap)
        /\ stage' = "down" \/ ~isProcessing' => processingQueue' = <<>>
    <3>1. isProcessing
      BY Zenon DEF RepeatInvariant, LoopTypes
    <3>2. CASE stage' = "down" /\ isProcessing' = FALSE /\ processingQueue' = <<>>
      BY <3>2
    <3>3. CASE UNCHANGED <<stage, isProcessing, processingQueue>>
      BY <1>0, <3>1, <3>3
    <3> QED BY <1>1, <3>2, <3>3
  <2>3. LoopTypes'
    BY <1>0, <1>1, <2>2, TimesAreNumbers DEF RepeatInvariant, LoopTypes
  <2> QED BY <2>1, <2>3
<1>3. TimesGrow' /\ HandedIsRecorded' /\ InHandIsNew'
  BY <1>0, <1>1 DEF RepeatInvariant, TimesGrow, HandedIsRecorded, InHandIsNew
<1>4. QueueIsFresh'
  <2>1. CASE processingQueue' = <<>>
    BY <1>1, <2>1 DEF QueueIsFresh, OnceIn
  <2>2. CASE UNCHANGED processingQueue
    <3>1. \A i \in 1..Len(processingQueue) : processingQueue[i] # NoSnap
      BY <1>0, SnapshotAssumption
    <3> QED BY <1>0, <1>1, <2>2, <3>1 DEF RepeatInvariant, QueueIsFresh, OnceIn, isFresh
  <2> QED BY <1>1, <2>1, <2>2
<1> QED BY <1>2, <1>3, <1>4 DEF RepeatInvariant

LEMMA WriteSnapshotRepeats ==
  ASSUME RepeatInvariant, NEW s \in Snap, NEW complete \in BOOLEAN, WriteSnapshot(s, complete)
  PROVE  RepeatInvariant'
<1>0. /\ UNCHANGED <<recordFile, readableRecord, cutOff, processed, stage, processingQueue,
                     isProcessing, at, inHand, parsed, thrown, handed, repeated, queuedAgain>>
      /\ written < MaxWrites /\ written' = written + 1
      /\ mtime' = [mtime EXCEPT ![s] = written + 1] /\ whole' \subseteq whole \cup {s}
      /\ SnapshotTypes /\ LoopTypes /\ TimesGrow
  BY DEF WriteSnapshot, recordVars, loopVars, ledgerVars, RepeatInvariant
<1>1. /\ MaxWrites \in Nat /\ Time = 0..MaxWrites /\ written \in Nat /\ parsed \in Nat
      /\ \A r \in Snap : mtime[r] \in Nat /\ processed[r] \in Nat /\ recordFile[r] \in Nat
  BY <1>0, SnapshotNumbers, SnapshotAssumption DEF Time
<1>2. mtime' \in [Snap -> Time] /\ mtime'[s] = written + 1 /\ \A r \in Snap \ {s} : mtime'[r] = mtime[r]
  BY <1>0, <1>1 DEF SnapshotTypes
<1>3. SnapshotTypes' /\ LoopTypes'
  BY <1>0, <1>1, <1>2 DEF SnapshotTypes, LoopTypes
<1>4. TimesGrow'
  BY <1>0, <1>1, <1>2 DEF TimesGrow
<1>5. HandedIsRecorded'
  BY <1>0 DEF RepeatInvariant, HandedIsRecorded
<1>6. ASSUME NEW r \in Snap, isFresh(r) PROVE isFresh(r)'
  BY <1>0, <1>1, <1>2, <1>6 DEF isFresh, TimesGrow
<1>7. QueueIsFresh'
  <2>1. \A i \in 1..Len(processingQueue) : processingQueue[i] \in Snap
    BY <1>0 DEF LoopTypes
  <2>2. at = "wait" => inHand \in Snap
    BY <1>0 DEF LoopTypes
  <2> QED BY <1>0, <1>6, <2>1, <2>2 DEF RepeatInvariant, QueueIsFresh, OnceIn
<1>8. InHandIsNew'
  <2>1. at = "stat" => inHand \in Snap /\ (mtime[inHand] > 0 => mtime[inHand] >= parsed)
    BY <1>0 DEF RepeatInvariant, InHandIsNew, LoopTypes
  <2>2. at = "stat" => (mtime'[inHand] > 0 => mtime'[inHand] >= parsed)
    BY <1>0, <1>1, <1>2, <2>1 DEF TimesGrow
  <2> QED BY <1>0, <2>2 DEF RepeatInvariant, InHandIsNew
<1> QED BY <1>3, <1>4, <1>5, <1>7, <1>8 DEF RepeatInvariant

LEMMA RemoveSnapshotRepeats ==
  ASSUME RepeatInvariant, NEW s \in Snap, RemoveSnapshot(s)
  PROVE  RepeatInvariant'
<1>0. /\ UNCHANGED <<written, recordFile, readableRecord, cutOff, processed, stage, processingQueue,
                     isProcessing, at, inHand, parsed, thrown, handed, repeated, queuedAgain>>
      /\ mtime' = [mtime EXCEPT ![s] = 0] /\ whole' = whole \ {s}
      /\ SnapshotTypes /\ LoopTypes /\ TimesGrow
  BY DEF RemoveSnapshot, recordVars, loopVars, ledgerVars, RepeatInvariant
<1>1. /\ written \in Nat /\ parsed \in Nat
      /\ \A r \in Snap : mtime[r] \in Nat /\ processed[r] \in Nat /\ recordFile[r] \in Nat
  BY <1>0, SnapshotNumbers
<1>2. mtime' \in [Snap -> Time] /\ mtime'[s] = 0 /\ \A r \in Snap \ {s} : mtime'[r] = mtime[r]
  BY <1>0, TimesAreNumbers DEF SnapshotTypes
<1>3. SnapshotTypes' /\ LoopTypes'
  BY <1>0, <1>2 DEF SnapshotTypes, LoopTypes
<1>4. TimesGrow'
  BY <1>0, <1>1, <1>2 DEF TimesGrow
<1>5. HandedIsRecorded'
  BY <1>0 DEF RepeatInvariant, HandedIsRecorded
<1>6. ASSUME NEW r \in Snap, isFresh(r) PROVE isFresh(r)'
  BY <1>0, <1>1, <1>2, <1>6 DEF isFresh
<1>7. QueueIsFresh'
  <2>1. \A i \in 1..Len(processingQueue) : processingQueue[i] \in Snap
    BY <1>0 DEF LoopTypes
  <2>2. at = "wait" => inHand \in Snap
    BY <1>0 DEF LoopTypes
  <2> QED BY <1>0, <1>6, <2>1, <2>2 DEF RepeatInvariant, QueueIsFresh, OnceIn
<1>8. InHandIsNew'
  <2>1. at = "stat" => inHand \in Snap /\ (mtime[inHand] > 0 => mtime[inHand] >= parsed)
    BY <1>0 DEF RepeatInvariant, InHandIsNew, LoopTypes
  <2>2. at = "stat" => (mtime'[inHand] > 0 => mtime'[inHand] >= parsed)
    BY <1>1, <1>2, <2>1
  <2> QED BY <1>0, <2>2 DEF RepeatInvariant, InHandIsNew
<1> QED BY <1>3, <1>4, <1>5, <1>7, <1>8 DEF RepeatInvariant

(* What start queues is new to the record that it has just read.             *)
LEMMA StartRepeats ==
  ASSUME RepeatInvariant, start
  PROVE  RepeatInvariant'
<1>0. /\ UNCHANGED <<mtime, whole, written, recordFile, readableRecord, cutOff,
                     handed, repeated, queuedAgain>>
      /\ stage = "down" /\ thrown' = FALSE
      /\ SnapshotTypes /\ LoopTypes /\ TimesGrow
  BY DEF start, diskVars, recordVars, ledgerVars, RepeatInvariant
<1>1. /\ written \in Nat
      /\ \A r \in Snap : mtime[r] \in Nat /\ processed[r] \in Nat /\ recordFile[r] \in Nat
  BY <1>0, SnapshotNumbers
<1>p. PICK P : P = processed'
  OBVIOUS
<1>2. P = IF readableRecord THEN recordFile ELSE Empty
  BY <1>p DEF start
<1>3. /\ P \in [Snap -> Time]
      /\ \A r \in Snap : /\ P[r] \in Nat /\ P[r] <= written
                         /\ mtime[r] > 0 => P[r] <= mtime[r]
  <2>1. CASE readableRecord
    BY <1>0, <1>1, <1>2, <2>1 DEF SnapshotTypes, TimesGrow
  <2>2. CASE ~readableRecord
    <3>1. P = Empty /\ Empty \in [Snap -> Time] /\ \A r \in Snap : Empty[r] = 0
      BY <1>2, <2>2, TimesAreNumbers DEF Empty
    <3> QED BY <1>1, <2>2, <3>1
  <2> QED BY <2>1, <2>2
<1>4. PICK new \in getNewSnapshots(P) :
        IF new = <<>> THEN stage' = "polling" /\ atRest
                      ELSE stage' = "first" /\ takeFrom(new)
  BY <1>p, Zenon DEF start
<1>5. /\ new \in Seq(Snap) /\ OnceIn(new, {})
      /\ \A i \in 1..Len(new) : P[new[i]] < mtime[new[i]]
  BY <1>1, NewOnes
<1>6. /\ QueueIsFresh' /\ InHandIsNew' /\ LoopTypes' /\ parsed' = 0
      /\ stage' \in {"first", "polling"} /\ isProcessing' \in BOOLEAN
  <2>1. CASE new = <<>>
    <3>1. atRest /\ stage' = "polling"
      BY <1>4, <2>1
    <3> QED BY <1>0, <3>1, AtRestIsFresh, TimesAreNumbers DEF LoopTypes
  <2>2. CASE new # <<>>
    <3>1. takeFrom(new) /\ stage' = "first"
      BY <1>4, <2>2
    <3>2. OnceIn(new, queuedAgain')
      BY <1>5 DEF OnceIn
    <3>3. \A i \in 1..Len(new) : isFresh(new[i])'
      BY <1>p, <1>0, <1>5 DEF isFresh
    <3>4. /\ QueueIsFresh' /\ InHandIsNew' /\ processingQueue' \in Seq(Snap) /\ inHand' \in Snap
          /\ at' = "wait" /\ isProcessing' = TRUE /\ parsed' = 0
      BY <1>5, <2>2, <3>1, <3>2, <3>3, TakeFromQueue
    <3> QED BY <1>0, <3>1, <3>4, TimesAreNumbers DEF LoopTypes
  <2> QED BY <2>1, <2>2
<1>7. SnapshotTypes'
  <2>1. readableRecord' \in BOOLEAN /\ thrown' \in BOOLEAN
    BY <1>0, Zenon DEF SnapshotTypes
  <2>2. /\ mtime' \in [Snap -> Time] /\ written' \in Time /\ whole' \subseteq Snap
        /\ recordFile' \in [Snap -> Time]
    BY <1>0 DEF SnapshotTypes
  <2>3. processed' \in [Snap -> Time]
    BY <1>p, <1>3
  <2>4. stage' \in {"down", "first", "polling"} /\ isProcessing' \in BOOLEAN
    BY <1>6
  <2> QED BY <2>1, <2>2, <2>3, <2>4, Zenon DEF SnapshotTypes
<1>8. TimesGrow'
  BY <1>p, <1>0, <1>1, <1>3, <1>6 DEF TimesGrow
<1>9. HandedIsRecorded'
  <2>1. ASSUME ~cutOff PROVE readableRecord /\ \A s \in Snap : recordFile[s] <= P[s]
    <3>1. readableRecord
      BY <2>1, Zenon DEF RepeatInvariant, HandedIsRecorded
    <3>2. P = recordFile
      BY <1>2, <3>1, Zenon
    <3> QED BY <1>1, <3>1, <3>2
  <2> QED BY <1>p, <1>0, <2>1 DEF RepeatInvariant, HandedIsRecorded
<1> QED BY <1>6, <1>7, <1>8, <1>9 DEF RepeatInvariant

(* A poll adds what is newer than the record, and notes what still waits.    *)
LEMMA PollRepeats ==
  ASSUME RepeatInvariant, poll
  PROVE  RepeatInvariant'
<1>0. /\ UNCHANGED <<mtime, whole, written, recordFile, readableRecord, cutOff, processed, stage,
                     thrown, handed, repeated>>
      /\ stage = "polling" /\ at \in {"none", "wait", "busy"}
      /\ SnapshotTypes /\ LoopTypes /\ TimesGrow /\ QueueIsFresh
  BY Zenon DEF poll, diskVars, recordVars, RepeatInvariant
<1>1. /\ written \in Nat /\ parsed \in Nat
      /\ \A r \in Snap : mtime[r] \in Nat /\ processed[r] \in Nat /\ recordFile[r] \in Nat
  BY <1>0, SnapshotNumbers
<1>2. PICK new \in getNewSnapshots(processed) :
        /\ new # <<>> /\ queuedAgain' = queuedAgain \cup (ToSet(new) \cap pending)
        /\ IF isProcessing
           THEN /\ processingQueue' = processingQueue \o new
                /\ UNCHANGED <<isProcessing, at, inHand, parsed>>
           ELSE takeFrom(processingQueue \o new)
  BY Zenon DEF poll
<1> PICK q : q = processingQueue
  OBVIOUS
<1> PICK B : B = queuedAgain'
  OBVIOUS
<1>3. /\ q \in Seq(Snap) /\ new \in Seq(Snap) /\ OnceIn(q, queuedAgain) /\ OnceIn(new, {})
      /\ \A i \in 1..Len(new) : processed[new[i]] < mtime[new[i]]
      /\ Len(q) \in Nat /\ Len(new) \in Nat
  BY <1>0, <1>1, NewOnes DEF LoopTypes, QueueIsFresh
<1>4. /\ queuedAgain \subseteq B
      /\ \A j \in 1..Len(new) : new[j] = inHand => new[j] \in B
      /\ \A i \in 1..Len(q), j \in 1..Len(new) : q[i] = new[j] => new[j] \in B
  BY <1>2, <1>3 DEF ToSet, pending
<1>5. /\ q \o new \in Seq(Snap) /\ OnceIn(q \o new, B)
      /\ \A i \in 1..Len(q \o new) : \/ \E j \in 1..Len(q) : (q \o new)[i] = q[j]
                                     \/ \E j \in 1..Len(new) : (q \o new)[i] = new[j]
  BY <1>3, <1>4, AddedToQueue
<1>6. \A i \in 1..Len(q) : q[i] \notin B => isFresh(q[i])'
  BY <1>0, <1>4 DEF QueueIsFresh, isFresh
<1>7. \A j \in 1..Len(new) : isFresh(new[j])'
  BY <1>0, <1>3 DEF isFresh
<1>8. \A i \in 1..Len(q \o new) : (q \o new)[i] \notin B => isFresh((q \o new)[i])'
  BY <1>5, <1>6, <1>7
<1>9. CASE isProcessing
  <2>1. processingQueue' = q \o new /\ UNCHANGED <<isProcessing, at, inHand, parsed>>
    BY <1>2, <1>9
  <2>2. \A i \in 1..Len(q) : q[i] = inHand => inHand \in B
    BY <1>0, <1>4 DEF QueueIsFresh
  <2>3. \A i \in 1..Len(q \o new) : (q \o new)[i] = inHand => inHand \in B
    BY <1>4, <1>5, <2>2
  <2>4. at = "wait" /\ inHand \notin B => isFresh(inHand)'
    BY <1>0, <1>4, <2>1 DEF QueueIsFresh, isFresh
  <2>5. QueueIsFresh'
    BY <1>5, <1>8, <2>1, <2>3, <2>4 DEF QueueIsFresh
  <2>6. InHandIsNew'
    BY <1>0, <2>1 DEF InHandIsNew
  <2>7. LoopTypes' /\ SnapshotTypes' /\ TimesGrow'
    BY <1>0, <1>5, <1>9, <2>1 DEF LoopTypes, SnapshotTypes, TimesGrow
  <2> QED BY <1>0, <1>4, <2>5, <2>6, <2>7 DEF RepeatInvariant, HandedIsRecorded
<1>10. CASE ~isProcessing
  <2>1. takeFrom(q \o new)
    BY <1>2, <1>10
  <2>2. q \o new # <<>>
    BY <1>2, <1>3
  <2>3. /\ QueueIsFresh' /\ InHandIsNew' /\ processingQueue' \in Seq(Snap) /\ inHand' \in Snap
        /\ at' = "wait" /\ isProcessing' = TRUE /\ parsed' = 0
    BY <1>5, <1>8, <2>1, <2>2, TakeFromQueue
  <2>4. LoopTypes' /\ SnapshotTypes' /\ TimesGrow'
    BY <1>0, <1>1, <2>3, TimesAreNumbers DEF LoopTypes, SnapshotTypes, TimesGrow
  <2> QED BY <1>0, <1>4, <2>3, <2>4 DEF RepeatInvariant, HandedIsRecorded
<1> QED BY <1>9, <1>10

(* The loop reads a file that is there and is newer than its record.         *)
LEMMA ParseSnapshotRepeats ==
  ASSUME RepeatInvariant, parseSnapshot
  PROVE  RepeatInvariant'
<1>0. /\ UNCHANGED <<mtime, whole, written, recordFile, readableRecord, cutOff, processed, thrown,
                     handed, repeated, queuedAgain>>
      /\ at = "wait" /\ inHand \in Snap
      /\ SnapshotTypes /\ LoopTypes /\ TimesGrow /\ HandedIsRecorded /\ QueueIsFresh
  BY DEF parseSnapshot, diskVars, recordVars, ledgerVars, RepeatInvariant, LoopTypes
<1>1. /\ written \in Nat /\ parsed \in Nat
      /\ \A r \in Snap : mtime[r] \in Nat /\ processed[r] \in Nat /\ recordFile[r] \in Nat
      /\ \A p \in handed : p[1] \in Snap /\ p[2] \in Nat
  BY <1>0, SnapshotNumbers
<1>2. CASE inHand \notin whole
  <2>1. nextOfQueue /\ UNCHANGED <<diskVars, recordVars, processed, thrown, ledgerVars>>
    BY <1>2 DEF parseSnapshot
  <2> QED BY <1>0, <2>1, NextOfQueueRepeats
<1>3. CASE inHand \in whole
  <2>1. /\ parsed' = mtime[inHand] /\ at' = "stat"
        /\ UNCHANGED <<processingQueue, isProcessing, inHand, stage>>
    BY <1>3 DEF parseSnapshot
  <2>2. mtime[inHand] > 0 /\ mtime[inHand] <= written /\ mtime[inHand] \in Time
    BY <1>0, <1>3 DEF TimesGrow, SnapshotTypes
  <2>3. SnapshotTypes' /\ LoopTypes' /\ TimesGrow'
    BY <1>0, <2>1, <2>2 DEF SnapshotTypes, LoopTypes, TimesGrow
  <2>4. HandedIsRecorded' /\ QueueIsFresh'
    BY <1>0, <2>1 DEF HandedIsRecorded, QueueIsFresh, OnceIn, isFresh
  <2>5. ASSUME ~cutOff, inHand \notin queuedAgain PROVE <<inHand, mtime[inHand]>> \notin handed
    <3>1. processed[inHand] < mtime[inHand] /\ recordFile[inHand] <= processed[inHand]
      BY <1>0, <2>2, <2>5 DEF QueueIsFresh, isFresh, HandedIsRecorded, LoopTypes
    <3>2. \A p \in handed : p[2] <= recordFile[p[1]]
      BY <1>0, <2>5 DEF HandedIsRecorded
    <3> QED BY <1>0, <1>1, <3>1, <3>2
  <2>6. InHandIsNew'
    BY <1>0, <1>1, <2>1, <2>5 DEF InHandIsNew
  <2> QED BY <2>3, <2>4, <2>6 DEF RepeatInvariant
<1> QED BY <1>2, <1>3

(* What is recorded is not earlier than what was read.                       *)
LEMMA RecordSnapshotRepeats ==
  ASSUME RepeatInvariant, recordSnapshot
  PROVE  RepeatInvariant'
<1>0. /\ UNCHANGED <<mtime, whole, written, recordFile, readableRecord, cutOff,
                     handed, repeated, queuedAgain>>
      /\ at = "stat" /\ inHand \in Snap
      /\ SnapshotTypes /\ LoopTypes /\ TimesGrow /\ HandedIsRecorded /\ QueueIsFresh /\ InHandIsNew
  BY DEF recordSnapshot, diskVars, recordVars, RepeatInvariant, LoopTypes
<1>1. /\ written \in Nat /\ parsed \in Nat
      /\ \A r \in Snap : mtime[r] \in Nat /\ processed[r] \in Nat /\ recordFile[r] \in Nat
  BY <1>0, SnapshotNumbers
<1>2. CASE mtime[inHand] = 0
  <2>1. throwOut /\ UNCHANGED <<diskVars, recordVars, processed, ledgerVars>>
    BY <1>2 DEF recordSnapshot, ledgerVars
  <2> QED BY <1>0, <2>1, ThrowOutRepeats
<1>3. CASE mtime[inHand] # 0
  <2>1. /\ processed' = [processed EXCEPT ![inHand] = mtime[inHand]] /\ at' = "save"
        /\ UNCHANGED <<processingQueue, isProcessing, inHand, parsed, thrown, stage>>
    BY <1>3 DEF recordSnapshot
  <2>2. /\ processed' \in [Snap -> Time] /\ processed'[inHand] = mtime[inHand]
        /\ \A s \in Snap \ {inHand} : processed'[s] = processed[s]
    BY <1>0, <2>1 DEF SnapshotTypes
  <2>3. mtime[inHand] > 0 /\ mtime[inHand] >= parsed /\ mtime[inHand] >= recordFile[inHand]
        /\ mtime[inHand] <= written
    BY <1>0, <1>1, <1>3 DEF InHandIsNew, TimesGrow
  <2>4. SnapshotTypes' /\ LoopTypes'
    BY <1>0, <2>1, <2>2 DEF SnapshotTypes, LoopTypes
  <2>5. TimesGrow'
    BY <1>0, <1>1, <2>1, <2>2, <2>3 DEF TimesGrow
  <2>6. HandedIsRecorded'
    <3>1. ASSUME ~cutOff, NEW s \in Snap PROVE recordFile[s] <= processed'[s]
      BY <1>0, <1>1, <2>2, <2>3, <3>1 DEF HandedIsRecorded, LoopTypes
    <3> QED BY <1>0, <2>1, <3>1 DEF HandedIsRecorded
  <2>7. QueueIsFresh'
    <3>1. ASSUME NEW i \in 1..Len(processingQueue), processingQueue[i] \notin queuedAgain
          PROVE  isFresh(processingQueue[i])'
      <4>1. processingQueue[i] \in Snap \ {inHand} /\ isFresh(processingQueue[i])
        BY <1>0, <3>1 DEF LoopTypes, QueueIsFresh
      <4> QED BY <1>0, <2>1, <2>2, <4>1 DEF isFresh
    <3> QED BY <1>0, <2>1, <3>1 DEF QueueIsFresh, OnceIn
  <2>8. InHandIsNew'
    BY <1>0, <1>1, <2>1, <2>2, <2>3 DEF InHandIsNew
  <2> QED BY <2>4, <2>5, <2>6, <2>7, <2>8 DEF RepeatInvariant
<1> QED BY <1>2, <1>3

LEMMA SaveRecordRepeats ==
  ASSUME RepeatInvariant, saveRecord
  PROVE  RepeatInvariant'
<1>0. /\ UNCHANGED <<mtime, whole, written, processed, handed, repeated, queuedAgain>>
      /\ UNCHANGED <<diskVars, processed, ledgerVars>>
      /\ at = "save" /\ inHand \in Snap
      /\ SnapshotTypes /\ LoopTypes /\ TimesGrow /\ HandedIsRecorded /\ QueueIsFresh /\ InHandIsNew
  BY DEF saveRecord, diskVars, ledgerVars, RepeatInvariant, LoopTypes
<1>1. /\ written \in Nat /\ parsed \in Nat
      /\ \A r \in Snap : mtime[r] \in Nat /\ processed[r] \in Nat /\ recordFile[r] \in Nat
      /\ \A p \in handed : p[1] \in Snap /\ p[2] \in Nat
  BY <1>0, SnapshotNumbers
<1>2. CASE throwOut /\ UNCHANGED recordVars
  BY <1>0, <1>2, ThrowOutRepeats
<1>3. CASE /\ recordFile' = processed /\ readableRecord' = TRUE /\ at' = "hand" /\ UNCHANGED cutOff
           /\ UNCHANGED <<processingQueue, isProcessing, inHand, parsed, thrown, stage>>
  <2>1. SnapshotTypes' /\ LoopTypes' /\ TimesGrow'
    BY <1>0, <1>3 DEF SnapshotTypes, LoopTypes, TimesGrow
  <2>2. HandedIsRecorded'
    <3>1. ASSUME ~cutOff, NEW p \in handed PROVE p[2] <= processed[p[1]]
      <4>1. p[2] <= recordFile[p[1]] /\ recordFile[p[1]] <= processed[p[1]]
        BY <1>0, <1>1, <3>1 DEF HandedIsRecorded, LoopTypes
      <4> QED BY <1>1, <4>1
    <3>2. \A s \in Snap : recordFile'[s] <= processed'[s]
      BY <1>0, <1>1, <1>3
    <3> QED BY <1>0, <1>3, <3>1, <3>2 DEF HandedIsRecorded
  <2>3. QueueIsFresh'
    BY <1>0, <1>3 DEF QueueIsFresh, OnceIn, isFresh
  <2>4. InHandIsNew'
    BY <1>0, <1>3 DEF InHandIsNew
  <2> QED BY <2>1, <2>2, <2>3, <2>4 DEF RepeatInvariant
<1> QED BY <1>2, <1>3 DEF saveRecord

(* What the processor has been given already was queued again.               *)
LEMMA HandOverRepeats ==
  ASSUME RepeatInvariant, handOver
  PROVE  RepeatInvariant'
<1>0. /\ UNCHANGED <<mtime, whole, written, recordFile, readableRecord, cutOff, processed, stage,
                     processingQueue, isProcessing, inHand, parsed, thrown, queuedAgain>>
      /\ at = "hand" /\ at' = "busy" /\ inHand \in Snap /\ parsed \in Time
      /\ handed' = handed \cup {<<inHand, parsed>>}
      /\ repeated' = repeated \cup ({<<inHand, parsed>>} \cap handed)
      /\ SnapshotTypes /\ LoopTypes /\ TimesGrow /\ HandedIsRecorded /\ QueueIsFresh /\ InHandIsNew
  BY DEF handOver, diskVars, recordVars, RepeatInvariant, LoopTypes
<1>1. SnapshotTypes' /\ LoopTypes' /\ TimesGrow'
  BY <1>0 DEF SnapshotTypes, LoopTypes, TimesGrow
<1>2. QueueIsFresh' /\ InHandIsNew'
  BY <1>0 DEF QueueIsFresh, OnceIn, isFresh, InHandIsNew
<1>3. HandedIsRecorded'
  <2>1. ASSUME ~cutOff, NEW p \in repeated' PROVE p[1] \in queuedAgain
    <3>1. CASE p \in repeated
      BY <1>0, <2>1, <3>1 DEF HandedIsRecorded
    <3>2. CASE p = <<inHand, parsed>> /\ <<inHand, parsed>> \in handed
      BY <1>0, <2>1, <3>2 DEF InHandIsNew
    <3> QED BY <1>0, <3>1, <3>2
  <2>2. parsed <= recordFile[inHand]
    BY <1>0, SnapshotNumbers DEF InHandIsNew
  <2>3. ASSUME ~cutOff, NEW p \in handed' PROVE p[2] <= recordFile[p[1]]
    BY <1>0, <2>2, <2>3 DEF HandedIsRecorded
  <2>4. ASSUME ~cutOff PROVE readableRecord' /\ \A s \in Snap : stage' # "down" => recordFile'[s] <= processed'[s]
    BY <1>0, <2>4 DEF HandedIsRecorded
  <2> QED BY <1>0, <2>1, <2>3, <2>4 DEF HandedIsRecorded
<1> QED BY <1>1, <1>2, <1>3 DEF RepeatInvariant

LEMMA WatcherDiesRepeats ==
  ASSUME RepeatInvariant, watcherDies
  PROVE  RepeatInvariant'
<1>0. /\ UNCHANGED <<mtime, whole, written, recordFile, handed, repeated, queuedAgain>>
      /\ stage' = "down" /\ atRest /\ processed' = Empty /\ thrown' = FALSE
      /\ UNCHANGED <<readableRecord, cutOff>> \/ (readableRecord' = FALSE /\ cutOff' = TRUE)
      /\ SnapshotTypes /\ LoopTypes /\ TimesGrow /\ HandedIsRecorded
  BY DEF watcherDies, diskVars, RepeatInvariant
<1>1. /\ QueueIsFresh' /\ InHandIsNew' /\ processingQueue' = <<>> /\ at' = "none"
      /\ inHand' = NoSnap /\ parsed' = 0 /\ isProcessing' = FALSE
  BY <1>0, AtRestIsFresh
<1>2. Empty \in [Snap -> Time] /\ (\A s \in Snap : Empty[s] = 0) /\ written \in Nat
      /\ \A s \in Snap : mtime[s] \in Nat
  BY <1>0, TimesAreNumbers, SnapshotNumbers DEF Empty
<1>3. readableRecord' \in BOOLEAN
  BY <1>0, Zenon DEF SnapshotTypes
<1>4. SnapshotTypes'
  <2>1. /\ mtime' \in [Snap -> Time] /\ written' \in Time /\ whole' \subseteq Snap
        /\ recordFile' \in [Snap -> Time] /\ processed' \in [Snap -> Time]
    BY <1>0, <1>2 DEF SnapshotTypes
  <2> QED BY <1>0, <1>1, <1>3, <2>1 DEF SnapshotTypes
<1>5. LoopTypes'
  BY <1>0, <1>1, TimesAreNumbers DEF LoopTypes
<1>6. TimesGrow'
  BY <1>0, <1>1, <1>2 DEF TimesGrow
<1>7. HandedIsRecorded'
  BY <1>0 DEF HandedIsRecorded
<1> QED BY <1>1, <1>4, <1>5, <1>6, <1>7 DEF RepeatInvariant

LEMMA RepeatInvariantAlways == SnapshotSpec => []RepeatInvariant
<1>1. SnapshotInit => RepeatInvariant
  <2> SUFFICES ASSUME SnapshotInit PROVE RepeatInvariant
    OBVIOUS
  <2>1. \A s \in Snap : mtime[s] = 0 /\ processed[s] = 0 /\ recordFile[s] = 0
    BY DEF SnapshotInit, Empty
  <2>2. SnapshotTypes
    BY TimesAreNumbers DEF SnapshotInit, SnapshotTypes
  <2>3. LoopTypes
    <3>1. <<>> \in Seq(Snap) /\ 0 \in Time
      BY TimesAreNumbers
    <3> QED BY <3>1 DEF SnapshotInit, LoopTypes
  <2> QED BY <2>1, <2>2, <2>3 DEF SnapshotInit, RepeatInvariant, TimesGrow, HandedIsRecorded, QueueIsFresh,
                            OnceIn, InHandIsNew
<1>2. RepeatInvariant /\ [SnapshotNext]_snapshotVars => RepeatInvariant'
  <2> SUFFICES ASSUME RepeatInvariant, [SnapshotNext]_snapshotVars PROVE RepeatInvariant'
    OBVIOUS
  <2>1. CASE loopStep
    <3>1. CASE analysisEnds
      BY <3>1, NextOfQueueRepeats DEF analysisEnds
    <3> QED BY <2>1, <3>1, ParseSnapshotRepeats, RecordSnapshotRepeats, SaveRecordRepeats,
               HandOverRepeats DEF loopStep
  <2>2. CASE UNCHANGED snapshotVars
    BY <2>2 DEF snapshotVars, diskVars, recordVars, loopVars, ledgerVars, RepeatInvariant,
                SnapshotTypes, LoopTypes, TimesGrow, HandedIsRecorded, QueueIsFresh, OnceIn,
                isFresh, InHandIsNew
  <2> QED BY <2>1, <2>2, WriteSnapshotRepeats, RemoveSnapshotRepeats, StartRepeats, PollRepeats,
             WatcherDiesRepeats DEF SnapshotNext
<1> QED BY <1>1, <1>2, PTL DEF SnapshotSpec

LEMMA RepeatedWasOverlappedAlways == SnapshotSpec => []RepeatedWasOverlapped
<1>1. RepeatInvariant => RepeatedWasOverlapped
  BY DEF RepeatInvariant, HandedIsRecorded, RepeatedWasOverlapped
<1> QED BY <1>1, RepeatInvariantAlways, PTL

(* For any snapshots, writes, polls, deaths and failed saves: what the two   *)
(* watchers of the snapshots have on record as processed they have           *)
(* processed, and nothing twice but for an overlap or a state file cut off.  *)
THEOREM SnapshotRecordsAreAlwaysTrue ==
  SnapshotSpec /\ LibrarySpec => []SnapshotRecordsAreTrue
<1>1. RecordedIsHanded /\ RepeatedWasOverlapped /\ RecordedWasAnalysed => SnapshotRecordsAreTrue
  BY DEF SnapshotRecordsAreTrue
<1> QED BY <1>1, RecordedIsAlwaysHanded, RepeatedWasOverlappedAlways, RecordedWasAnalysedAlways, PTL

-----------------------------------------------------------------------------
(* The types of the lock, the presence and the watchers                      *)

LEMMA PresenceTypesStep == PresenceTypeOK /\ [PresenceNext]_presenceVars => PresenceTypeOK'
<1> SUFFICES ASSUME PresenceTypeOK, [PresenceNext]_presenceVars PROVE PresenceTypeOK'
  OBVIOUS
<1> USE DEF PresenceTypeOK
<1>1. ASSUME NEW v \in Visitor, acquire(v) PROVE PresenceTypeOK'
  BY <1>1 DEF acquire
<1>2. ASSUME NEW v \in Visitor, releasePresence(v) PROVE PresenceTypeOK'
  BY <1>2 DEF releasePresence
<1>3. ASSUME NEW v \in Visitor, setWatcherMode(v) PROVE PresenceTypeOK'
  BY <1>3 DEF setWatcherMode
<1>4. CASE watcherStep
  BY <1>4 DEF watcherStep, beginCheck, readWatcherMode, isAgentActive, endPass
<1>5. CASE UNCHANGED presenceVars
  BY <1>5 DEF presenceVars
<1> QED BY <1>1, <1>2, <1>3, <1>4, <1>5 DEF PresenceNext

LEMMA PresenceTypesAlways == PresenceSpec => []PresenceTypeOK
<1>1. PresenceInit => PresenceTypeOK
  BY DEF PresenceInit, PresenceTypeOK
<1> QED BY <1>1, PresenceTypesStep, PTL DEF PresenceSpec

LEMMA LockTypesAlways == LockSpec => []LockTypeOK
<1>1. LockInit => LockInvariant
  BY DEF LockInit, LockInvariant, LockTypeOK, LockNamesHolder, holders
<1>2. LockInvariant => LockTypeOK
  BY DEF LockInvariant
<1> QED BY <1>1, <1>2, LockInvariantStep, PTL DEF LockSpec

-----------------------------------------------------------------------------
(* The types of the inbox watcher                                            *)

(* A file that lies in the inbox, and is not on its way, may be tried once   *)
(* more.                                                                     *)
mayTry(f) == IF f \in in("inbox") /\ (\A m \in moving : m.file # f) THEN 1 ELSE 0

TriesArePaid ==
  /\ attempts \in [WatchedFile -> Nat] /\ posts \in 0..MaxPosts /\ mishaps \in 0..MaxMishaps
  /\ \A f \in WatchedFile : attempts[f] + mayTry(f) <= posts + mishaps

OneMove == (step = "move" => \E m : moving = {m}) /\ (step # "move" => moving = {})

WatchRest ==
  /\ filed \subseteq WatchedFile \X Folder /\ step \in {"off", "scan", "work", "move"}
  /\ processedKeys \subseteq WatchedFile \cup keys /\ handled \in [WatchedFile -> Nat]

WatchTypes == CopiesLie /\ TriesArePaid /\ OneMove /\ WatchRest

LEMMA WatchTypesStart == WatchInit => WatchTypes
<1> SUFFICES ASSUME WatchInit PROVE WatchTypes
  OBVIOUS
<1>1. CopiesLie /\ OneMove /\ WatchRest
  BY DEF WatchInit, CopiesLie, OneMove, WatchRest
<1>2. TriesArePaid
  BY WatchedAssumption DEF WatchInit, TriesArePaid, mayTry, in
<1> QED BY <1>1, <1>2 DEF WatchTypes

(* A step that tries nothing, and gives a file back only at a price.         *)
LEMMA PaidIfKept ==
  ASSUME TriesArePaid, UNCHANGED attempts,
         posts' \in {posts, posts + 1}, mishaps' \in {mishaps, mishaps + 1},
         posts' <= MaxPosts, mishaps' <= MaxMishaps,
         posts' + mishaps' = posts + mishaps =>
           \A f \in WatchedFile : mayTry(f)' <= mayTry(f)
  PROVE  TriesArePaid'
<1>1. posts \in Nat /\ mishaps \in Nat /\ MaxPosts \in Nat /\ MaxMishaps \in Nat
      /\ attempts \in [WatchedFile -> Nat]
  BY WatchedAssumption DEF TriesArePaid
<1>2. posts' \in 0..MaxPosts /\ mishaps' \in 0..MaxMishaps
  BY <1>1
<1>3. ASSUME NEW f \in WatchedFile PROVE attempts'[f] + mayTry(f)' <= posts' + mishaps'
  <2>1. mayTry(f) \in {0, 1} /\ mayTry(f)' \in {0, 1} /\ attempts[f] \in Nat
        /\ attempts[f] + mayTry(f) <= posts + mishaps
    BY <1>1 DEF mayTry, TriesArePaid
  <2> HIDE DEF mayTry
  <2>2. CASE posts' + mishaps' = posts + mishaps
    <3>1. mayTry(f)' <= mayTry(f)
      BY <2>2
    <3> QED BY <1>1, <2>1, <2>2, <3>1
  <2>3. CASE posts' + mishaps' # posts + mishaps
    <3>1. PICK p, q, a, c, d : /\ p = posts' /\ q = mishaps'
                               /\ a = attempts[f] /\ c = mayTry(f) /\ d = mayTry(f)'
      OBVIOUS
    <3>2. p = posts \/ p = posts + 1
      BY <3>1
    <3>3. q = mishaps \/ q = mishaps + 1
      BY <3>1
    <3>4. p + q # posts + mishaps
      BY <2>3, <3>1
    <3>5. a \in Nat /\ c \in {0, 1} /\ d \in {0, 1} /\ a + c <= posts + mishaps
      BY <2>1, <3>1
    <3>6. a + d <= p + q
      BY ONLY <1>1, <3>2, <3>3, <3>4, <3>5, SMT
    <3> QED BY <3>1, <3>6
  <2> QED BY <2>2, <2>3
<1> QED BY <1>1, <1>2, <1>3 DEF TriesArePaid

(* A try uses up what the file has.                                          *)
LEMMA PaidIfTried ==
  ASSUME TriesArePaid, NEW f \in WatchedFile, f \in in("inbox"), moving = {},
         attempts' = [attempts EXCEPT ![f] = @ + 1], UNCHANGED <<filed, posts, mishaps>>,
         NEW m, moving' = {m}, m.file = f
  PROVE  TriesArePaid'
<1>1. posts \in Nat /\ mishaps \in Nat /\ attempts \in [WatchedFile -> Nat]
  BY WatchedAssumption DEF TriesArePaid
<1>2. ASSUME NEW g \in WatchedFile PROVE attempts'[g] + mayTry(g)' <= posts' + mishaps'
  <2>1. attempts[g] + mayTry(g) <= posts + mishaps /\ attempts[g] \in Nat
    BY <1>1 DEF TriesArePaid
  <2>2. CASE g = f
    <3>1. mayTry(g) = 1 /\ mayTry(g)' = 0
      BY <2>2 DEF mayTry
    <3>2. attempts'[g] = attempts[g] + 1
      BY <1>1, <2>2
    <3> QED BY <2>1, <3>1, <3>2
  <2>3. CASE g # f
    <3>1. mayTry(g)' = mayTry(g) /\ attempts'[g] = attempts[g]
      BY <1>1, <2>3 DEF mayTry, in
    <3> QED BY <2>1, <3>1
  <2> QED BY <2>2, <2>3
<1>3. attempts' \in [WatchedFile -> Nat]
  BY <1>1
<1> QED BY <1>2, <1>3 DEF TriesArePaid

LEMMA ScanTypes ==
  ASSUME WatchTypes, NEW f \in listed, scan(f)
  PROVE  TriesArePaid' /\ OneMove' /\ WatchRest'
<1>1. f \in WatchedFile /\ TriesArePaid /\ OneMove /\ WatchRest /\ step = "scan" /\ moving = {}
  BY DEF WatchTypes, CopiesLie, OneMove, scan
<1>2. UNCHANGED <<filed, handled, posts, mishaps>>
  BY DEF scan, watchCounts
<1>3. posts <= MaxPosts /\ mishaps <= MaxMishaps
  BY <1>1, WatchedAssumption DEF TriesArePaid
<1>4. CASE f \notin in("inbox") \/ nature[f] = "malformed"
  <2>1. exit /\ UNCHANGED attempts
    BY <1>4 DEF scan
  <2>2. \A g \in WatchedFile : mayTry(g)' = mayTry(g)
    BY <1>1, <1>2, <2>1 DEF mayTry, in, exit
  <2>3. \A g \in WatchedFile : mayTry(g)' <= mayTry(g)
    BY <2>2 DEF mayTry
  <2>4. TriesArePaid'
    BY <1>1, <1>2, <1>3, <2>1, <2>3, PaidIfKept
  <2> QED BY <1>1, <1>2, <2>1, <2>4 DEF exit, OneMove, WatchRest
<1>5. CASE f \in in("inbox") /\ nature[f] # "malformed"
  <2>0. processedKeys' = processedKeys
    BY <1>5, Zenon DEF scan
  <2>1. CASE nature[f] = "alien"
    <3>1. moveToExpired(f)
      BY <1>5, <2>1, Zenon DEF scan
    <3>2. PICK d : begin(toward(f, d, {f}, {}, "scan"))
      BY <3>1 DEF moveToExpired
    <3>3. attempts' = [attempts EXCEPT ![f] = @ + 1]
      BY <3>1 DEF moveToExpired
    <3>4. PICK m : moving' = {m} /\ m.file = f /\ step' = "move"
      BY <3>2 DEF begin, toward
    <3>5. TriesArePaid'
      BY <1>1, <1>2, <1>5, <3>3, <3>4, PaidIfTried
    <3> QED BY <1>1, <1>2, <2>0, <3>4, <3>5 DEF OneMove, WatchRest
  <2>2. CASE nature[f] # "alien"
    <3>1. UNCHANGED attempts
      BY <1>5, <2>2, Zenon DEF scan
    <3>2. begin(toward(f, "processed", {f}, {}, "scan")) \/ UNCHANGED <<step, moving>>
      BY <1>5, <2>2, Zenon DEF scan
    <3>3. \A g \in WatchedFile : mayTry(g)' <= mayTry(g)
      BY <1>1, <1>2 DEF mayTry, in
    <3>4. TriesArePaid'
      BY <1>1, <1>2, <1>3, <3>1, <3>3, PaidIfKept
    <3> QED BY <1>1, <1>2, <2>0, <3>2, <3>4 DEF begin, OneMove, WatchRest
  <2> QED BY <2>1, <2>2
<1> QED BY <1>4, <1>5

LEMMA WatchTypesStep == WatchTypes /\ [WatchNext]_watchVars => WatchTypes'
<1> SUFFICES ASSUME WatchTypes, [WatchNext]_watchVars PROVE TriesArePaid' /\ OneMove' /\ WatchRest'
  BY CopiesLieStep DEF WatchTypes
<1>1. TriesArePaid /\ OneMove /\ WatchRest /\ CopiesLie
  BY DEF WatchTypes
<1>2. /\ posts \in Nat /\ mishaps \in Nat /\ MaxPosts \in Nat /\ MaxMishaps \in Nat
      /\ posts <= MaxPosts /\ mishaps <= MaxMishaps
  BY <1>1, WatchedAssumption DEF TriesArePaid
<1>3. ASSUME UNCHANGED <<attempts, posts, mishaps>>,
             \A f \in WatchedFile : f \in in("inbox")' => f \in in("inbox"),
             \A m \in moving : m \notin moving' => <<m.file, "inbox">> \notin filed'
                                                   \/ \E n \in moving' : n.file = m.file
      PROVE  TriesArePaid'
  <2>1. ASSUME NEW f \in WatchedFile PROVE mayTry(f)' <= mayTry(f)
    BY <1>3 DEF mayTry, in
  <2> QED BY <1>1, <1>2, <1>3, <2>1, PaidIfKept
<1>4. ASSUME NEW f \in WatchedFile, Post(f) PROVE TriesArePaid' /\ OneMove' /\ WatchRest'
  <2>1. posts' + mishaps' # posts + mishaps /\ posts' <= MaxPosts /\ posts' = posts + 1
        /\ UNCHANGED <<attempts, mishaps>>
    BY <1>2, <1>4 DEF Post
  <2>2. TriesArePaid'
    BY <1>1, <1>2, <2>1, PaidIfKept
  <2>3. filed' = filed \cup {<<f, "inbox">>} /\ UNCHANGED <<step, moving, processedKeys, handled>>
    BY <1>4 DEF Post
  <2>4. OneMove'
    BY <1>1, <2>3, Zenon DEF OneMove
  <2> QED BY <1>1, <2>2, <2>3, <2>4 DEF WatchRest, Folder
<1>5. ASSUME NEW f \in WatchedFile, TakeAway(f) PROVE TriesArePaid' /\ OneMove' /\ WatchRest'
  <2>1. TriesArePaid'
    BY <1>3, <1>5 DEF TakeAway, in
  <2>2. /\ filed' = (filed \ {<<f, "inbox">>}) \cup {<<f, "processed">>}
        /\ UNCHANGED <<step, moving, processedKeys, handled>>
    BY <1>5 DEF TakeAway
  <2>3. OneMove'
    BY <1>1, <2>2, Zenon DEF OneMove
  <2> QED BY <1>1, <2>1, <2>2, <2>3 DEF WatchRest, Folder
<1>6. CASE loadProcessedKeys \/ repeat
  <2>1. TriesArePaid'
    BY <1>3, <1>6 DEF loadProcessedKeys, repeat, watchCounts, in
  <2> QED BY <1>1, <1>6, <2>1 DEF loadProcessedKeys, repeat, OneMove, WatchRest, in
<1>7. CASE endScan
  <2>1. moving = {} /\ moving' = {} /\ UNCHANGED <<filed, attempts, handled, posts, mishaps>>
    BY <1>1, <1>7 DEF endScan, exit, OneMove, watchCounts
  <2>2. TriesArePaid'
    BY <1>3, <2>1 DEF in
  <2>3. step' \in {"off", "work"} /\ processedKeys' \subseteq WatchedFile \cup keys
    BY <1>1, <1>7 DEF endScan, exit, WatchRest
  <2> QED BY <1>1, <2>1, <2>2, <2>3 DEF OneMove, WatchRest
<1>8. ASSUME NEW f \in batch, processMessage(f) PROVE TriesArePaid' /\ OneMove' /\ WatchRest'
  <2>0. moving = {} /\ UNCHANGED <<filed, processedKeys, attempts, posts, mishaps>>
    BY <1>1, <1>8 DEF processMessage, OneMove, watchCounts
  <2>1. TriesArePaid'
    BY <1>3, <2>0 DEF in
  <2>2. f \in WatchedFile /\ consensus[f] \in {"route", "escalate", "hold", "block"}
    BY <1>1, WatchedAssumption DEF CopiesLie
  <2>3. UNCHANGED <<step, moving>> \/ \E m : begin(m)
    BY <1>8, <2>2, Zenon DEF processMessage
  <2>4. OneMove' /\ step' \in {"off", "scan", "work", "move"}
    BY <1>1, <2>3 DEF begin, OneMove, WatchRest
  <2>5. handled' \in [WatchedFile -> Nat]
    <3>1. handled' = handled \/ handled' = [handled EXCEPT ![f] = @ + 1]
      BY <1>8, Zenon DEF processMessage
    <3>2. handled[f] + 1 \in Nat
      BY <1>1, <2>2 DEF WatchRest
    <3> QED BY <1>1, <3>1, <3>2 DEF WatchRest
  <2> QED BY <1>1, <2>0, <2>1, <2>4, <2>5 DEF WatchRest
<1>9. ASSUME NEW m \in moving, moveFile(m) PROVE TriesArePaid' /\ OneMove' /\ WatchRest'
  <2>0. m \in Move /\ m.file \in WatchedFile /\ m.to \in Folder /\ m.back \in {"scan", "work"}
        /\ m.always \cup m.onSuccess \subseteq WatchedFile \cup keys
        /\ moving = {m} /\ UNCHANGED <<attempts, handled, posts, mishaps>>
    BY <1>1, <1>9 DEF CopiesLie, Move, OneMove, moveFile, watchCounts
  <2>1. CASE m.written \/ m.file \in in(m.to) \/ m.file \notin in("inbox")
    <3>1. /\ filed' = filed \ {<<m.file, "inbox">>} /\ step' = m.back /\ moving' = {}
          /\ processedKeys' \subseteq processedKeys \cup m.always \cup m.onSuccess
      BY <1>9, <2>1 DEF moveFile, endMove
    <3>2. TriesArePaid'
      BY <1>3, <2>0, <3>1 DEF in
    <3> QED BY <1>1, <2>0, <3>1, <3>2 DEF OneMove, WatchRest
  <2>2. CASE ~(m.written \/ m.file \in in(m.to) \/ m.file \notin in("inbox"))
    <3>1. /\ filed' = filed \cup {<<m.file, m.to>>} /\ moving' = {[m EXCEPT !.written = TRUE]}
          /\ UNCHANGED <<step, processedKeys>>
      BY <1>9, <2>2 DEF moveFile
    <3>2. [m EXCEPT !.written = TRUE].file = m.file /\ m.to # "inbox"
      BY <1>1, <2>0 DEF Move, CopiesLie
    <3>3. TriesArePaid'
      BY <1>3, <2>0, <3>1, <3>2 DEF in
    <3>4. step = "move" /\ step' = "move"
      BY <1>9, <3>1 DEF moveFile
    <3>5. OneMove'
      BY <3>1, <3>4, Zenon DEF OneMove
    <3>6. filed' \subseteq WatchedFile \X Folder
      BY <1>1, <2>0, <3>1 DEF WatchRest
    <3> QED BY <1>1, <2>0, <3>1, <3>3, <3>4, <3>5, <3>6 DEF WatchRest
  <2> QED BY <2>1, <2>2
<1>10. ASSUME NEW m \in moving, moveFails(m) PROVE TriesArePaid' /\ OneMove' /\ WatchRest'
  <2>0. m \in Move /\ m.back \in {"scan", "work"} /\ m.always \subseteq WatchedFile \cup keys
    BY <1>1 DEF CopiesLie, Move
  <2>1. mishaps' = mishaps + 1 /\ mishaps < MaxMishaps /\ UNCHANGED <<filed, handled, attempts, posts>>
        /\ step' = m.back /\ moving' = {} /\ processedKeys' = processedKeys \cup m.always
    BY <1>10 DEF moveFails, endMove
  <2>2. TriesArePaid'
    BY <1>1, <1>2, <2>1, PaidIfKept
  <2> QED BY <1>1, <2>0, <2>1, <2>2 DEF OneMove, WatchRest
<1>11. CASE DieInRun
  <2>1. mishaps' = mishaps + 1 /\ mishaps < MaxMishaps /\ UNCHANGED <<filed, handled, attempts, posts>>
        /\ step' = "off" /\ moving' = {} /\ processedKeys' = {}
    BY <1>11 DEF DieInRun, exit
  <2>2. TriesArePaid'
    BY <1>1, <1>2, <2>1, PaidIfKept
  <2> QED BY <1>1, <2>1, <2>2 DEF OneMove, WatchRest
<1>12. ASSUME NEW f \in batch, refuseMutation(f) PROVE TriesArePaid' /\ OneMove' /\ WatchRest'
  <2>1. UNCHANGED <<filed, handled, attempts, posts, mishaps, step, moving, processedKeys>>
    BY <1>12 DEF refuseMutation
  <2>2. TriesArePaid'
    BY <1>3, <2>1 DEF in
  <2> QED BY <1>1, <2>1, <2>2 DEF OneMove, WatchRest
<1>13. CASE UNCHANGED watchVars
  BY <1>1, <1>13 DEF watchVars, watchCounts, TriesArePaid, mayTry, in, OneMove, WatchRest
<1> QED
  BY <1>4, <1>5, <1>6, <1>7, <1>8, <1>9, <1>10, <1>11, <1>12, <1>13, ScanTypes
     DEF WatchNext, watchStep

LEMMA WatchTypesHere == WatchTypes => WatchTypeOK
<1> SUFFICES ASSUME WatchTypes PROVE WatchTypeOK
  OBVIOUS
<1>1. TriesArePaid /\ OneMove /\ WatchRest /\ CopiesLie
  BY DEF WatchTypes
<1>2. ASSUME NEW f \in WatchedFile PROVE attempts[f] \in 0..MaxPosts + MaxMishaps
  <2>1. /\ attempts[f] \in Nat /\ posts \in 0..MaxPosts /\ mishaps \in 0..MaxMishaps
        /\ attempts[f] + mayTry(f) <= posts + mishaps /\ mayTry(f) \in {0, 1}
    BY <1>1 DEF TriesArePaid, mayTry
  <2> QED BY <2>1, WatchedAssumption
<1>3. Cardinality(moving) = (IF step = "move" THEN 1 ELSE 0)
  <2>1. CASE step = "move"
    <3>1. PICK m : moving = {m}
      BY <1>1, <2>1 DEF OneMove
    <3>2. Cardinality({m}) = 1
      BY FS_Singleton
    <3> QED BY <2>1, <3>1, <3>2
  <2>2. CASE step # "move"
    <3>1. Cardinality({}) = 0
      BY FS_EmptySet
    <3> QED BY <1>1, <2>2, <3>1 DEF OneMove
  <2> QED BY <2>1, <2>2
<1>4. attempts \in [WatchedFile -> 0..MaxPosts + MaxMishaps]
  BY <1>1, <1>2 DEF TriesArePaid
<1> QED BY <1>1, <1>3, <1>4 DEF WatchRest, CopiesLie, WatchTypeOK

LEMMA WatchTypesAlways == WatchSpec => []WatchTypeOK
BY WatchTypesStart, WatchTypesStep, WatchTypesHere, PTL DEF WatchSpec

-----------------------------------------------------------------------------
(* The types of the snapshot watchers                                        *)

SnapshotCounts ==
  /\ Len(processingQueue) <= MaxQueue
  /\ inHand \in Snap \cup {NoSnap} /\ cutOff \in BOOLEAN
  /\ repeated \subseteq handed /\ excused \subseteq Snap \X Time /\ queuedAgain \subseteq Snap
  /\ deaths \in 0..MaxDeaths /\ refusals \in 0..MaxRefusals /\ removals \in 0..MaxRemovals

SnapshotBounds == MaxQueue \in Nat /\ MaxDeaths \in Nat /\ MaxRefusals \in Nat /\ MaxRemovals \in Nat

LEMMA TakingShortens ==
  ASSUME NEW q \in Seq(Snap), q # <<>>, takeFrom(q)
  PROVE  /\ Len(processingQueue') < Len(q) /\ Len(processingQueue') \in Nat /\ Len(q) \in Nat
         /\ inHand' \in Snap
BY HeadTailProperties DEF takeFrom

LEMMA NextOfQueueCounts ==
  ASSUME SnapshotCounts, LoopTypes, nextOfQueue
  PROVE  Len(processingQueue') <= MaxQueue /\ inHand' \in Snap \cup {NoSnap}
<1>1. CASE processingQueue = <<>>
  BY <1>1, SnapshotAssumption DEF nextOfQueue, atRest
<1>2. CASE processingQueue # <<>>
  <2>1. takeFrom(processingQueue) /\ processingQueue \in Seq(Snap)
    BY <1>2 DEF nextOfQueue, LoopTypes
  <2>2. Len(processingQueue') < Len(processingQueue) /\ Len(processingQueue') \in Nat
        /\ Len(processingQueue) \in Nat /\ inHand' \in Snap
    BY <1>2, <2>1, TakingShortens
  <2> QED BY <2>2, SnapshotAssumption DEF SnapshotCounts
<1> QED BY <1>1, <1>2

LEMMA ThrowOutCounts ==
  ASSUME SnapshotCounts, throwOut
  PROVE  Len(processingQueue') <= MaxQueue /\ inHand' \in Snap \cup {NoSnap}
<1>1. processingQueue' = <<>> \/ processingQueue' = processingQueue
  BY DEF throwOut
<1>2. inHand' = NoSnap
  BY DEF throwOut
<1> QED BY <1>1, <1>2, SnapshotAssumption DEF SnapshotCounts

LEMMA SnapshotCountsStep ==
  ASSUME RepeatInvariant, SnapshotCounts, [SnapshotNext]_snapshotVars
  PROVE  SnapshotCounts'
<1>0. SnapshotTypes /\ LoopTypes /\ SnapshotBounds
  BY SnapshotAssumption DEF RepeatInvariant, SnapshotBounds
<1> USE DEF SnapshotCounts, diskVars, recordVars, loopVars, ledgerVars
<1>1. ASSUME NEW s \in Snap, NEW complete \in BOOLEAN, WriteSnapshot(s, complete) PROVE SnapshotCounts'
  BY <1>1 DEF WriteSnapshot
<1>2. ASSUME NEW s \in Snap, RemoveSnapshot(s) PROVE SnapshotCounts'
  BY <1>0, <1>2 DEF RemoveSnapshot, SnapshotBounds
<1>3. CASE start
  <2>1. PICK new : /\ new \in getNewSnapshots(processed') /\ Len(new) <= MaxQueue + 1
                   /\ IF new = <<>> THEN atRest ELSE takeFrom(new)
    BY <1>3, Zenon DEF start
  <2>2. \A s \in Snap : mtime[s] \in Nat
    BY <1>0, SnapshotNumbers
  <2>3. new \in Seq(Snap)
    BY <2>1, <2>2, NewOnes
  <2>4. Len(processingQueue') <= MaxQueue /\ inHand' \in Snap \cup {NoSnap}
    <3>1. CASE new = <<>>
      BY <1>0, <2>1, <3>1 DEF atRest, SnapshotBounds
    <3>2. CASE new # <<>>
      BY <1>0, <2>1, <2>3, <3>2, TakingShortens DEF SnapshotBounds
    <3> QED BY <3>1, <3>2
  <2> QED BY <1>3, <2>4 DEF start
<1>4. CASE poll
  <2>1. PICK new : /\ new \in getNewSnapshots(processed) /\ new # <<>>
                   /\ Len(processingQueue) + Len(new) <= MaxQueue
                   /\ queuedAgain' = queuedAgain \cup (ToSet(new) \cap pending)
                   /\ IF isProcessing
                      THEN processingQueue' = processingQueue \o new /\ inHand' = inHand
                      ELSE takeFrom(processingQueue \o new)
    BY <1>4, Zenon DEF poll
  <2>2. \A s \in Snap : mtime[s] \in Nat
    BY <1>0, SnapshotNumbers
  <2>3. new \in Seq(Snap) /\ processingQueue \in Seq(Snap)
    BY <1>0, <2>1, <2>2, NewOnes DEF LoopTypes
  <2>4. processingQueue \o new \in Seq(Snap) /\ Len(processingQueue \o new) <= MaxQueue
        /\ processingQueue \o new # <<>>
    <3>1. processingQueue \o new \in Seq(Snap) /\ Len(processingQueue \o new) = Len(processingQueue) + Len(new)
          /\ Len(processingQueue) \in Nat /\ Len(new) \in Nat /\ Len(new) > 0
      BY <2>1, <2>3, EmptySeq, LenProperties
    <3>2. Len(<<>>) = 0
      OBVIOUS
    <3> QED BY <2>1, <3>1, <3>2
  <2>5. Len(processingQueue') <= MaxQueue /\ inHand' \in Snap \cup {NoSnap}
    <3>1. CASE isProcessing
      BY <2>1, <2>4, <3>1
    <3>2. CASE ~isProcessing
      <4>1. Len(processingQueue') < Len(processingQueue \o new) /\ Len(processingQueue') \in Nat
            /\ Len(processingQueue \o new) \in Nat /\ inHand' \in Snap
        BY <2>1, <2>4, <3>2, TakingShortens
      <4> QED BY <1>0, <2>4, <4>1 DEF SnapshotBounds
    <3> QED BY <3>1, <3>2
  <2>6. queuedAgain' \subseteq Snap
    BY <2>1, <2>3 DEF ToSet
  <2> QED BY <1>4, <2>5, <2>6 DEF poll
<1>5. CASE parseSnapshot
  <2>1. Len(processingQueue') <= MaxQueue /\ inHand' \in Snap \cup {NoSnap}
    BY <1>0, <1>5, NextOfQueueCounts DEF parseSnapshot
  <2> QED BY <1>5, <2>1 DEF parseSnapshot
<1>6. CASE recordSnapshot
  <2>1. Len(processingQueue') <= MaxQueue /\ inHand' \in Snap \cup {NoSnap}
    BY <1>6, ThrowOutCounts DEF recordSnapshot
  <2>2. excused' \subseteq Snap \X Time
    <3>1. inHand \in Snap
      BY <1>0, <1>6 DEF recordSnapshot, LoopTypes
    <3>2. mtime[inHand] \in Time
      BY <1>0, <3>1 DEF SnapshotTypes
    <3>3. excused' = excused \/ excused' = excused \cup {<<inHand, mtime[inHand]>>}
      BY <1>6, Zenon DEF recordSnapshot
    <3> QED BY <3>1, <3>2, <3>3
  <2> QED BY <1>6, <2>1, <2>2 DEF recordSnapshot
<1>7. CASE saveRecord
  <2>1. Len(processingQueue') <= MaxQueue /\ inHand' \in Snap \cup {NoSnap}
    BY <1>7, ThrowOutCounts DEF saveRecord
  <2>2. refusals' \in 0..MaxRefusals /\ cutOff' = cutOff
    BY <1>0, <1>7 DEF saveRecord, SnapshotBounds
  <2> QED BY <1>7, <2>1, <2>2 DEF saveRecord
<1>8. CASE handOver
  BY <1>8 DEF handOver
<1>9. CASE analysisEnds
  <2>1. Len(processingQueue') <= MaxQueue /\ inHand' \in Snap \cup {NoSnap}
    BY <1>0, <1>9, NextOfQueueCounts DEF analysisEnds
  <2> QED BY <1>9, <2>1 DEF analysisEnds
<1>10. CASE watcherDies
  <2>1. excused' \subseteq Snap \X Time
    <3>1. at = "hand" => inHand \in Snap /\ processed[inHand] \in Time
      BY <1>0 DEF LoopTypes, SnapshotTypes
    <3>2. IF at = "hand" THEN excused' = excused \cup {<<inHand, processed[inHand]>>} ELSE excused' = excused
      BY <1>10, Zenon DEF watcherDies
    <3> QED BY <3>1, <3>2
  <2>2. Len(processingQueue') <= MaxQueue /\ inHand' \in Snap \cup {NoSnap}
    BY <1>0, <1>10 DEF watcherDies, atRest, SnapshotBounds
  <2>3. cutOff' \in BOOLEAN
    BY <1>10, Zenon DEF watcherDies
  <2>4. deaths' \in 0..MaxDeaths
    BY <1>0, <1>10 DEF watcherDies, SnapshotBounds
  <2> QED BY <1>10, <2>1, <2>2, <2>3, <2>4 DEF watcherDies
<1>11. CASE UNCHANGED snapshotVars
  BY <1>11 DEF snapshotVars
<1> HIDE DEF SnapshotCounts
<1> QED
  BY <1>1, <1>2, <1>3, <1>4, <1>5, <1>6, <1>7, <1>8, <1>9, <1>10, <1>11 DEF SnapshotNext, loopStep

LEMMA SnapshotCountsStart == SnapshotInit => SnapshotCounts
<1> SUFFICES ASSUME SnapshotInit PROVE SnapshotCounts
  OBVIOUS
<1>1. cutOff \in BOOLEAN
  BY Zenon DEF SnapshotInit
<1> QED BY <1>1, SnapshotAssumption DEF SnapshotInit, SnapshotCounts

LEMMA SnapshotTypesHere == RepeatInvariant /\ SnapshotCounts => SnapshotTypeOK
<1> SUFFICES ASSUME RepeatInvariant, SnapshotCounts PROVE SnapshotTypeOK
  OBVIOUS
<1>1. SnapshotTypes /\ LoopTypes
  BY DEF RepeatInvariant
<1>2. {recordFile, processed} \subseteq [Snap -> Time] /\ {readableRecord, cutOff, thrown} \subseteq BOOLEAN
  BY <1>1, Zenon DEF SnapshotTypes, SnapshotCounts
<1>3. handed \cup excused \subseteq Snap \X Time
  BY <1>1 DEF LoopTypes, SnapshotCounts
<1> QED BY <1>1, <1>2, <1>3, Zenon DEF SnapshotTypes, LoopTypes, SnapshotCounts, SnapshotTypeOK

LEMMA SnapshotTypesAlways == SnapshotSpec => []SnapshotTypeOK
<1>1. RepeatInvariant /\ SnapshotCounts /\ [SnapshotNext]_snapshotVars => SnapshotCounts'
  BY SnapshotCountsStep
<1> QED BY <1>1, RepeatInvariantAlways, SnapshotCountsStart, SnapshotTypesHere, PTL
        DEF SnapshotSpec

LibraryCounts == twice \subseteq analysed /\ libDeaths \in 0..MaxLibDeaths /\ libErrors \in 0..MaxLibErrors

LEMMA LibraryCountsStart == LibraryInit => LibraryCounts
BY LibraryAssumption DEF LibraryInit, LibraryCounts

LEMMA LibraryCountsStep == LibraryCounts /\ [LibraryNext]_libVars => LibraryCounts'
<1> SUFFICES ASSUME LibraryCounts, [LibraryNext]_libVars PROVE LibraryCounts'
  OBVIOUS
<1>0. MaxLibDeaths \in Nat /\ MaxLibErrors \in Nat
  BY LibraryAssumption
<1> USE DEF LibraryCounts
<1>1. ASSUME NEW p \in Poll, NEW x \in newSnapshots[p], runAnalyzer(p, x) PROVE LibraryCounts'
  BY <1>0, <1>1 DEF runAnalyzer
<1>2. CASE libraryDies
  BY <1>0, <1>2 DEF libraryDies
<1>3. ASSUME UNCHANGED <<analysed, twice, libDeaths, libErrors>> PROVE LibraryCounts'
  BY <1>3
<1>4. ASSUME NEW s \in LibSnap, LibraryWrites(s) PROVE LibraryCounts'
  BY <1>3, <1>4 DEF LibraryWrites
<1>5. ASSUME NEW p \in Poll, processSnapshots(p) \/ savePoll(p) PROVE LibraryCounts'
  BY <1>3, <1>5 DEF processSnapshots, savePoll
<1>6. CASE UNCHANGED libVars
  BY <1>3, <1>6 DEF libVars
<1> HIDE DEF LibraryCounts
<1> QED BY <1>1, <1>2, <1>4, <1>5, <1>6 DEF LibraryNext, pollStep

LEMMA LibraryTypesHere == LibraryInvariant /\ LibraryCounts => LibraryTypeOK
BY Zenon DEF LibraryInvariant, LibraryTypes, LibraryCounts, LibraryTypeOK

LEMMA LibraryTypesAlways == LibrarySpec => []LibraryTypeOK
<1> QED BY LibraryInvariantIsInductive, LibraryCountsStart, LibraryCountsStep, LibraryTypesHere, PTL
        DEF LibrarySpec
=============================================================================
