------------------------- MODULE ConfigStore_proofs -------------------------
(* Proofs about ConfigStore, for every set of writers and edits by hand.   *)
EXTENDS ConfigStore, TLAPS

USE FamilyAssumption, NoneAssumption, LoaderAssumption

(* There is always an address for a new Config object.                     *)
EnoughObjects ==
    /\ Objects # {}
    /\ \A o \in Objects, f \in [Writers -> Objects \cup {None}] :
        \E x \in Objects : x # o /\ \A w \in Writers : f[w] # x

LEMMA FreshObject ==
    ASSUME EnoughObjects, TypeOK
    PROVE  Fresh \in Objects /\ Fresh \notin Reachable
<1>1. \E x \in Objects : x # config /\ \A w \in Writers : ptr[w] # x
  BY DEF EnoughObjects, TypeOK
<1>2. \E x \in Objects : x \notin Reachable
  BY <1>1 DEF Reachable
<1> QED BY <1>2 DEF Fresh

(***************************************************************************)
(* Types.  Inside Load the store's lock is held and the file's contents    *)
(* are at hand, and until it is done with it the watcher has the time it   *)
(* polled.                                                                 *)
(***************************************************************************)
LoadSteps == {"loaded", "normalise", "restat"}
StoreHeld ==
    \A p \in Loaders :
        /\ pc[p] \in LoadSteps \cup {"stat"} => storeMu = p
        /\ pc[p] \in LoadSteps => data \in Contents
PolledHeld ==
    pc[Watcher] \in {"compare", "read", "hash", "touch"} => polled \in {"current", "past"}
TypeInv == TypeOK /\ StoreHeld /\ PolledHeld

(* What a finished load leaves behind.                                     *)
LEMMA AdoptTypes ==
    ASSUME EnoughObjects, TypeInv, NEW p \in Loaders, pc[p] \in LoadSteps, Adopt(p)
    PROVE  /\ heap' \in [Objects -> SUBSET (Writers \cup HandEdits)]
           /\ config' \in Objects
           /\ ptr' \in [Writers -> Objects \cup {None}]
           /\ pc' = [pc EXCEPT ![p] = IF p \in Writers THEN "change" ELSE "idle"]
           /\ storeMu' = None
           /\ data' = Nothing
           /\ UNCHANGED <<managerMu, status>>
           /\ \A w \in Writers : w = p \/ ptr[w] # None => ptr'[w] # None
<1>1. Fresh \in Objects
  BY FreshObject DEF TypeInv
<1>2. data.changes \in SUBSET (Writers \cup HandEdits)
  BY DEF TypeInv, StoreHeld, Contents
<1>3. heap' \in [Objects -> SUBSET (Writers \cup HandEdits)]
  BY <1>2 DEF Adopt, Allocate, TypeInv, TypeOK
<1> QED BY <1>1, <1>3 DEF Adopt, Goto, TypeInv, TypeOK

LEMMA LoadTypes ==
    ASSUME EnoughObjects, TypeInv, NEW p \in Loaders, Load(p)
    PROVE  TypeInv'
<1> USE DEF TypeInv
<1>1. CASE LoadRead(p)
  <2>1. TypeOK'
    BY <1>1 DEF LoadRead, Goto, TypeOK, writer, watch
  <2>2. StoreHeld'
    BY <1>1 DEF LoadRead, Goto, TypeOK, StoreHeld, LoadSteps, Loaders
  <2>3. PolledHeld'
    BY <1>1 DEF LoadRead, Goto, TypeOK, PolledHeld, watch, Loaders
  <2> QED BY <2>1, <2>2, <2>3
<1>2. CASE LoadStat(p)
  <2>1. /\ pc[p] = "loaded" /\ lastStamp' = "current"
        /\ UNCHANGED <<disk, lastHash, watch, raced>>
    BY <1>2 DEF LoadStat
  <2>2. CASE Adopt(p)
    <3>1. /\ heap' \in [Objects -> SUBSET (Writers \cup HandEdits)]
          /\ config' \in Objects
          /\ ptr' \in [Writers -> Objects \cup {None}]
          /\ pc' = [pc EXCEPT ![p] = IF p \in Writers THEN "change" ELSE "idle"]
          /\ storeMu' = None /\ data' = Nothing /\ UNCHANGED <<managerMu, status>>
          /\ \A w \in Writers : w = p \/ ptr[w] # None => ptr'[w] # None
      BY <2>1, <2>2, AdoptTypes DEF LoadSteps
    <3>2. TypeOK'
      BY <2>1, <3>1 DEF TypeOK, watch, Loaders
    <3>3. StoreHeld' /\ PolledHeld'
      BY <2>1, <3>1 DEF TypeOK, StoreHeld, PolledHeld, LoadSteps, watch, Loaders
    <3> QED BY <3>2, <3>3
  <2>3. CASE Goto(p, "normalise") /\ UNCHANGED <<heap, config, locks, writer, data>>
    BY <2>1, <2>3 DEF Goto, TypeOK, StoreHeld, PolledHeld, LoadSteps, locks, writer, watch, Loaders
  <2>4. CASE /\ storeMu' = None /\ data' = Nothing /\ UNCHANGED <<heap, config>>
             /\ IF p \in Writers THEN Finish(p, "failed")
                ELSE Goto(p, "idle") /\ UNCHANGED <<managerMu, writer>>
    <3>1. /\ pc' = [pc EXCEPT ![p] = "idle"]
          /\ managerMu' \in Writers \cup {None}
          /\ status' \in [Writers -> {"new", "pending", "done", "failed", "unknown"}]
          /\ ptr' \in [Writers -> Objects \cup {None}]
          /\ \A w \in Writers : w # p => ptr'[w] = ptr[w]
      BY <2>4 DEF Finish, Goto, TypeOK, writer
    <3>2. TypeOK'
      BY <2>1, <2>4, <3>1 DEF TypeOK, watch, Loaders
    <3>3. StoreHeld' /\ PolledHeld'
      BY <2>1, <2>4, <3>1 DEF TypeOK, StoreHeld, PolledHeld, LoadSteps, watch, Loaders
    <3> QED BY <3>2, <3>3
  <2> QED BY <1>2, <2>2, <2>3, <2>4 DEF LoadStat
<1>3. CASE Normalise(p)
  <2>1. pc[p] = "normalise" /\ UNCHANGED <<seen, raced>>
    BY <1>3 DEF Normalise
  <2>2. CASE /\ WriteFile(Written(data.changes)) /\ lastHash' = disk' /\ Goto(p, "restat")
             /\ UNCHANGED <<heap, config, locks, writer, data>>
    <3>1. disk' \in Contents
      BY <2>1, <2>2 DEF StoreHeld, LoadSteps, WriteFile, Written, Contents
    <3>2. /\ lastStamp' \in {"current", "polled", "past"}
          /\ polled' \in {None, "current", "past"}
          /\ polled \in {"current", "past"} => polled' \in {"current", "past"}
      BY <2>2 DEF WriteFile, TypeOK
    <3>3. TypeOK'
      BY <2>1, <2>2, <3>1, <3>2 DEF Goto, TypeOK, locks, writer, Loaders
    <3>4. StoreHeld' /\ PolledHeld'
      BY <2>1, <2>2, <3>2 DEF Goto, TypeOK, StoreHeld, PolledHeld, LoadSteps, locks, Loaders
    <3> QED BY <3>3, <3>4
  <2>3. CASE Adopt(p) /\ UNCHANGED <<disk, lastHash, lastStamp, polled>>
    <3>1. /\ heap' \in [Objects -> SUBSET (Writers \cup HandEdits)]
          /\ config' \in Objects
          /\ ptr' \in [Writers -> Objects \cup {None}]
          /\ pc' = [pc EXCEPT ![p] = IF p \in Writers THEN "change" ELSE "idle"]
          /\ storeMu' = None /\ data' = Nothing /\ UNCHANGED <<managerMu, status>>
          /\ \A w \in Writers : w = p \/ ptr[w] # None => ptr'[w] # None
      BY <2>1, <2>3, AdoptTypes DEF LoadSteps
    <3>2. TypeOK'
      BY <2>1, <2>3, <3>1 DEF TypeOK, Loaders
    <3>3. StoreHeld' /\ PolledHeld'
      BY <2>1, <2>3, <3>1 DEF TypeOK, StoreHeld, PolledHeld, LoadSteps, Loaders
    <3> QED BY <3>2, <3>3
  <2> QED BY <1>3, <2>2, <2>3 DEF Normalise
<1>4. CASE Restat(p)
  <2>1. /\ pc[p] = "restat" /\ lastStamp' = "current" /\ Adopt(p)
        /\ UNCHANGED <<disk, lastHash, watch, raced>>
    BY <1>4 DEF Restat
  <2>2. /\ heap' \in [Objects -> SUBSET (Writers \cup HandEdits)]
        /\ config' \in Objects
        /\ ptr' \in [Writers -> Objects \cup {None}]
        /\ pc' = [pc EXCEPT ![p] = IF p \in Writers THEN "change" ELSE "idle"]
        /\ storeMu' = None /\ data' = Nothing /\ UNCHANGED <<managerMu, status>>
        /\ \A w \in Writers : w = p \/ ptr[w] # None => ptr'[w] # None
    BY <2>1, AdoptTypes DEF LoadSteps
  <2>3. TypeOK'
    BY <2>1, <2>2 DEF TypeOK, watch, Loaders
  <2>4. StoreHeld' /\ PolledHeld'
    BY <2>1, <2>2 DEF TypeOK, StoreHeld, PolledHeld, LoadSteps, watch, Loaders
  <2> QED BY <2>3, <2>4
<1> QED BY <1>1, <1>2, <1>3, <1>4 DEF Load

LEMMA WriterTypes ==
    ASSUME EnoughObjects, TypeInv, NEW w \in Writers,
           Start(w) \/ Change(w) \/ Save(w) \/ SaveStat(w)
    PROVE  TypeInv'
<1> USE DEF TypeInv
<1>1. CASE Start(w)
  <2>1. /\ UNCHANGED <<disk, store, storeMu, data, watch, raced>>
        /\ status' \in [Writers -> {"new", "pending", "done", "failed", "unknown"}]
    BY <1>1 DEF Start, TypeOK
  <2>2. /\ ptr' \in [Writers -> Objects \cup {None}] /\ managerMu' \in Writers \cup {None}
        /\ \/ pc' = [pc EXCEPT ![w] = "load"] /\ ptr' = ptr
           \/ pc' = [pc EXCEPT ![w] = "change"] /\ ptr' = [ptr EXCEPT ![w] = config]
    BY <1>1 DEF Start, TypeOK, Goto
  <2>3. TypeOK'
    BY <2>1, <2>2 DEF TypeOK, store, watch, Loaders
  <2>4. StoreHeld' /\ PolledHeld'
    BY <2>1, <2>2 DEF TypeOK, StoreHeld, PolledHeld, LoadSteps, watch, Loaders
  <2> QED BY <2>3, <2>4
<1>2. CASE Change(w)
  <2>1. /\ pc[w] = "change" /\ pc' = [pc EXCEPT ![w] = "save"]
        /\ UNCHANGED <<disk, config, lastHash, lastStamp, locks, status, data, watch, raced>>
    BY <1>2 DEF Change, Goto
  <2>2. ptr[w] \in Objects
    BY <2>1 DEF TypeOK
  <2>3. /\ heap' \in [Objects -> SUBSET (Writers \cup HandEdits)]
        /\ ptr' \in [Writers -> Objects \cup {None}]
        /\ \A v \in Writers : ptr[v] # None => ptr'[v] # None
    BY <1>2, <2>2, FreshObject DEF Change, Allocate, TypeOK
  <2>4. TypeOK'
    BY <2>1, <2>2, <2>3 DEF TypeOK, locks, watch, Loaders
  <2>5. StoreHeld' /\ PolledHeld'
    BY <2>1 DEF TypeOK, StoreHeld, PolledHeld, LoadSteps, locks, watch, Loaders
  <2> QED BY <2>4, <2>5
<1>3. CASE Save(w)
  <2>1. pc[w] = "save" /\ storeMu = None /\ UNCHANGED <<heap, data, seen, raced>>
    BY <1>3 DEF Save
  <2>2. ptr[w] \in Objects
    BY <2>1 DEF TypeOK
  <2>3. CASE /\ storeMu' = w /\ WriteFile(Written(heap[ptr[w]])) /\ config' = ptr[w]
             /\ lastHash' = disk' /\ Goto(w, "stat") /\ UNCHANGED <<managerMu, writer>>
    <3>1. disk' \in Contents
      BY <2>2, <2>3 DEF WriteFile, Written, Contents, TypeOK
    <3>2. /\ lastStamp' \in {"current", "polled", "past"}
          /\ polled' \in {None, "current", "past"}
          /\ polled \in {"current", "past"} => polled' \in {"current", "past"}
      BY <2>3 DEF WriteFile, TypeOK
    <3>3. TypeOK'
      BY <2>1, <2>2, <2>3, <3>1, <3>2 DEF Goto, TypeOK, writer, Loaders
    <3>4. StoreHeld' /\ PolledHeld'
      BY <2>1, <2>3, <3>2 DEF Goto, TypeOK, StoreHeld, PolledHeld, LoadSteps, Loaders
    <3> QED BY <3>3, <3>4
  <2>4. CASE /\ Finish(w, "failed")
             /\ UNCHANGED <<disk, config, lastHash, lastStamp, polled, storeMu>>
    BY <2>1, <2>4 DEF Finish, Goto, TypeOK, StoreHeld, PolledHeld, LoadSteps, Loaders
  <2> QED BY <1>3, <2>3, <2>4 DEF Save
<1>4. CASE SaveStat(w)
  <2>1. /\ pc[w] = "stat" /\ lastStamp' = "current" /\ storeMu' = None /\ Finish(w, "done")
        /\ UNCHANGED <<disk, heap, config, lastHash, data, watch, raced>>
    BY <1>4 DEF SaveStat
  <2> QED BY <2>1 DEF Finish, Goto, TypeOK, StoreHeld, PolledHeld, LoadSteps, watch, Loaders
<1> QED BY <1>1, <1>2, <1>3, <1>4

LEMMA WatchTypes ==
    ASSUME TypeInv, Watch
    PROVE  TypeInv'
<1> USE DEF TypeInv
<1>1. CASE Poll
  BY <1>1 DEF Poll, Goto, TypeOK, StoreHeld, PolledHeld, LoadSteps, store, locks, writer, Loaders
<1>2. CASE Compare
  BY <1>2 DEF Compare, ForgetPolled, Goto, TypeOK, StoreHeld, PolledHeld, LoadSteps, locks, writer,
              Loaders
<1>3. CASE ReadFile
  BY <1>3 DEF ReadFile, Goto, TypeOK, StoreHeld, PolledHeld, LoadSteps, store, locks, writer, Loaders
<1>4. CASE CompareHash
  BY <1>4 DEF CompareHash, ForgetPolled, Goto, TypeOK, StoreHeld, PolledHeld, LoadSteps, locks,
              writer, Loaders
<1>5. CASE Touch
  BY <1>5 DEF Touch, Goto, TypeOK, StoreHeld, PolledHeld, LoadSteps, locks, writer, Loaders
<1> QED BY <1>1, <1>2, <1>3, <1>4, <1>5 DEF Watch

LEMMA OutsideTypes ==
    ASSUME EnoughObjects, TypeInv,
           \/ StartReading
           \/ \E x \in HandEdits, form \in {"normal", "old", "broken"} : EditByHand(x, form)
           \/ Restart
    PROVE  TypeInv'
<1> USE DEF TypeInv
<1>1. CASE StartReading
  BY <1>1 DEF StartReading, Goto, TypeOK, StoreHeld, PolledHeld, LoadSteps, store, locks, writer,
              watch, Loaders
<1>2. ASSUME NEW x \in HandEdits, NEW form \in {"normal", "old", "broken"}, EditByHand(x, form)
      PROVE  TypeInv'
  <2>1. disk' \in Contents
    BY <1>2 DEF EditByHand, WriteFile, TypeOK, Contents
  <2> QED
    BY <1>2, <2>1 DEF EditByHand, WriteFile, TypeOK, StoreHeld, PolledHeld, locks, writer
<1>3. CASE Restart
  <2>1. disk' \in Contents
    BY <1>3 DEF Restart, Written, TypeOK, Contents
  <2>2. config' \in Objects
    BY <1>3 DEF Restart, EnoughObjects
  <2>3. heap' \in [Objects -> SUBSET (Writers \cup HandEdits)]
    BY <1>3 DEF Restart, TypeOK, Contents
  <2> QED
    BY <1>3, <2>1, <2>2, <2>3 DEF Restart, TypeOK, StoreHeld, PolledHeld, LoadSteps, Loaders
<1> QED BY <1>1, <1>2, <1>3

LEMMA Types == ASSUME EnoughObjects PROVE Spec => []TypeInv
<1>1. Init => TypeInv
  <2> SUFFICES ASSUME Init PROVE TypeInv
    OBVIOUS
  <2>1. config \in Objects
    BY DEF Init, EnoughObjects
  <2> QED
    BY <2>1 DEF Init, TypeInv, TypeOK, StoreHeld, PolledHeld, LoadSteps, Loaders, Contents, Written
<1>2. TypeInv /\ [Next]_vars => TypeInv'
  <2>1. TypeInv /\ UNCHANGED vars => TypeInv'
    BY DEF vars, store, locks, writer, watch, TypeInv, TypeOK, StoreHeld, PolledHeld
  <2> QED BY <2>1, LoadTypes, WriterTypes, WatchTypes, OutsideTypes DEF Next
<1> QED BY <1>1, <1>2, PTL DEF Spec

(* Every reachable state of the store, its file and those who use them has *)
(* its type.                                                               *)
THEOREM StoreTyped == ASSUME EnoughObjects PROVE Spec => []TypeOK
<1>1. TypeInv => TypeOK
  BY DEF TypeInv
<1> QED BY <1>1, Types, PTL

-----------------------------------------------------------------------------
(***************************************************************************)
(* When every change is made under the manager's lock, the file, the       *)
(* current object, what a load under way has read, and the object of the   *)
(* writer at work all contain every change reported as made: whoever       *)
(* writes the file next, none is lost.                                     *)
(***************************************************************************)
Locked == \A w \in Writers : Family[w] # "loaded"
Busy == {"change", "save", "stat"}
Holds(changes) == \A w \in Writers : status[w] = "done" => w \in changes

OneAtWork ==
    \A w \in Writers :
        /\ pc[w] \in Busy \cup {"idle"}
        /\ pc[w] \in Busy => managerMu = w /\ status[w] = "pending"
        /\ pc[w] \in {"save", "stat"} => w \in heap[ptr[w]]
        /\ pc[w] = "stat" => config = ptr[w] /\ w \in disk.changes
Kept ==
    /\ Holds(disk.changes)
    /\ Holds(heap[config])
    /\ \A p \in Loaders : pc[p] \in LoadSteps => Holds(data.changes)
    /\ \A w \in Writers : pc[w] \in Busy => Holds(heap[ptr[w]])
UpdateInv == TypeInv /\ OneAtWork /\ Kept

LEMMA UpdateStep ==
    ASSUME EnoughObjects, Locked, UpdateInv, TypeInv', [Next]_vars
    PROVE  UpdateInv'
<1> USE DEF UpdateInv, TypeInv
<1>1. ASSUME NEW p \in Loaders, Load(p) PROVE UpdateInv'
  <2>1. p \notin Writers
    BY <1>1 DEF Load, LoadRead, LoadStat, Normalise, Restat, OneAtWork, Busy
  <2>2. CASE LoadRead(p)
    BY <2>1, <2>2 DEF LoadRead, Goto, TypeOK, OneAtWork, Kept, Holds, Busy, LoadSteps, writer, Loaders
  <2>3. CASE Adopt(p) /\ pc[p] \in LoadSteps /\ UNCHANGED disk
    <3>1. /\ Fresh \in Objects /\ Fresh \notin Reachable
          /\ config' = Fresh /\ UNCHANGED <<ptr, managerMu, status, disk>>
          /\ pc' = [pc EXCEPT ![p] = "idle"]
          /\ heap'[Fresh] = data.changes
          /\ \A o \in Reachable \cap Objects : heap'[o] = heap[o]
      BY <2>1, <2>3, FreshObject DEF Adopt, Allocate, Goto
    <3>2. \A w \in Writers : pc[w] \in Busy => ptr[w] \in Reachable \cap Objects
      BY DEF TypeOK, Reachable, Busy
    <3>3. \A w \in Writers : pc[w] # "stat"
      BY <2>1, <2>3 DEF StoreHeld, Loaders
    <3>4. OneAtWork'
      BY <2>1, <3>1, <3>2, <3>3 DEF OneAtWork, TypeOK, Busy, Loaders
    <3>5. Kept'
      BY <2>1, <2>3, <3>1, <3>2 DEF Kept, Holds, StoreHeld, TypeOK, Busy, LoadSteps, Loaders
    <3> QED BY <3>4, <3>5
  <2>4. CASE LoadStat(p)
    <3>1. CASE Goto(p, "normalise") /\ UNCHANGED <<heap, config, locks, writer, data>>
      BY <2>1, <2>4, <3>1
         DEF LoadStat, Goto, TypeOK, OneAtWork, Kept, Holds, Busy, LoadSteps, locks, writer, Loaders
    <3>2. CASE Goto(p, "idle") /\ UNCHANGED <<managerMu, writer, heap, config>>
      BY <2>1, <2>4, <3>2
         DEF LoadStat, Goto, TypeOK, OneAtWork, Kept, Holds, StoreHeld, Busy, LoadSteps, writer, Loaders
    <3> QED BY <2>1, <2>3, <2>4, <3>1, <3>2 DEF LoadStat, LoadSteps
  <2>5. CASE Normalise(p)
    <3>1. CASE /\ WriteFile(Written(data.changes)) /\ Goto(p, "restat")
               /\ UNCHANGED <<heap, config, locks, writer, data>>
      <4>1. disk'.changes = data.changes /\ pc[p] \in LoadSteps /\ storeMu = p
        BY <2>5, <3>1 DEF WriteFile, Written, Normalise, LoadSteps, StoreHeld
      <4>2. \A w \in Writers : pc[w] # "stat"
        BY <2>1, <4>1 DEF StoreHeld, Loaders
      <4> QED
        BY <2>1, <3>1, <4>1, <4>2
           DEF Goto, TypeOK, OneAtWork, Kept, Holds, Busy, LoadSteps, locks, writer, Loaders
    <3> QED BY <2>3, <2>5, <3>1 DEF Normalise, LoadSteps
  <2>6. CASE Restat(p)
    BY <2>3, <2>6 DEF Restat, LoadSteps
  <2> QED BY <1>1, <2>2, <2>4, <2>5, <2>6 DEF Load
<1>2. ASSUME NEW w \in Writers, Start(w) PROVE UpdateInv'
  <2>1. /\ status[w] = "new" /\ managerMu = None /\ managerMu' = w
        /\ status' = [status EXCEPT ![w] = "pending"]
        /\ ptr' = [ptr EXCEPT ![w] = config] /\ pc' = [pc EXCEPT ![w] = "change"]
        /\ UNCHANGED <<disk, heap, config, data>>
    BY <1>2 DEF Start, Goto, Locked, store
  <2>2. \A v \in Writers : pc[v] \notin Busy
    BY <2>1 DEF OneAtWork, Loaders
  <2> QED
    BY <2>1, <2>2 DEF TypeOK, OneAtWork, Kept, Holds, Busy, LoadSteps, Loaders
<1>3. ASSUME NEW w \in Writers, pc[w] \in Busy
      PROVE  managerMu = w /\ status[w] = "pending" /\ \A v \in Writers : v # w => pc[v] \notin Busy
  BY <1>3 DEF OneAtWork
<1>4. ASSUME NEW w \in Writers, Change(w) PROVE UpdateInv'
  <2>1. /\ pc[w] = "change" /\ pc' = [pc EXCEPT ![w] = "save"]
        /\ UNCHANGED <<disk, config, locks, status, data>>
    BY <1>4 DEF Change, Goto
  <2>2. /\ ptr[w] \in Objects /\ ptr[w] \in Reachable /\ config \in Reachable
        /\ Fresh \in Objects /\ Fresh \notin Reachable
    BY <2>1, FreshObject DEF TypeOK, Reachable
  <2>3. /\ heap'[ptr'[w]] = heap[ptr[w]] \cup {w}
        /\ heap[config] \subseteq heap'[config]
    BY <1>4, <2>2 DEF Change, Allocate, TypeOK
  <2>4. OneAtWork'
    BY <2>1, <2>3, <1>3 DEF OneAtWork, TypeOK, Busy, locks, Loaders
  <2>5. Kept'
    BY <2>1, <2>3, <1>3 DEF Kept, Holds, TypeOK, Busy, LoadSteps, locks, Loaders
  <2> QED BY <2>4, <2>5
<1>5. ASSUME NEW w \in Writers, Save(w) PROVE UpdateInv'
  <2>1. /\ pc[w] = "save" /\ storeMu = None /\ UNCHANGED <<heap, data>>
        /\ w \in heap[ptr[w]] /\ Holds(heap[ptr[w]])
        /\ \A p \in Loaders : pc[p] \notin LoadSteps
    BY <1>5 DEF Save, OneAtWork, Kept, Busy, StoreHeld, Loaders, LoadSteps
  <2>2. CASE /\ WriteFile(Written(heap[ptr[w]])) /\ config' = ptr[w]
             /\ Goto(w, "stat") /\ UNCHANGED <<managerMu, writer>>
    BY <2>1, <2>2, <1>3
       DEF WriteFile, Written, Goto, TypeOK, OneAtWork, Kept, Holds, Busy, LoadSteps, writer, Loaders
  <2>3. CASE Finish(w, "failed") /\ UNCHANGED <<disk, config>>
    BY <2>1, <2>3, <1>3
       DEF Finish, Goto, TypeOK, OneAtWork, Kept, Holds, Busy, LoadSteps, Loaders
  <2> QED BY <1>5, <2>2, <2>3 DEF Save
<1>6. ASSUME NEW w \in Writers, SaveStat(w) PROVE UpdateInv'
  <2>1. /\ pc[w] = "stat" /\ Finish(w, "done") /\ UNCHANGED <<disk, heap, config, data>>
        /\ w \in disk.changes /\ w \in heap[config] /\ storeMu = w
        /\ \A p \in Loaders : pc[p] \notin LoadSteps
    BY <1>6 DEF SaveStat, OneAtWork, StoreHeld, Loaders, LoadSteps
  <2> QED
    BY <2>1, <1>3 DEF Finish, Goto, TypeOK, OneAtWork, Kept, Holds, Busy, LoadSteps, Loaders
<1>7. CASE Watch \/ StartReading
  <2>1. \E p \in {Watcher, Reader}, step \in {"idle", "compare", "read", "hash", "touch", "load"} :
          pc' = [pc EXCEPT ![p] = step]
    BY <1>7 DEF Watch, Poll, Compare, ReadFile, CompareHash, Touch, StartReading, Goto
  <2>2. UNCHANGED <<disk, heap, config, managerMu, ptr, status, data>>
    BY <1>7 DEF Watch, Poll, Compare, ReadFile, CompareHash, Touch, StartReading, store, locks, writer
  <2> QED
    BY <2>1, <2>2 DEF TypeOK, OneAtWork, Kept, Holds, Busy, LoadSteps, Loaders
<1>8. ASSUME NEW x \in HandEdits, NEW form \in {"normal", "old", "broken"}, EditByHand(x, form)
      PROVE  UpdateInv'
  <2>1. disk'.changes = disk.changes \cup {x} /\ UNCHANGED <<heap, config, locks, pc, writer, data>>
    BY <1>8 DEF EditByHand, WriteFile
  <2> QED
    BY <2>1 DEF OneAtWork, Kept, Holds, locks, writer
<1>9. CASE Restart
  <2>1. /\ disk'.changes = disk.changes /\ heap'[config'] = disk.changes
        /\ pc' = [p \in Loaders |-> "idle"]
        /\ \A w \in Writers : status'[w] = "done" => status[w] = "done"
    BY <1>9 DEF Restart, Written, TypeOK
  <2> QED
    BY <2>1 DEF OneAtWork, Kept, Holds, Busy, LoadSteps, Loaders
<1>10. CASE UNCHANGED vars
  BY <1>10 DEF vars, store, locks, writer, watch, OneAtWork, Kept, Holds
<1> QED BY <1>1, <1>2, <1>4, <1>5, <1>6, <1>7, <1>8, <1>9, <1>10 DEF Next

(* When every change is made under the manager's lock, no change that was  *)
(* reported as made is ever lost from config.json, whatever the readers,   *)
(* the watcher, edits by hand, failing saves and restarts do meanwhile.    *)
THEOREM LockedUpdatesStay ==
    ASSUME EnoughObjects, Locked
    PROVE  Spec => []NoLostUpdate
<1>1. Init /\ TypeInv => UpdateInv
  BY DEF Init, UpdateInv, OneAtWork, Kept, Holds, Busy, LoadSteps, Loaders
<1>2. UpdateInv /\ TypeInv' /\ [Next]_vars => UpdateInv'
  BY UpdateStep
<1>3. UpdateInv => NoLostUpdate
  BY DEF UpdateInv, Kept, Holds, NoLostUpdate
<1>4. Spec => []TypeInv
  BY Types
<1> QED BY <1>1, <1>2, <1>3, <1>4, PTL DEF Spec

-----------------------------------------------------------------------------
(***************************************************************************)
(* A change that is made in a copy is, until it is saved, in no contents   *)
(* another save could write: not in the file, the current object, what a   *)
(* load under way has read, or the object of another writer.               *)
(***************************************************************************)
Unsaved(w) == status[w] \in {"new", "failed"} \/ pc[w] \in {"change", "save"}
Apart(w) ==
    /\ w \notin disk.changes
    /\ w \notin heap[config]
    /\ \A p \in Loaders : pc[p] \in LoadSteps => w \notin data.changes
    /\ \A v \in Writers : ptr[v] # None /\ (v # w \/ pc[w] = "change") => w \notin heap[ptr[v]]
CopyInv(w) ==
    /\ pc[w] \in Busy \cup {"idle"}
    /\ status[w] \in {"new", "failed"} => pc[w] = "idle" /\ ptr[w] = None
    /\ Unsaved(w) => Apart(w)

LEMMA CopyStep ==
    ASSUME EnoughObjects, TypeInv, NEW w \in Writers, Family[w] = "copied", CopyInv(w),
           [Next]_vars
    PROVE  CopyInv(w)'
<1> USE DEF TypeInv
<1>a. \A v \in Writers : ptr[v] \in Reachable /\ config \in Reachable
  BY DEF Reachable
<1>b. Fresh \in Objects /\ Fresh \notin Reachable
  BY FreshObject
<1>1. ASSUME NEW p \in Loaders, Load(p) PROVE CopyInv(w)'
  <2>1. p # w
    BY <1>1 DEF Load, LoadRead, LoadStat, Normalise, Restat, CopyInv, Busy
  <2>2. CASE LoadRead(p)
    BY <2>1, <2>2 DEF LoadRead, Goto, TypeOK, CopyInv, Unsaved, Apart, Busy, LoadSteps, writer, Loaders
  <2>3. CASE Adopt(p) /\ pc[p] \in LoadSteps /\ UNCHANGED disk
    <3>1. /\ config' = Fresh /\ heap'[Fresh] = data.changes /\ UNCHANGED <<status, disk>>
          /\ \A o \in Reachable \cap Objects : heap'[o] = heap[o]
          /\ pc' = [pc EXCEPT ![p] = IF p \in Writers THEN "change" ELSE "idle"]
          /\ ptr' = ptr \/ ptr' = [ptr EXCEPT ![p] = Fresh]
          /\ storeMu = p
      BY <1>b, <2>3 DEF Adopt, Allocate, Goto, StoreHeld
    <3>2. pc'[w] = pc[w] /\ ptr'[w] = ptr[w] /\ (Unsaved(w)' => Unsaved(w))
      BY <2>1, <3>1 DEF TypeOK, Unsaved, Loaders
    <3>3. \A q \in Loaders : pc'[q] \notin LoadSteps
      BY <3>1 DEF TypeOK, StoreHeld, LoadSteps
    <3>4. Unsaved(w)' => Apart(w)'
      BY <1>a, <2>3, <3>1, <3>2, <3>3 DEF CopyInv, Apart, TypeOK
    <3> QED BY <3>1, <3>2, <3>4 DEF CopyInv
  <2>4. CASE LoadStat(p)
    <3>1. CASE Goto(p, "normalise") /\ UNCHANGED <<heap, config, locks, writer, data>>
      BY <2>1, <2>4, <3>1
         DEF LoadStat, Goto, TypeOK, CopyInv, Unsaved, Apart, Busy, LoadSteps, locks, writer, Loaders
    <3>2. CASE /\ IF p \in Writers THEN Finish(p, "failed")
                  ELSE Goto(p, "idle") /\ UNCHANGED <<managerMu, writer>>
               /\ UNCHANGED <<heap, config>>
      <4>1. /\ pc' = [pc EXCEPT ![p] = "idle"] /\ UNCHANGED <<heap, config, disk>>
            /\ ptr' = ptr \/ ptr' = [ptr EXCEPT ![p] = None]
            /\ status' = status \/ status' = [status EXCEPT ![p] = "failed"]
            /\ pc[p] = "loaded"
        BY <2>4, <3>2 DEF LoadStat, Finish, Goto, writer
      <4>2. pc'[w] = pc[w] /\ ptr'[w] = ptr[w] /\ status'[w] = status[w]
        BY <2>1, <4>1 DEF TypeOK, Loaders
      <4>3. \A q \in Loaders : pc'[q] \notin LoadSteps
        BY <4>1 DEF TypeOK, StoreHeld, LoadSteps
      <4> QED BY <4>1, <4>2, <4>3 DEF CopyInv, Unsaved, Apart, TypeOK
    <3> QED BY <2>1, <2>3, <2>4, <3>1, <3>2 DEF LoadStat, LoadSteps
  <2>5. CASE Normalise(p)
    <3>1. CASE /\ WriteFile(Written(data.changes)) /\ Goto(p, "restat")
               /\ UNCHANGED <<heap, config, locks, writer, data>>
      <4>1. disk'.changes = data.changes /\ pc[p] \in LoadSteps
        BY <2>5, <3>1 DEF WriteFile, Written, Normalise, LoadSteps
      <4> QED
        BY <2>1, <3>1, <4>1
           DEF Goto, TypeOK, CopyInv, Unsaved, Apart, Busy, LoadSteps, locks, writer, Loaders
    <3> QED BY <2>3, <2>5, <3>1 DEF Normalise, LoadSteps
  <2>6. CASE Restat(p)
    BY <2>3, <2>6 DEF Restat, LoadSteps
  <2> QED BY <1>1, <2>2, <2>4, <2>5, <2>6 DEF Load
<1>2. ASSUME NEW v \in Writers, Start(v) PROVE CopyInv(w)'
  <2>1. /\ UNCHANGED <<disk, heap, config, data>> /\ status[v] = "new"
        /\ status' = [status EXCEPT ![v] = "pending"]
        /\ \/ v # w /\ ptr' = ptr /\ pc' = [pc EXCEPT ![v] = "load"]
           \/ ptr' = [ptr EXCEPT ![v] = config] /\ pc' = [pc EXCEPT ![v] = "change"]
    BY <1>2 DEF Start, Goto, store
  <2> QED
    BY <2>1 DEF TypeOK, CopyInv, Unsaved, Apart, Busy, LoadSteps, Loaders
<1>3. ASSUME NEW v \in Writers, Change(v) PROVE CopyInv(w)'
  <2>1. /\ pc[v] = "change" /\ pc' = [pc EXCEPT ![v] = "save"]
        /\ UNCHANGED <<disk, config, locks, status, data>> /\ ptr[v] \in Objects
    BY <1>3 DEF Change, Goto, TypeOK
  <2>2. CASE v = w
    <3>1. /\ ptr' = [ptr EXCEPT ![w] = Fresh]
          /\ \A o \in Reachable \cap Objects : heap'[o] = heap[o]
      BY <1>3, <1>b, <2>2 DEF Change, Allocate
    <3>2. Unsaved(w) /\ pc'[w] = "save"
      BY <2>1, <2>2 DEF Unsaved, TypeOK, Loaders
    <3>3. Apart(w)'
      BY <1>a, <2>1, <2>2, <3>1, <3>2 DEF CopyInv, Apart, TypeOK, LoadSteps, Loaders
    <3> QED BY <2>1, <2>2, <3>2, <3>3 DEF CopyInv, Busy
  <2>3. CASE v # w
    <3>1. /\ pc'[w] = pc[w] /\ ptr'[w] = ptr[w] /\ (Unsaved(w)' => Unsaved(w))
          /\ heap'[ptr'[v]] = heap[ptr[v]] \cup {v}
          /\ \A o \in Reachable \cap Objects : heap'[o] = heap[o] \/ heap'[o] = heap[o] \cup {v}
          /\ \A u \in Writers : u # v => ptr'[u] = ptr[u]
      BY <1>3, <1>a, <1>b, <2>1, <2>3 DEF Change, Allocate, Unsaved, TypeOK
    <3>2. Unsaved(w)' => Apart(w)'
      BY <1>a, <2>1, <2>3, <3>1 DEF CopyInv, Apart, TypeOK, LoadSteps, Loaders
    <3> QED BY <2>1, <3>1, <3>2 DEF CopyInv, Busy
  <2> QED BY <2>2, <2>3
<1>4. ASSUME NEW v \in Writers, Save(v) PROVE CopyInv(w)'
  <2>1. /\ pc[v] = "save" /\ UNCHANGED <<heap, data>> /\ ptr[v] \in Objects
    BY <1>4 DEF Save, TypeOK
  <2>2. CASE /\ WriteFile(Written(heap[ptr[v]])) /\ config' = ptr[v]
             /\ Goto(v, "stat") /\ UNCHANGED <<managerMu, writer>>
    BY <2>1, <2>2
       DEF WriteFile, Written, Goto, TypeOK, CopyInv, Unsaved, Apart, Busy, LoadSteps, writer, Loaders
  <2>3. CASE Finish(v, "failed") /\ UNCHANGED <<disk, config>>
    BY <2>1, <2>3 DEF Finish, Goto, TypeOK, CopyInv, Unsaved, Apart, Busy, LoadSteps, Loaders
  <2> QED BY <1>4, <2>2, <2>3 DEF Save
<1>5. ASSUME NEW v \in Writers, SaveStat(v) PROVE CopyInv(w)'
  BY <1>5 DEF SaveStat, Finish, Goto, TypeOK, CopyInv, Unsaved, Apart, Busy, LoadSteps, Loaders
<1>6. CASE Watch \/ StartReading
  <2>1. \E p \in {Watcher, Reader}, step \in {"idle", "compare", "read", "hash", "touch", "load"} :
          pc' = [pc EXCEPT ![p] = step]
    BY <1>6 DEF Watch, Poll, Compare, ReadFile, CompareHash, Touch, StartReading, Goto
  <2>2. UNCHANGED <<disk, heap, config, ptr, status, data>>
    BY <1>6 DEF Watch, Poll, Compare, ReadFile, CompareHash, Touch, StartReading, store, writer
  <2> QED
    BY <2>1, <2>2 DEF TypeOK, CopyInv, Unsaved, Apart, Busy, LoadSteps, Loaders
<1>7. ASSUME NEW x \in HandEdits, NEW form \in {"normal", "old", "broken"}, EditByHand(x, form)
      PROVE  CopyInv(w)'
  <2>1. disk'.changes = disk.changes \cup {x} /\ UNCHANGED <<heap, config, pc, writer, data>>
    BY <1>7 DEF EditByHand, WriteFile
  <2> QED
    BY <2>1, ChangeAssumption DEF CopyInv, Unsaved, Apart, writer
<1>8. CASE Restart
  <2>1. /\ disk'.changes = disk.changes /\ heap'[config'] = disk.changes
        /\ pc' = [p \in Loaders |-> "idle"] /\ ptr' = [v \in Writers |-> None]
        /\ status'[w] \in {"new", "failed"} => status[w] \in {"new", "failed"}
    BY <1>8 DEF Restart, Written, TypeOK, EnoughObjects
  <2> QED
    BY <2>1 DEF CopyInv, Unsaved, Apart, Busy, LoadSteps, Loaders
<1>9. CASE UNCHANGED vars
  BY <1>9 DEF vars, store, locks, writer, watch, CopyInv, Unsaved, Apart
<1> QED BY <1>1, <1>2, <1>3, <1>4, <1>5, <1>6, <1>7, <1>8, <1>9 DEF Next

(* A change made in a copy that was reported as failed, such as a new      *)
(* password whose save failed, is never in config.json, however the other  *)
(* writers make theirs.                                                    *)
THEOREM RejectedCopiesStayOut == ASSUME EnoughObjects PROVE Spec => []RejectedStaysOut
<1> DEFINE AllCopies == \A w \in Writers : Family[w] = "copied" => CopyInv(w)
<1>1. Init => AllCopies
  <2> SUFFICES ASSUME Init PROVE AllCopies
    OBVIOUS
  <2>1. config \in Objects /\ heap[config] = {}
    BY DEF Init, EnoughObjects
  <2> QED
    BY <2>1 DEF Init, Written, CopyInv, Unsaved, Apart, Busy, LoadSteps, Loaders
<1>2. AllCopies /\ TypeInv /\ [Next]_vars => AllCopies'
  BY CopyStep
<1>3. AllCopies => RejectedStaysOut
  BY DEF CopyInv, Unsaved, Apart, RejectedStaysOut
<1>4. Spec => []TypeInv
  BY Types
<1> HIDE DEF AllCopies
<1> QED BY <1>1, <1>2, <1>3, <1>4, PTL DEF Spec
=============================================================================
