---------------------------- MODULE ConfigStore ----------------------------
(***************************************************************************)
(* config.json and its copy in memory (internal/config/store.go), with the *)
(* ways the manager changes it, the readers that load it again, the        *)
(* watcher that polls the file, edits of the file by hand, failing saves   *)
(* and restarts.                                                           *)
(*                                                                         *)
(* A configuration is the set of changes made to it, each by one request   *)
(* to the manager or one edit by hand.  Config objects are shared: whoever *)
(* got the pointer sees what is changed through it.                        *)
(***************************************************************************)
EXTENDS Naturals, FiniteSets

CONSTANTS
    Writers,     \* requests that change the configuration, a goroutine and a change each
    Watcher,     \* StartWatcher's goroutine
    Reader,      \* a goroutine that loads the file only to read it
    HandEdits,   \* changes made to the file by hand
    Family,      \* how each writer makes its change, see Families
    Objects,     \* addresses of Config objects
    None

(* "shared": under the manager's lock, in the object everybody reads, like *)
(* AddNode.  "copied": under the lock, in a copy, like ChangePassword.     *)
(* "loaded": without the lock, in an object loaded for it, like SaveApp.   *)
Families == {"shared", "copied", "loaded"}
Loaders == Writers \cup {Watcher, Reader}

ASSUME FamilyAssumption == Family \in [Writers -> Families]
ASSUME NoneAssumption == None \notin Loaders \cup Objects
ASSUME LoaderAssumption == Watcher \notin Writers /\ Reader \notin Writers /\ Watcher # Reader
ASSUME ChangeAssumption == Writers \cap HandEdits = {}

VARIABLES
    disk,        \* config.json: its changes, whether it is "normal", "old" or "broken"
    heap,        \* the changes in each Config object
    config,      \* the store's pointer to the current object
    lastHash,    \* the contents last read or written
    lastStamp,   \* the modification time last seen: that of the file as it is, or
                 \* "polled", the one the watcher has found, or neither
    storeMu,     \* who holds the store's lock for writing
    managerMu,   \* who holds the manager's lock
    pc,          \* where each goroutine is
    ptr,         \* the object each writer works on
    data,        \* what the Load under way has read from the file
    polled,      \* the modification time the watcher found, if any: is it "current"
    seen,        \* the contents the watcher read
    status,      \* what each writer was told
    raced        \* has the file been edited between its contents and its time being taken

store == <<heap, config, lastHash, lastStamp>>
locks == <<storeMu, managerMu>>
writer == <<ptr, status>>
watch == <<polled, seen>>
vars == <<disk, store, locks, pc, writer, data, watch, raced>>

Contents == [changes : SUBSET (Writers \cup HandEdits), form : {"normal", "old", "broken"}]
Nothing == [form |-> "none"]
Written(changes) == [changes |-> changes, form |-> "normal"]

TypeOK ==
    /\ disk \in Contents
    /\ heap \in [Objects -> SUBSET (Writers \cup HandEdits)]
    /\ config \in Objects
    /\ lastHash \in Contents
    /\ lastStamp \in {"current", "polled", "past"}
    /\ storeMu \in Loaders \cup {None}
    /\ managerMu \in Writers \cup {None}
    /\ pc \in [Loaders -> {"idle", "load", "loaded", "normalise", "restat", "change", "save",
                           "stat", "compare", "read", "hash", "touch"}]
    /\ ptr \in [Writers -> Objects \cup {None}]
    /\ data \in Contents \cup {Nothing}
    /\ polled \in {None, "current", "past"}
    /\ seen \in Contents \cup {Nothing}
    /\ status \in [Writers -> {"new", "pending", "done", "failed", "unknown"}]
    /\ raced \in BOOLEAN
    /\ \A w \in Writers : pc[w] \in {"change", "save", "stat"} => ptr[w] # None

Init ==
    /\ disk = Written({})
    /\ heap = [o \in Objects |-> {}]
    /\ config = CHOOSE o \in Objects : TRUE
    /\ lastHash = disk
    /\ lastStamp = "current"
    /\ storeMu = None
    /\ managerMu = None
    /\ pc = [p \in Loaders |-> "idle"]
    /\ ptr = [w \in Writers |-> None]
    /\ data = Nothing
    /\ polled = None
    /\ seen = Nothing
    /\ status = [w \in Writers |-> "new"]
    /\ raced = FALSE

Goto(p, step) == pc' = [pc EXCEPT ![p] = step]

(* Objects nobody points to are garbage, and are allocated again.          *)
Reachable == {config} \cup {ptr[w] : w \in Writers}
Fresh == CHOOSE o \in Objects : o \notin Reachable
Allocate(changes) ==
    heap' = [o \in Objects |-> IF o = Fresh THEN changes ELSE IF o \in Reachable THEN heap[o] ELSE {}]

(* Every write gives the file a new time.                                  *)
WriteFile(contents) ==
    /\ disk' = contents
    /\ polled' = IF polled = "current" THEN "past" ELSE polled
    /\ lastStamp' = IF lastStamp # "current" THEN lastStamp
                    ELSE IF polled = "current" THEN "polled" ELSE "past"

SameTime ==
    \/ lastStamp = "current" /\ polled = "current"
    \/ lastStamp = "polled"

(* The watcher is done with the time it polled.                            *)
ForgetPolled == polled' = None /\ lastStamp' = IF lastStamp = "polled" THEN "past" ELSE lastStamp

(* A writer has its result, and drops its pointer and the manager's lock.  *)
Finish(w, result) ==
    /\ Goto(w, "idle")
    /\ status' = [status EXCEPT ![w] = result]
    /\ ptr' = [ptr EXCEPT ![w] = None]
    /\ managerMu' = IF managerMu = w THEN None ELSE managerMu

(***************************************************************************)
(* Load: read the file, then take its time, then parse; a file in an old   *)
(* form is saved in the normal one.                                        *)
(***************************************************************************)
LoadRead(p) ==
    /\ pc[p] = "load"
    /\ storeMu = None
    /\ storeMu' = p
    /\ data' = disk
    /\ lastHash' = disk
    /\ Goto(p, "loaded")
    /\ UNCHANGED <<disk, heap, config, lastStamp, managerMu, writer, watch, raced>>

(* The object that was read becomes the current one; a writer goes on with *)
(* it.                                                                     *)
Adopt(p) ==
    /\ Allocate(data.changes)
    /\ config' = Fresh
    /\ ptr' = IF p \in Writers THEN [ptr EXCEPT ![p] = Fresh] ELSE ptr
    /\ data' = Nothing
    /\ Goto(p, IF p \in Writers THEN "change" ELSE "idle")
    /\ storeMu' = None
    /\ UNCHANGED <<managerMu, status>>

LoadStat(p) ==
    /\ pc[p] = "loaded"
    /\ lastStamp' = "current"
    /\ \/ data.form = "normal" /\ Adopt(p)
       \/ /\ data.form = "old"
          /\ Goto(p, "normalise")
          /\ UNCHANGED <<heap, config, locks, writer, data>>
       \/ /\ data.form = "broken"
          /\ storeMu' = None
          /\ data' = Nothing
          /\ IF p \in Writers THEN Finish(p, "failed")
             ELSE Goto(p, "idle") /\ UNCHANGED <<managerMu, writer>>
          /\ UNCHANGED <<heap, config>>
    /\ UNCHANGED <<disk, lastHash, watch, raced>>

(* The error of this save is ignored.                                      *)
Normalise(p) ==
    /\ pc[p] = "normalise"
    /\ \/ /\ WriteFile(Written(data.changes))
          /\ lastHash' = disk'
          /\ Goto(p, "restat")
          /\ UNCHANGED <<heap, config, locks, writer, data>>
       \/ /\ Adopt(p)
          /\ UNCHANGED <<disk, lastHash, lastStamp, polled>>
    /\ UNCHANGED <<seen, raced>>

Restat(p) ==
    /\ pc[p] = "restat"
    /\ lastStamp' = "current"
    /\ Adopt(p)
    /\ UNCHANGED <<disk, lastHash, watch, raced>>

Load(p) == LoadRead(p) \/ LoadStat(p) \/ Normalise(p) \/ Restat(p)

StartReading ==
    /\ pc[Reader] = "idle"
    /\ Goto(Reader, "load")
    /\ UNCHANGED <<disk, store, locks, writer, data, watch, raced>>

(***************************************************************************)
(* Changing the configuration.                                             *)
(***************************************************************************)
(* A mutant: the manager's lock is not taken.                              *)
StartUnlocked(w) ==
    /\ status[w] = "new"
    /\ storeMu = None
    /\ status' = [status EXCEPT ![w] = "pending"]
    /\ ptr' = [ptr EXCEPT ![w] = config]
    /\ Goto(w, "change")
    /\ UNCHANGED <<disk, store, locks, data, watch, raced>>

Start(w) ==
    /\ status[w] = "new"
    /\ status' = [status EXCEPT ![w] = "pending"]
    /\ \/ /\ Family[w] = "loaded"
          /\ Goto(w, "load")
          /\ UNCHANGED <<ptr, managerMu>>
       \/ /\ Family[w] # "loaded"
          /\ managerMu = None
          /\ storeMu = None
          /\ managerMu' = w
          /\ ptr' = [ptr EXCEPT ![w] = config]
          /\ Goto(w, "change")
    /\ UNCHANGED <<disk, store, storeMu, data, watch, raced>>

(* A mutant: changes are made in the shared object, always.                *)
ChangeShared(w) ==
    /\ pc[w] = "change"
    /\ heap' = [heap EXCEPT ![ptr[w]] = @ \cup {w}]
    /\ Goto(w, "save")
    /\ UNCHANGED <<disk, config, lastHash, lastStamp, locks, writer, data, watch, raced>>

Change(w) ==
    /\ pc[w] = "change"
    /\ IF Family[w] = "copied"
       THEN /\ Allocate(heap[ptr[w]] \cup {w})
            /\ ptr' = [ptr EXCEPT ![w] = Fresh]
       ELSE /\ heap' = [heap EXCEPT ![ptr[w]] = @ \cup {w}]
            /\ UNCHANGED ptr
    /\ Goto(w, "save")
    /\ UNCHANGED <<disk, config, lastHash, lastStamp, locks, status, data, watch, raced>>

(* Save writes a temporary file and renames it, which may fail, and then   *)
(* takes the time of the file.                                             *)
Save(w) ==
    /\ pc[w] = "save"
    /\ storeMu = None
    /\ \/ /\ storeMu' = w
          /\ WriteFile(Written(heap[ptr[w]]))
          /\ config' = ptr[w]
          /\ lastHash' = disk'
          /\ Goto(w, "stat")
          /\ UNCHANGED <<managerMu, writer>>
       \/ /\ Finish(w, "failed")
          /\ UNCHANGED <<disk, config, lastHash, lastStamp, polled, storeMu>>
    /\ UNCHANGED <<heap, data, seen, raced>>

SaveStat(w) ==
    /\ pc[w] = "stat"
    /\ lastStamp' = "current"
    /\ storeMu' = None
    /\ Finish(w, "done")
    /\ UNCHANGED <<disk, heap, config, lastHash, data, watch, raced>>

(***************************************************************************)
(* CheckFileModified: take the time, compare it, read, compare the hash,   *)
(* and either remember the time or load.                                   *)
(***************************************************************************)
Poll ==
    /\ pc[Watcher] = "idle"
    /\ polled' = "current"
    /\ Goto(Watcher, "compare")
    /\ UNCHANGED <<disk, store, locks, writer, data, seen, raced>>

Compare ==
    /\ pc[Watcher] = "compare"
    /\ storeMu = None
    /\ IF SameTime THEN Goto(Watcher, "idle") /\ ForgetPolled
       ELSE Goto(Watcher, "read") /\ UNCHANGED <<polled, lastStamp>>
    /\ UNCHANGED <<disk, heap, config, lastHash, locks, writer, data, seen, raced>>

ReadFile ==
    /\ pc[Watcher] = "read"
    /\ seen' = disk
    /\ Goto(Watcher, "hash")
    /\ UNCHANGED <<disk, store, locks, writer, data, polled, raced>>

(* A mutant: the time that was polled is dropped too early.                *)
CompareHashAndForget ==
    /\ pc[Watcher] = "hash"
    /\ storeMu = None
    /\ seen' = Nothing
    /\ Goto(Watcher, IF seen = lastHash THEN "touch" ELSE "load")
    /\ ForgetPolled
    /\ UNCHANGED <<disk, heap, config, lastHash, locks, writer, data, raced>>

CompareHash ==
    /\ pc[Watcher] = "hash"
    /\ storeMu = None
    /\ seen' = Nothing
    /\ IF seen = lastHash THEN Goto(Watcher, "touch") /\ UNCHANGED <<polled, lastStamp>>
       ELSE Goto(Watcher, "load") /\ ForgetPolled
    /\ UNCHANGED <<disk, heap, config, lastHash, locks, writer, data, raced>>

(* A mutant: the time is taken once more.                                  *)
TouchAgain ==
    /\ pc[Watcher] = "touch"
    /\ storeMu = None
    /\ lastStamp' = "current"
    /\ polled' = None
    /\ Goto(Watcher, "idle")
    /\ UNCHANGED <<disk, heap, config, lastHash, locks, writer, data, seen, raced>>

Touch ==
    /\ pc[Watcher] = "touch"
    /\ storeMu = None
    /\ lastStamp' = polled
    /\ polled' = None
    /\ Goto(Watcher, "idle")
    /\ UNCHANGED <<disk, heap, config, lastHash, locks, writer, data, seen, raced>>

Watch == Poll \/ Compare \/ ReadFile \/ CompareHash \/ Touch

(***************************************************************************)
(* The world outside.                                                      *)
(***************************************************************************)
(* The file is edited by hand; the editor starts from what it holds.       *)
EditByHand(x, form) ==
    /\ x \notin disk.changes
    /\ WriteFile([changes |-> disk.changes \cup {x}, form |-> form])
    /\ raced' = (raced \/ storeMu # None)
    /\ UNCHANGED <<heap, config, lastHash, locks, pc, writer, data, seen>>

(* easy42 stops, and starts with what is on disk, which it may normalise.  *)
Restart ==
    /\ disk.form # "broken"
    /\ disk' \in {disk, Written(disk.changes)}
    /\ config' = CHOOSE o \in Objects : TRUE
    /\ heap' = [o \in Objects |-> IF o = config' THEN disk.changes ELSE {}]
    /\ lastHash' = disk'
    /\ lastStamp' = "current"
    /\ storeMu' = None
    /\ managerMu' = None
    /\ pc' = [p \in Loaders |-> "idle"]
    /\ ptr' = [w \in Writers |-> None]
    /\ data' = Nothing
    /\ polled' = None
    /\ seen' = Nothing
    /\ status' = [w \in Writers |-> IF status[w] = "pending" THEN "unknown" ELSE status[w]]
    /\ UNCHANGED raced

Next ==
    \/ \E p \in Loaders : Load(p)
    \/ StartReading
    \/ \E w \in Writers : Start(w) \/ Change(w) \/ Save(w) \/ SaveStat(w)
    \/ Watch
    \/ \E x \in HandEdits, form \in {"normal", "old", "broken"} : EditByHand(x, form)
    \/ Restart

(* The watcher polls on a ticker, and whoever holds a lock goes on.        *)
Fairness ==
    /\ \A p \in Loaders : WF_vars(Load(p))
    /\ \A w \in Writers : WF_vars(Change(w)) /\ WF_vars(Save(w)) /\ WF_vars(SaveStat(w))
    /\ WF_vars(Watch)

Spec == Init /\ [][Next]_vars /\ Fairness

-----------------------------------------------------------------------------
(* A change the manager reported as made stays in config.json, beside      *)
(* other changes, readers that load the file, edits by hand, failing saves *)
(* and restarts; of changes made under the manager's lock.                 *)
NoLostUpdate == \A w \in Writers : status[w] = "done" => w \in disk.changes

(* A change made in a copy, like a new password, that was reported as      *)
(* failed is not made by the next save of something else.                  *)
RejectedStaysOut ==
    \A w \in Writers : status[w] = "failed" /\ Family[w] = "copied" => w \notin disk.changes

(* An edit by hand arrives in memory, unless a save overwrites it or the   *)
(* file is not valid; as long as no edit falls between the reading or      *)
(* writing of the file and the taking of its time, which hides it.         *)
EditsArrive ==
    [](~raced) =>
        \A x \in HandEdits :
            x \in disk.changes ~>
                (x \in heap[config] \/ x \notin disk.changes \/ disk.form = "broken")
=============================================================================
