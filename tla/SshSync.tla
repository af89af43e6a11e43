------------------------------ MODULE SshSync ------------------------------
(***************************************************************************)
(* The push pipeline of the controller over SSH: PlanSyncWithScope         *)
(* compares what the topology compiles to with the hashes the state store  *)
(* recorded, ExecuteSyncNodesWithScope carries the planned actions out one *)
(* after the other on the devices, and UpdateState overwrites the records  *)
(* of the WireGuard interfaces with what it read from the devices.         *)
(*                                                                         *)
(* A target is one managed file of one node.  Its content is a version:    *)
(* two compilations have the same version exactly when their normalized    *)
(* text, and so their hash, is the same.                                   *)
(***************************************************************************)
EXTENDS Naturals, FiniteSets

CONSTANTS
    Nodes,       \* managed nodes that are reached over SSH
    Targets,     \* managed files: one per WireGuard end, ROA table, BIRD and nftables
    Home,        \* the node of each target
    Kind,        \* what each target is, see Kinds
    Rank,        \* position of each target by node name, interface and file name
    Versions,    \* contents of files
    Texts,       \* of each target: the versions it can be compiled to
    Address,     \* of each version: what only a restart of the interface applies, but the MTU
    Mtu,         \* of each version: the MTU of the interface
    Absent,      \* no file, no running service, no record
    Emptied,     \* a running interface that lost its key and peers
    Syncs,       \* sync runs that may be under way at the same time
    Collecting   \* whether UpdateState runs beside the syncs

Kinds == {"wg", "roa", "bird", "nft"}

ASSUME TargetAssumption ==
    /\ Home \in [Targets -> Nodes]
    /\ Kind \in [Targets -> Kinds]
    /\ Rank \in [Targets -> Nat]
    /\ \A t, u \in Targets : Rank[t] = Rank[u] => t = u
ASSUME VersionAssumption ==
    /\ Absent # Emptied /\ {Absent, Emptied} \cap Versions = {}
    /\ Texts \in [Targets -> SUBSET Versions]
ASSUME CollectingAssumption == Collecting \in BOOLEAN

VARIABLES
    unlocked,    \* is the vault unlocked, so that private keys can be decrypted
    desired,     \* what the topology compiles each target to
    recorded,    \* the content whose hash the state store holds
    file,        \* what the file of the target holds on its node
    tmp,         \* what the temporary file beside it holds
    live,        \* the content the running interface, BIRD or nftables was loaded with
    layout,      \* the addresses and the MTU of the running interface
    pc,          \* where each sync run is
    todo,        \* planned actions of each run not yet begun
    cur,         \* the action each run is at
    forced,      \* is the run a forced one
    found,       \* currentContent: what the current action found in its file
    outcome,     \* how the last action on each target ended: "none" while one is under
                 \* way, and once UpdateState has replaced the record it made by another
    collected    \* what UpdateState has read of a node and not yet written to its record

control == <<pc, todo, cur, forced, found>>
device == <<file, tmp, live, layout>>
vars == <<unlocked, desired, recorded, device, control, outcome, collected>>

Contents == Versions \cup {Absent}
WgTargets == {t \in Targets : Kind[t] = "wg"}
Layout(v) == [address |-> Address[v], mtu |-> Mtu[v]]
Layouts == {Layout(v) : v \in Versions} \cup {Absent}
BirdFiles(n) == {t \in Targets : Home[t] = n /\ Kind[t] \in {"roa", "bird"}}

(* SyncAction: remove or configure a target; "pending" is NeedsApply.      *)
Actions ==
    [target : WgTargets, remove : {TRUE}, content : {Absent}, pending : BOOLEAN]
    \cup [target : Targets, remove : {FALSE}, content : Versions, pending : BOOLEAN]
NoAction == [target |-> Absent]

Steps == {"idle", "next", "clean", "check", "tmp", "unlink", "rename", "apply", "record"}

Nothing == [node |-> Absent]
Collections == [node : Nodes, read : BOOLEAN, seen : [Targets -> Contents]]

TypeOK ==
    /\ unlocked \in BOOLEAN
    /\ desired \in [Targets -> Contents]
    /\ recorded \in [Targets -> Contents]
    /\ file \in [Targets -> Contents]
    /\ tmp \in [Targets -> Contents]
    /\ live \in [Targets -> Contents \cup {Emptied}]
    /\ layout \in [Targets -> Layouts]
    /\ pc \in [Syncs -> Steps]
    /\ todo \in [Syncs -> SUBSET Actions]
    /\ cur \in [Syncs -> Actions \cup {NoAction}]
    /\ forced \in [Syncs -> BOOLEAN]
    /\ found \in [Syncs -> Contents]
    /\ outcome \in [Targets -> {"none", "ok", "failed"}]
    /\ collected \in Collections \cup {Nothing}
    /\ \A s \in Syncs : pc[s] \notin {"idle", "next"} =>
            cur[s] \in Actions /\ cur[s].remove = (pc[s] = "clean")

(***************************************************************************)
(* A fresh controller in front of fresh devices.  Only WireGuard ends can  *)
(* be undesired: every managed node always has a BIRD and nftables file.   *)
(***************************************************************************)
Init ==
    /\ unlocked \in BOOLEAN
    /\ desired \in [Targets -> Contents]
    /\ \A t \in Targets : desired[t] \in Texts[t] \/ (Kind[t] = "wg" /\ desired[t] = Absent)
    /\ recorded = [t \in Targets |-> Absent]
    /\ file = [t \in Targets |-> Absent]
    /\ tmp = [t \in Targets |-> Absent]
    /\ live = [t \in Targets |-> Absent]
    /\ layout = [t \in Targets |-> Absent]
    /\ pc = [s \in Syncs |-> "idle"]
    /\ todo = [s \in Syncs |-> {}]
    /\ cur = [s \in Syncs |-> NoAction]
    /\ forced = [s \in Syncs |-> FALSE]
    /\ found = [s \in Syncs |-> Absent]
    /\ outcome = [t \in Targets |-> "none"]
    /\ collected = Nothing

(***************************************************************************)
(* The operator.                                                           *)
(***************************************************************************)
Edit(t, v) ==
    /\ v # desired[t]
    /\ v \in Texts[t] \/ (Kind[t] = "wg" /\ v = Absent)
    /\ desired' = [desired EXCEPT ![t] = v]
    /\ UNCHANGED <<unlocked, recorded, device, control, outcome, collected>>

TurnVaultLock ==
    /\ unlocked' = ~unlocked
    /\ UNCHANGED <<desired, recorded, device, control, outcome, collected>>

(***************************************************************************)
(* Planning.  "public" plans as if the vault were locked, "full" refuses   *)
(* to plan when it is; without keys no WireGuard action is planned.        *)
(***************************************************************************)
Scopes == {"auto", "full", "public"}
WithKeys(scope) == unlocked /\ scope # "public"

(* A mutant: running interfaces nobody recorded are overlooked.            *)
RecordedOrphans(nodes, answered) ==
    {t \in WgTargets : Home[t] \in nodes /\ desired[t] = Absent /\ recorded[t] # Absent}

(* Interfaces to take down: running on a node that answered the probe, or  *)
(* recorded, and no longer in the topology.                                *)
Orphans(nodes, answered) ==
    {t \in WgTargets :
        /\ Home[t] \in nodes
        /\ desired[t] = Absent
        /\ \/ Home[t] \in answered /\ live[t] # Absent
           \/ recorded[t] # Absent}

Removal(t) == [target |-> t, remove |-> TRUE, content |-> Absent, pending |-> TRUE]
Configuration(t) ==
    [target |-> t, remove |-> FALSE, content |-> desired[t], pending |-> recorded[t] # desired[t]]

PlanSync(scope, nodes, answered) ==
    LET managed == {t \in Targets : Home[t] \in nodes /\ desired[t] # Absent}
        planned == IF WithKeys(scope) THEN managed ELSE managed \ WgTargets
        orphans == IF WithKeys(scope) THEN Orphans(nodes, answered) ELSE {}
    IN  {Removal(t) : t \in orphans} \cup {Configuration(t) : t \in planned}

(* A mutant: BIRD before the WireGuard interfaces.                         *)
RoutingFirst(a) ==
    IF a.remove THEN 1
    ELSE [bird |-> 2, roa |-> 3, wg |-> 4, nft |-> 5][Kind[a.target]]

(* The order of execution: pending before synced, removals before          *)
(* WireGuard before ROA before BIRD before nftables, then by name.         *)
ActionPriority(a) ==
    IF a.remove THEN 1
    ELSE [wg |-> 2, roa |-> 3, bird |-> 4, nft |-> 5][Kind[a.target]]

Before(a, b) ==
    \/ a.pending /\ ~b.pending
    \/ /\ a.pending = b.pending
       /\ \/ ActionPriority(a) < ActionPriority(b)
          \/ /\ ActionPriority(a) = ActionPriority(b)
             /\ Rank[a.target] < Rank[b.target]

(* A mutant: a forced run, too, skips what the records say is synced.      *)
StartPending(s, force, scope, nodes, answered) ==
    LET toRun == {a \in PlanSync(scope, nodes, answered) : a.pending} IN
    /\ pc[s] = "idle"
    /\ scope = "full" => unlocked
    /\ toRun # {}
    /\ pc' = [pc EXCEPT ![s] = "next"]
    /\ todo' = [todo EXCEPT ![s] = toRun]
    /\ forced' = [forced EXCEPT ![s] = force]
    /\ UNCHANGED <<unlocked, desired, recorded, device, cur, found, outcome, collected>>

StartSync(s, force, scope, nodes, answered) ==
    LET plan == PlanSync(scope, nodes, answered)
        toRun == {a \in plan : force \/ a.pending}
    IN  /\ pc[s] = "idle"
        /\ scope = "full" => unlocked
        /\ toRun # {}
        /\ pc' = [pc EXCEPT ![s] = "next"]
        /\ todo' = [todo EXCEPT ![s] = toRun]
        /\ forced' = [forced EXCEPT ![s] = force]
        /\ UNCHANGED <<unlocked, desired, recorded, device, cur, found, outcome, collected>>

(***************************************************************************)
(* Executing one action.  A failure ends the action with an error result   *)
(* and the loop goes on with the next one.                                 *)
(***************************************************************************)
Target(s) == cur[s].target
Goto(s, step) == pc' = [pc EXCEPT ![s] = step]
Report(t, flag) == outcome' = [outcome EXCEPT ![t] = flag]

(* The action of s ends with this result, and the loop goes on.            *)
EndAction(s, flag) ==
    /\ Report(Target(s), flag)
    /\ Goto(s, "next")
    /\ cur' = [cur EXCEPT ![s] = NoAction]
    /\ found' = [found EXCEPT ![s] = Absent]
    /\ UNCHANGED <<unlocked, desired, todo, forced, collected>>

Fail(s) == EndAction(s, "failed") /\ UNCHANGED recorded
Continue(s, step) ==
    /\ Goto(s, step)
    /\ UNCHANGED <<unlocked, desired, recorded, todo, cur, forced, found, outcome, collected>>

(* Is another run between writing and renaming the temporary file of t?    *)
(* If none is, what a failed rename left there will never be used.         *)
SharesTmp(s, t) ==
    \E r \in Syncs \ {s} : pc[r] \in {"unlink", "rename"} /\ Target(r) = t

Begin(s) ==
    /\ pc[s] = "next"
    /\ \E a \in todo[s] :
        /\ \A b \in todo[s] \ {a} : Before(a, b)
        /\ todo' = [todo EXCEPT ![s] = @ \ {a}]
        /\ \/ /\ Goto(s, IF a.remove THEN "clean" ELSE "check")
              /\ cur' = [cur EXCEPT ![s] = a]
              /\ Report(a.target, "none")
           \/ /\ Report(a.target, "failed")      \* SSH connect failed
              /\ UNCHANGED <<pc, cur>>
    /\ UNCHANGED <<unlocked, desired, recorded, device, forced, found, collected>>

Finish(s) ==
    /\ pc[s] = "next"
    /\ todo[s] = {}
    /\ Goto(s, "idle")
    /\ forced' = [forced EXCEPT ![s] = FALSE]
    /\ UNCHANGED <<unlocked, desired, recorded, device, todo, cur, found, outcome, collected>>

(* CleanWireGuardInterface: take the interface down, remove the file, then *)
(* ask whether the interface still exists.  Each of the three may fail;    *)
(* a question that gets no answer counts as "it is gone".                  *)
Clean(s) ==
    LET t == Target(s) IN
    /\ pc[s] = "clean"
    /\ \E down, deleted, removed, answered \in BOOLEAN :
        /\ live' = [live EXCEPT ![t] = IF down \/ deleted THEN Absent ELSE @]
        /\ layout' = [layout EXCEPT ![t] = IF down \/ deleted THEN Absent ELSE @]
        /\ file' = [file EXCEPT ![t] = IF removed THEN Absent ELSE @]
        /\ IF (answered /\ live'[t] # Absent) \/ (~down /\ ~removed)
           THEN Fail(s)
           ELSE EndAction(s, "ok") /\ recorded' = [recorded EXCEPT ![t] = Absent]
    /\ UNCHANGED tmp

(* An unreadable remote file reads as an empty one.                        *)
Differs(s) == forced[s] \/ found[s] # cur[s].content

Check(s) ==
    LET t == Target(s) IN
    /\ pc[s] = "check"
    /\ \E readable \in BOOLEAN : found' = [found EXCEPT ![s] = IF readable THEN file[t] ELSE Absent]
    /\ Goto(s, IF forced[s] \/ found'[s] # cur[s].content THEN "tmp"
               ELSE IF Kind[t] = "wg" THEN "apply" ELSE "record")
    /\ UNCHANGED <<unlocked, desired, recorded, device, todo, cur, forced, outcome, collected>>

(* AtomicWriteFile, in the steps another run or a failure can come         *)
(* between: write <file>.tmp, remove the file, rename.                     *)
WriteTmp(s) ==
    LET t == Target(s) IN
    /\ pc[s] = "tmp"
    /\ \/ /\ tmp' = [tmp EXCEPT ![t] = cur[s].content]
          /\ Continue(s, "unlink")
       \/ /\ tmp' = [tmp EXCEPT ![t] = Absent]
          /\ Fail(s)
    /\ UNCHANGED <<file, live, layout>>

Unlink(s) ==
    LET t == Target(s) IN
    /\ pc[s] = "unlink"
    /\ file' \in {file, [file EXCEPT ![t] = Absent]}    \* its error is ignored
    /\ Continue(s, "rename")
    /\ UNCHANGED <<tmp, live, layout>>

(* SFTP's rename refuses to replace an existing file.                      *)
Rename(s) ==
    LET t == Target(s) IN
    /\ pc[s] = "rename"
    /\ \/ /\ tmp[t] # Absent
          /\ file[t] = Absent
          /\ file' = [file EXCEPT ![t] = tmp[t]]
          /\ tmp' = [tmp EXCEPT ![t] = Absent]
          /\ Continue(s, "apply")
       \/ /\ tmp' = IF SharesTmp(s, t) THEN tmp ELSE [tmp EXCEPT ![t] = Absent]
          /\ UNCHANGED file
          /\ Fail(s)
    /\ UNCHANGED <<live, layout>>

(* What a reload of target t loads: `birdc configure` loads BIRD's own     *)
(* file and every ROA table it includes.                                   *)
Loads(t) == IF Kind[t] \in {"roa", "bird"} THEN BirdFiles(Home[t]) ELSE {t}
ReloadedOnly(t) == [u \in Loads(t) |-> file[u]]    \* a mutant: forgets everything else
Reloaded(t) == [u \in Targets |-> IF u \in Loads(t) THEN file[u] ELSE live[u]]

(* birdc configure, the nftables script, or wg-quick up.                   *)
Load(t) ==
    /\ file[t] # Absent
    /\ live' = Reloaded(t)
    /\ layout' = IF Kind[t] = "wg" THEN [layout EXCEPT ![t] = Layout(file[t])] ELSE layout

(* wg syncconf replaces key and peers; of a file that is gone it reads     *)
(* nothing, and reports success.                                           *)
SyncConf(t) ==
    /\ live' = [live EXCEPT ![t] = IF file[t] = Absent THEN Emptied ELSE file[t]]
    /\ UNCHANGED layout

TakeDown(t) ==
    /\ live' = [live EXCEPT ![t] = Absent]
    /\ layout' = [layout EXCEPT ![t] = Absent]

(* A command that failed, or whose answer was lost, may have done its      *)
(* work, none of it, or taken the interface down without bringing it up.   *)
LeaveBehind(t) ==
    \/ UNCHANGED <<live, layout>>
    \/ Load(t)
    \/ Kind[t] = "wg" /\ (TakeDown(t) \/ (live[t] # Absent /\ SyncConf(t)))

(* RequiresWgRestart compares the file found with the new content; a live  *)
(* MTU, if it can be measured, counts as well.                             *)
NeedsRestartByFile(s, measured) ==       \* a mutant: the live MTU is not looked at
    found[s] = Absent \/ Layout(found[s]) # Layout(cur[s].content)

NeedsRestart(s, measured) ==
    LET content == cur[s].content IN
    \/ found[s] = Absent
    \/ Layout(found[s]) # Layout(content)
    \/ measured /\ layout[Target(s)].mtu # Mtu[content]

(* A mutant: a running interface is never touched.                         *)
ApplyStopped(s, answered, measured) ==
    LET t == Target(s)
        running == Kind[t] = "wg" /\ answered /\ live[t] # Absent
    IN
    /\ pc[s] = "apply"
    /\ \/ running /\ UNCHANGED <<live, layout>> /\ Continue(s, "record")
       \/ ~running /\ Load(t) /\ Continue(s, "record")
       \/ ~running /\ LeaveBehind(t) /\ Fail(s)
    /\ UNCHANGED <<file, tmp>>

(* Applying the file.  An interface that says it is running is restarted   *)
(* or synced if the file was rewritten, and left alone if not; one that    *)
(* gives no answer counts as stopped, and is started.                      *)
ApplyWith(s, answered, measured) ==
    LET t == Target(s)
        running == Kind[t] = "wg" /\ answered /\ live[t] # Absent
    IN
    /\ pc[s] = "apply"
    /\ \/ /\ running
          /\ ~Differs(s)
          /\ UNCHANGED <<live, layout>>
          /\ Continue(s, "record")
       \/ /\ running => Differs(s)
          /\ \/ running /\ ~NeedsRestart(s, measured) /\ SyncConf(t)
             \/ Load(t)       \* a failed syncconf falls back to a restart
          /\ Continue(s, "record")
       \/ /\ running => Differs(s)
          /\ LeaveBehind(t)
          /\ Fail(s)
    /\ UNCHANGED <<file, tmp>>

Apply(s) == \E answered, measured \in BOOLEAN : ApplyWith(s, answered, measured)

(* A mutant: the topology is read again for the record.                    *)
RecordDesired(s) ==
    /\ pc[s] = "record"
    /\ recorded' = [recorded EXCEPT ![Target(s)] = desired[Target(s)]]
    /\ EndAction(s, "ok")
    /\ UNCHANGED device

(* UpdateInterface, UpdateRoaState, UpdateBirdState, UpdateNftablesState.  *)
Record(s) ==
    LET t == Target(s) IN
    /\ pc[s] = "record"
    /\ recorded' = [recorded EXCEPT ![t] = cur[s].content]
    /\ EndAction(s, "ok")
    /\ UNCHANGED device

(***************************************************************************)
(* UpdateState of one node.  It reads the configuration files that exist   *)
(* on the node (none, when listing them fails); later it reads the node's  *)
(* record from the shared map, and, without the lock, puts a new one there *)
(* with the interfaces of the device and all else of the record read.      *)
(***************************************************************************)
Collect(n) ==
    /\ Collecting
    /\ collected = Nothing
    /\ \E listed \in BOOLEAN :
        collected' = [node |-> n, read |-> FALSE,
                      seen |-> [t \in Targets |-> IF listed /\ Kind[t] = "wg" THEN file[t] ELSE Absent]]
    /\ UNCHANGED <<unlocked, desired, recorded, device, control, outcome>>

ReadNode ==
    /\ collected # Nothing /\ ~collected.read
    /\ collected' = [collected EXCEPT !.read = TRUE,
            !.seen = [t \in Targets |-> IF Kind[t] = "wg" THEN @[t] ELSE recorded[t]]]
    /\ UNCHANGED <<unlocked, desired, recorded, device, control, outcome>>

(* The ROA tables' hashes are in a map that old and new record share, once *)
(* there is one.                                                           *)
SharesRoa(n) == \E t \in Targets : Home[t] = n /\ Kind[t] = "roa" /\ collected.seen[t] # Absent

PutNode ==
    /\ collected # Nothing /\ collected.read
    /\ recorded' = [t \in Targets |->
            IF Home[t] # collected.node \/ (Kind[t] = "roa" /\ SharesRoa(collected.node))
            THEN recorded[t] ELSE collected.seen[t]]
    /\ outcome' = [t \in Targets |-> IF recorded'[t] = recorded[t] THEN outcome[t] ELSE "none"]
    /\ collected' = Nothing
    /\ UNCHANGED <<unlocked, desired, device, control>>

Merge == ReadNode \/ PutNode

(* The controller stops: runs and collections are gone, records are kept,  *)
(* the vault is locked.                                                    *)
Restart ==
    /\ unlocked' = FALSE
    /\ pc' = [s \in Syncs |-> "idle"]
    /\ todo' = [s \in Syncs |-> {}]
    /\ cur' = [s \in Syncs |-> NoAction]
    /\ forced' = [s \in Syncs |-> FALSE]
    /\ found' = [s \in Syncs |-> Absent]
    /\ collected' = Nothing
    /\ tmp' = [t \in Targets |-> Absent]      \* no run is left to rename it
    /\ UNCHANGED <<desired, recorded, file, live, layout, outcome>>

Execute(s) ==
    \/ Begin(s) \/ Finish(s) \/ Clean(s) \/ Check(s)
    \/ WriteTmp(s) \/ Unlink(s) \/ Rename(s) \/ Apply(s) \/ Record(s)

Next ==
    \/ \E t \in Targets, v \in Contents : Edit(t, v)
    \/ TurnVaultLock
    \/ \E s \in Syncs, force \in BOOLEAN, scope \in Scopes,
          nodes \in SUBSET Nodes, answered \in SUBSET Nodes :
            StartSync(s, force, scope, nodes, answered)
    \/ \E s \in Syncs : Execute(s)
    \/ \E n \in Nodes : Collect(n)
    \/ Merge
    \/ Restart

Spec == Init /\ [][Next]_vars

-----------------------------------------------------------------------------
(***************************************************************************)
(* Properties.                                                             *)
(***************************************************************************)

(* A record the last action on a target reported as a success still        *)
(* describes the file: a file that no longer holds the recorded content    *)
(* was left behind by an action that reported a failure or was cut short,  *)
(* or UpdateState has replaced the record, by what it saw on the device or *)
(* by an older record it had read.  Holds as long as runs do not overlap.  *)
RecordedOnDevice ==
    \A t \in Targets :
        outcome[t] = "ok" /\ recorded[t] # Absent => file[t] = recorded[t]

(* A run that is not forced reloads BIRD only after it has dealt with all  *)
(* its interfaces and ROA tables, so that BIRD never comes up against      *)
(* interfaces the same run still has to create or remove.                  *)
RoutingLast ==
    \A s \in Syncs :
        /\ pc[s] \notin {"idle", "next"}
        /\ ~forced[s]
        /\ Kind[Target(s)] = "bird"
        => \A a \in todo[s] : Kind[a.target] \notin {"wg", "roa"}

(* "Record successful application in stateStore": a sync that records a    *)
(* BIRD, ROA or nftables content has that content loaded on the device.    *)
RecordedMeansApplied ==
    [][\A s \in Syncs :
          Record(s) /\ Kind[Target(s)] # "wg" => live[Target(s)] = cur[s].content]_vars
=============================================================================
