-------------------------- MODULE Recording_proofs --------------------------
(* Proofs about the push pipeline, for every set of nodes, targets and      *)
(* versions, and about the store of what was recorded, for every set of     *)
(* nodes and every number of operations.                                    *)
EXTENDS Recording, TLAPS

(* Planned actions are well formed, whatever the scope.                    *)
LEMMA PlanTyped ==
    ASSUME TypeOK, NEW scope, NEW nodes, NEW answered
    PROVE  PlanSync(scope, nodes, answered) \subseteq Actions
<1>1. \A t \in WgTargets : Removal(t) \in Actions
  BY DEF Removal, Actions, WgTargets, Contents
<1>2. \A t \in Targets : desired[t] # Absent => Configuration(t) \in Actions
  <2> SUFFICES ASSUME NEW t \in Targets, desired[t] # Absent PROVE Configuration(t) \in Actions
    OBVIOUS
  <2>1. (recorded[t] # desired[t]) \in BOOLEAN
    OBVIOUS
  <2>2. desired[t] \in Versions
    BY DEF TypeOK, Contents
  <2> QED BY <2>1, <2>2 DEF Configuration, Actions
<1>3. \A t \in Orphans(nodes, answered) : t \in WgTargets
  BY DEF Orphans
<1> QED BY <1>1, <1>2, <1>3 DEF PlanSync

(* The fields of an action.                                                *)
LEMMA ActionTyped ==
    \A a \in Actions : a.target \in Targets /\ a.content \in Contents /\ a.remove \in BOOLEAN
BY DEF Actions, Contents, WgTargets

USE TargetAssumption

(* Every reachable state has its type, with any number of concurrent runs  *)
(* and with UpdateState under way.                                         *)
THEOREM Typing == Spec => []TypeOK
<1>1. Init => TypeOK
  BY DEF Init, TypeOK, Contents, Layouts, Steps
<1>2. TypeOK /\ [Next]_vars => TypeOK'
  <2> SUFFICES ASSUME TypeOK, [Next]_vars PROVE TypeOK'
    OBVIOUS
  <2> USE DEF TypeOK
  <2>a. Absent \in Contents /\ {"idle", "next", "clean", "check", "tmp"} \subseteq Steps
    BY DEF Contents, Steps
  <2>1. ASSUME NEW t \in Targets, NEW v \in Contents, Edit(t, v) PROVE TypeOK'
    BY <2>1 DEF Edit, device, control, Target
  <2>2. CASE TurnVaultLock
    BY <2>2 DEF TurnVaultLock, device, control
  <2>3. ASSUME NEW s \in Syncs, NEW force \in BOOLEAN, NEW scope \in Scopes,
               NEW nodes \in SUBSET Nodes, NEW answered \in SUBSET Nodes,
               StartSync(s, force, scope, nodes, answered)
        PROVE  TypeOK'
    <3>1. {a \in PlanSync(scope, nodes, answered) : force \/ a.pending} \in SUBSET Actions
      BY PlanTyped
    <3> QED BY <2>3, <3>1 DEF StartSync, device, control, Steps
  <2>4. ASSUME NEW s \in Syncs, Execute(s) PROVE TypeOK'
    <3>1. ASSUME EndAction(s, "ok") \/ EndAction(s, "failed"), Target(s) \in Targets,
                 recorded' \in [Targets -> Contents], file' \in [Targets -> Contents],
                 tmp' \in [Targets -> Contents], live' \in [Targets -> Contents \cup {Emptied}],
                 layout' \in [Targets -> Layouts]
          PROVE  TypeOK'
      <4>1. \A r \in Syncs : pc'[r] \notin {"idle", "next"} =>
                r # s /\ pc'[r] = pc[r] /\ cur'[r] = cur[r]
        BY <3>1 DEF EndAction, Goto
      <4>2. /\ pc' \in [Syncs -> Steps]
            /\ cur' \in [Syncs -> Actions \cup {NoAction}]
            /\ outcome' \in [Targets -> {"none", "ok", "failed"}]
            /\ found' \in [Syncs -> Contents]
            /\ UNCHANGED <<unlocked, desired, todo, forced, collected>>
        <5>1. PICK flag \in {"ok", "failed"} : EndAction(s, flag)
          BY <3>1
        <5>2. outcome' = [outcome EXCEPT ![Target(s)] = flag]
          BY <5>1 DEF EndAction, Report
        <5>3. /\ pc' = [pc EXCEPT ![s] = "next"]
              /\ cur' = [cur EXCEPT ![s] = NoAction]
              /\ found' = [found EXCEPT ![s] = Absent]
              /\ UNCHANGED <<unlocked, desired, todo, forced, collected>>
          BY <5>1 DEF EndAction, Goto
        <5> QED BY <2>a, <3>1, <5>2, <5>3
      <4> QED BY <3>1, <4>1, <4>2
    <3>2. ASSUME NEW step \in Steps \ {"clean"}, Continue(s, step),
                 pc[s] \notin {"idle", "next", "clean"},
                 file' \in [Targets -> Contents], tmp' \in [Targets -> Contents],
                 live' \in [Targets -> Contents \cup {Emptied}], layout' \in [Targets -> Layouts]
          PROVE  TypeOK'
      <4>1. \A r \in Syncs : pc'[r] \notin {"idle", "next"} =>
                pc[r] \notin {"idle", "next"} /\ ((pc'[r] = "clean") = (pc[r] = "clean"))
        BY <3>2 DEF Continue, Goto
      <4>2. /\ pc' \in [Syncs -> Steps]
            /\ UNCHANGED <<unlocked, desired, recorded, todo, cur, forced, found, outcome, collected>>
        BY <3>2 DEF Continue, Goto
      <4> QED BY <3>2, <4>1, <4>2
    <3>3. pc[s] \notin {"idle", "next"} => cur[s] \in Actions /\ Target(s) \in Targets
                                            /\ cur[s].content \in Contents
      BY ActionTyped DEF Target
    <3>4. ASSUME NEW t \in Targets, Load(t) \/ SyncConf(t) \/ TakeDown(t)
          PROVE  /\ live' \in [Targets -> Contents \cup {Emptied}]
                 /\ layout' \in [Targets -> Layouts]
      <4>1. CASE Load(t)
        <5>1. Layout(file[t]) \in Layouts
          BY <4>1 DEF Load, Layouts, Contents
        <5>2. Reloaded(t) \in [Targets -> Contents \cup {Emptied}]
          BY DEF Reloaded
        <5> QED BY <4>1, <5>1, <5>2 DEF Load
      <4>2. CASE SyncConf(t)
        BY <4>2 DEF SyncConf
      <4>3. CASE TakeDown(t)
        BY <4>3 DEF TakeDown, Contents, Layouts
      <4> QED BY <3>4, <4>1, <4>2, <4>3
    <3>5. CASE Begin(s)
      <4>1. PICK a \in todo[s] :
              /\ todo' = [todo EXCEPT ![s] = @ \ {a}]
              /\ \/ /\ pc' = [pc EXCEPT ![s] = IF a.remove THEN "clean" ELSE "check"]
                    /\ cur' = [cur EXCEPT ![s] = a]
                    /\ outcome' = [outcome EXCEPT ![a.target] = "none"]
                 \/ /\ outcome' = [outcome EXCEPT ![a.target] = "failed"]
                    /\ UNCHANGED <<pc, cur>>
        BY <3>5 DEF Begin, Goto, Report
      <4>2. a \in Actions
        OBVIOUS
      <4>3. UNCHANGED <<unlocked, desired, recorded, device, forced, found, collected>>
        BY <3>5 DEF Begin
      <4>4. /\ pc' \in [Syncs -> Steps]
            /\ cur' \in [Syncs -> Actions \cup {NoAction}]
            /\ todo' \in [Syncs -> SUBSET Actions]
            /\ outcome' \in [Targets -> {"none", "ok", "failed"}]
        BY <2>a, <4>1, <4>2, ActionTyped
      <4>5. pc[s] = "next"
        BY <3>5 DEF Begin
      <4>6. \A r \in Syncs : pc'[r] \notin {"idle", "next"} =>
                cur'[r] \in Actions /\ cur'[r].remove = (pc'[r] = "clean")
        BY <4>1, <4>2, <4>5, ActionTyped
      <4> QED BY <4>3, <4>4, <4>6 DEF device
    <3>6. CASE Finish(s)
      BY <3>6 DEF Finish, Goto, Steps, device
    <3>7. CASE Clean(s)
      <4>1. pc[s] = "clean" /\ Target(s) \in Targets
        BY <3>7, <3>3 DEF Clean
      <4>2. /\ live' \in [Targets -> Contents \cup {Emptied}]
            /\ layout' \in [Targets -> Layouts]
            /\ file' \in [Targets -> Contents]
            /\ tmp' \in [Targets -> Contents]
        BY <3>7, <4>1 DEF Clean, Contents, Layouts
      <4>3. recorded' \in [Targets -> Contents]
        BY <3>7, <4>1 DEF Clean, Contents, Fail
      <4>4. EndAction(s, "ok") \/ EndAction(s, "failed")
        BY <3>7 DEF Clean, Fail
      <4> QED BY <3>1, <4>1, <4>2, <4>3, <4>4
    <3>8. CASE Check(s)
      <4>1. /\ pc[s] = "check" /\ Target(s) \in Targets
            /\ UNCHANGED <<unlocked, desired, recorded, device, todo, cur, forced, outcome, collected>>
        BY <3>8, <3>3 DEF Check
      <4>2. PICK content \in Contents : found' = [found EXCEPT ![s] = content]
        BY <2>a, <3>8, <4>1 DEF Check
      <4>3. PICK step \in {"tmp", "apply", "record"} : pc' = [pc EXCEPT ![s] = step]
        BY <3>8 DEF Check, Goto
      <4>4. /\ pc' \in [Syncs -> Steps]
            /\ found' \in [Syncs -> Contents]
            /\ \A r \in Syncs : pc'[r] \notin {"idle", "next"} =>
                  pc[r] \notin {"idle", "next"} /\ ((pc'[r] = "clean") = (pc[r] = "clean"))
        BY <4>1, <4>2, <4>3 DEF Steps
      <4> QED BY <4>1, <4>4 DEF device
    <3>9. CASE WriteTmp(s)
      <4>1. pc[s] = "tmp" /\ Target(s) \in Targets /\ tmp' \in [Targets -> Contents]
        BY <3>9, <3>3 DEF WriteTmp, Contents
      <4>2. CASE Continue(s, "unlink")
        BY <3>2, <3>9, <4>1, <4>2 DEF WriteTmp, Steps
      <4>3. CASE Fail(s)
        BY <3>1, <3>9, <4>1, <4>3 DEF WriteTmp, Fail
      <4> QED BY <3>9, <4>2, <4>3 DEF WriteTmp
    <3>10. CASE Unlink(s)
      BY <3>2, <3>3, <3>10 DEF Unlink, Steps, Contents
    <3>11. CASE Rename(s)
      <4>1. /\ pc[s] = "rename" /\ Target(s) \in Targets
            /\ tmp' \in [Targets -> Contents] /\ file' \in [Targets -> Contents]
        BY <3>11, <3>3 DEF Rename, Contents
      <4>2. CASE Continue(s, "apply")
        BY <3>2, <3>11, <4>1, <4>2 DEF Rename, Steps
      <4>3. CASE Fail(s)
        BY <3>1, <3>11, <4>1, <4>3 DEF Rename, Fail
      <4> QED BY <3>11, <4>2, <4>3 DEF Rename
    <3>12. CASE Apply(s)
      <4>1. PICK answered \in BOOLEAN, measured \in BOOLEAN : ApplyWith(s, answered, measured)
        BY <3>12 DEF Apply
      <4>2. pc[s] = "apply" /\ Target(s) \in Targets /\ UNCHANGED <<file, tmp>>
        BY <4>1, <3>3 DEF ApplyWith
      <4>3. /\ live' \in [Targets -> Contents \cup {Emptied}]
            /\ layout' \in [Targets -> Layouts]
        BY <4>1, <4>2, <3>4 DEF ApplyWith, LeaveBehind
      <4>4. CASE Continue(s, "record")
        BY <3>2, <4>2, <4>3, <4>4 DEF Steps
      <4>5. CASE Fail(s)
        BY <3>1, <4>2, <4>3, <4>5 DEF Fail
      <4> QED BY <4>1, <4>4, <4>5 DEF ApplyWith
    <3>13. CASE Record(s)
      BY <3>1, <3>3, <3>13 DEF Record, device
    <3> QED
      BY <2>4, <3>5, <3>6, <3>7, <3>8, <3>9, <3>10, <3>11, <3>12, <3>13 DEF Execute
  <2>5. ASSUME NEW n \in Nodes, Collect(n) PROVE TypeOK'
    <3>1. collected' \in Collections
      BY <2>5 DEF Collect, Collections, Contents
    <3> QED BY <2>5, <3>1 DEF Collect, device, control, Target
  <2>6. CASE Merge
    <3>1. collected \in Collections
      BY <2>6 DEF Merge, ReadNode, PutNode
    <3>2. CASE ReadNode
      <4>1. collected' \in Collections
        BY <3>1, <3>2 DEF ReadNode, Collections
      <4> QED BY <3>2, <4>1 DEF ReadNode, device, control, Target
    <3>3. CASE PutNode
      <4>1. recorded' \in [Targets -> Contents]
        BY <3>1, <3>3 DEF PutNode, Collections
      <4>2. outcome' \in [Targets -> {"none", "ok", "failed"}]
        BY <3>3 DEF PutNode
      <4> QED BY <3>3, <4>1, <4>2 DEF PutNode, device, control, Nothing, Target
    <3> QED BY <2>6, <3>2, <3>3 DEF Merge
  <2>7. CASE Restart
    BY <2>7 DEF Restart, Contents, Steps, device
  <2>8. CASE UNCHANGED vars
    BY <2>8 DEF vars, device, control
  <2> QED BY <2>1, <2>2, <2>3, <2>4, <2>5, <2>6, <2>7, <2>8 DEF Next
<1> QED BY <1>1, <1>2, PTL DEF Spec

-----------------------------------------------------------------------------
(***************************************************************************)
(* With one run at a time, a success that was reported and recorded, and   *)
(* not yet replaced by UpdateState, describes the file.  The invariant     *)
(* is not inductive alone: it needs that the run at work has withdrawn the *)
(* target's earlier result, and that the temporary file, and then the      *)
(* file, hold the content the run will record.                             *)
(***************************************************************************)
Exclusive == \A s, r \in Syncs : s = r

Withdrawn == \A s \in Syncs : pc[s] \notin {"idle", "next"} => outcome[Target(s)] = "none"
TmpHolds == \A s \in Syncs : pc[s] \in {"unlink", "rename"} => tmp[Target(s)] = cur[s].content
FileHolds == \A s \in Syncs : pc[s] \in {"apply", "record"} => file[Target(s)] = cur[s].content

DeviceInv == RecordedOnDevice /\ Withdrawn /\ TmpHolds /\ FileHolds

(* A step that touches only the target at work, and keeps its result       *)
(* withdrawn, cannot break RecordedOnDevice.                               *)
LEMMA WorkKeepsRecords ==
    ASSUME TypeOK, TypeOK', RecordedOnDevice, NEW t \in Targets,
           outcome'[t] # "ok" \/ recorded'[t] = Absent \/ recorded'[t] = file'[t],
           \A u \in Targets \ {t} : /\ outcome'[u] = outcome[u]
                                   /\ recorded'[u] = recorded[u]
                                   /\ file'[u] = file[u]
    PROVE  RecordedOnDevice'
BY DEF RecordedOnDevice

LEMMA DeviceStep ==
    ASSUME Exclusive, TypeOK, TypeOK', DeviceInv, [Next]_vars
    PROVE  DeviceInv'
<1> USE DEF DeviceInv
<1>a. \A s \in Syncs : pc[s] \notin {"idle", "next"} => Target(s) \in Targets
  BY ActionTyped DEF TypeOK, Target
<1>1. ASSUME NEW t \in Targets, NEW v \in Contents, Edit(t, v) PROVE DeviceInv'
  BY <1>1 DEF Edit, device, control, RecordedOnDevice, Withdrawn, TmpHolds, FileHolds, Target
<1>2. CASE TurnVaultLock
  BY <1>2 DEF TurnVaultLock, device, control, RecordedOnDevice, Withdrawn, TmpHolds, FileHolds, Target
<1>3. ASSUME NEW s \in Syncs, NEW force \in BOOLEAN, NEW scope \in Scopes,
             NEW nodes \in SUBSET Nodes, NEW answered \in SUBSET Nodes,
             StartSync(s, force, scope, nodes, answered)
      PROVE  DeviceInv'
  BY <1>3 DEF StartSync, TypeOK, device, RecordedOnDevice, Withdrawn, TmpHolds, FileHolds, Target
<1>4. ASSUME NEW s \in Syncs, Execute(s) PROVE DeviceInv'
  <2>a. \A r \in Syncs : r = s
    BY DEF Exclusive
  <2>c. ASSUME NEW flag \in {"ok", "failed"}, EndAction(s, flag)
        PROVE  Withdrawn' /\ TmpHolds' /\ FileHolds'
    BY <2>a, <2>c DEF EndAction, Goto, TypeOK, Withdrawn, TmpHolds, FileHolds
  <2>d. ASSUME NEW flag \in {"ok", "failed"}, EndAction(s, flag), Target(s) \in Targets
        PROVE  /\ outcome'[Target(s)] = flag
               /\ \A u \in Targets \ {Target(s)} : outcome'[u] = outcome[u]
    BY <2>d DEF EndAction, Report, TypeOK
  <2>1. CASE Begin(s)
    <3>1. PICK a \in todo[s] :
            \/ /\ pc' = [pc EXCEPT ![s] = IF a.remove THEN "clean" ELSE "check"]
               /\ cur' = [cur EXCEPT ![s] = a]
               /\ outcome' = [outcome EXCEPT ![a.target] = "none"]
            \/ outcome' = [outcome EXCEPT ![a.target] = "failed"] /\ UNCHANGED <<pc, cur>>
      BY <2>1 DEF Begin, Report, Goto
    <3>2. a.target \in Targets /\ pc[s] = "next" /\ UNCHANGED <<recorded, device>>
      BY <2>1, ActionTyped DEF Begin, TypeOK
    <3>3. RecordedOnDevice'
      BY <3>1, <3>2, WorkKeepsRecords DEF TypeOK, device
    <3>4. Withdrawn' /\ TmpHolds' /\ FileHolds'
      BY <2>a, <3>1, <3>2 DEF Withdrawn, TmpHolds, FileHolds, TypeOK, Target
    <3> QED BY <3>3, <3>4
  <2>2. CASE Finish(s)
    BY <2>2, <2>a DEF Finish, Goto, device, RecordedOnDevice, Withdrawn, TmpHolds, FileHolds, TypeOK
  <2>3. CASE Clean(s)
    <3>1. pc[s] = "clean" /\ Target(s) \in Targets
      BY <2>3, <1>a DEF Clean
    <3>2. \A u \in Targets \ {Target(s)} : file'[u] = file[u]
      BY <2>3, <3>1 DEF Clean, TypeOK
    <3>3. CASE Fail(s)
      <4>1. EndAction(s, "failed") /\ recorded' = recorded
        BY <3>3 DEF Fail
      <4> QED BY <2>c, <2>d, <3>1, <3>2, <4>1, WorkKeepsRecords
    <3>4. CASE EndAction(s, "ok") /\ recorded' = [recorded EXCEPT ![Target(s)] = Absent]
      <4>1. /\ recorded'[Target(s)] = Absent
            /\ \A u \in Targets \ {Target(s)} : recorded'[u] = recorded[u]
        BY <3>1, <3>4 DEF TypeOK
      <4> QED BY <2>c, <2>d, <3>1, <3>2, <3>4, <4>1, WorkKeepsRecords
    <3> QED BY <2>3, <3>3, <3>4 DEF Clean
  <2>4. CASE Check(s)
    <3>1. /\ pc[s] = "check" /\ Target(s) \in Targets
          /\ UNCHANGED <<recorded, device, cur, outcome, forced>>
      BY <2>4, <1>a DEF Check
    <3>2. RecordedOnDevice' /\ Withdrawn' /\ TmpHolds'
      BY <2>4, <2>a, <3>1
         DEF Check, Goto, Target, device, RecordedOnDevice, Withdrawn, TmpHolds, TypeOK
    <3>3. pc'[s] \in {"apply", "record"} => file[Target(s)] = cur[s].content
      <4>1. CASE found'[s] # cur[s].content
        BY <2>4, <4>1 DEF Check, Goto, TypeOK
      <4>2. CASE found'[s] = cur[s].content
        <5>1. cur[s] \in Actions /\ ~cur[s].remove /\ Absent \notin Versions
          BY <3>1, VersionAssumption DEF TypeOK
        <5>2. cur[s].content # Absent
          BY <5>1 DEF Actions
        <5> QED BY <2>4, <4>2, <5>2 DEF Check, TypeOK
      <4> QED BY <4>1, <4>2
    <3>4. FileHolds'
      BY <2>a, <3>1, <3>3 DEF FileHolds, Target, device
    <3> QED BY <3>2, <3>4
  <2>5. CASE WriteTmp(s)
    <3>1. pc[s] = "tmp" /\ Target(s) \in Targets /\ UNCHANGED file
      BY <2>5, <1>a DEF WriteTmp
    <3>2. CASE Continue(s, "unlink") /\ tmp' = [tmp EXCEPT ![Target(s)] = cur[s].content]
      BY <3>1, <3>2, <2>a
         DEF Continue, Goto, Target, RecordedOnDevice, Withdrawn, TmpHolds, FileHolds, TypeOK
    <3>3. CASE Fail(s)
      <4>1. EndAction(s, "failed") /\ recorded' = recorded
        BY <3>3 DEF Fail
      <4> QED BY <2>c, <2>d, <3>1, <4>1, WorkKeepsRecords
    <3> QED BY <2>5, <3>2, <3>3 DEF WriteTmp
  <2>6. CASE Unlink(s)
    <3>1. pc[s] = "unlink" /\ Target(s) \in Targets
      BY <2>6, <1>a DEF Unlink
    <3>2. /\ Continue(s, "rename") /\ UNCHANGED tmp
          /\ \A u \in Targets \ {Target(s)} : file'[u] = file[u]
      BY <2>6, <3>1 DEF Unlink, TypeOK
    <3>3. RecordedOnDevice'
      <4>1. outcome[Target(s)] = "none"
        BY <3>1 DEF Withdrawn
      <4> QED BY <3>1, <3>2, <4>1, WorkKeepsRecords DEF Continue
    <3>4. Withdrawn' /\ TmpHolds' /\ FileHolds'
      BY <2>a, <3>1, <3>2 DEF Continue, Goto, Target, Withdrawn, TmpHolds, FileHolds, TypeOK
    <3> QED BY <3>3, <3>4
  <2>7. CASE Rename(s)
    <3>1. pc[s] = "rename" /\ Target(s) \in Targets
      BY <2>7, <1>a DEF Rename
    <3>2. CASE Continue(s, "apply") /\ file' = [file EXCEPT ![Target(s)] = tmp[Target(s)]]
      <4>1. outcome[Target(s)] = "none" /\ tmp[Target(s)] = cur[s].content
        BY <3>1 DEF Withdrawn, TmpHolds
      <4>2. /\ file'[Target(s)] = cur[s].content
            /\ \A u \in Targets \ {Target(s)} : file'[u] = file[u]
        BY <3>1, <3>2, <4>1 DEF TypeOK
      <4>3. RecordedOnDevice'
        BY <3>1, <3>2, <4>1, <4>2, WorkKeepsRecords DEF Continue
      <4>4. Withdrawn' /\ TmpHolds' /\ FileHolds'
        BY <2>a, <3>1, <3>2, <4>1, <4>2
           DEF Continue, Goto, Target, Withdrawn, TmpHolds, FileHolds, TypeOK
      <4> QED BY <4>3, <4>4
    <3>3. CASE Fail(s) /\ UNCHANGED file
      <4>1. EndAction(s, "failed") /\ recorded' = recorded
        BY <3>3 DEF Fail
      <4> QED BY <2>c, <2>d, <3>1, <3>3, <4>1, WorkKeepsRecords
    <3> QED BY <2>7, <3>2, <3>3 DEF Rename
  <2>8. CASE Apply(s)
    <3>1. /\ pc[s] = "apply" /\ UNCHANGED <<file, tmp>>
          /\ Continue(s, "record") \/ Fail(s)
      BY <2>8 DEF Apply, ApplyWith
    <3>2. Target(s) \in Targets
      BY <1>a, <3>1
    <3>3. CASE Continue(s, "record")
      BY <2>a, <3>1, <3>2, <3>3
         DEF Continue, Goto, Target, RecordedOnDevice, Withdrawn, TmpHolds, FileHolds, TypeOK
    <3>4. CASE Fail(s)
      <4>1. EndAction(s, "failed") /\ recorded' = recorded
        BY <3>4 DEF Fail
      <4> QED BY <2>c, <2>d, <3>1, <3>2, <4>1, WorkKeepsRecords
    <3> QED BY <3>1, <3>3, <3>4
  <2>9. CASE Record(s)
    <3>1. /\ pc[s] = "record" /\ Target(s) \in Targets
          /\ EndAction(s, "ok") /\ UNCHANGED file
          /\ recorded' = [recorded EXCEPT ![Target(s)] = cur[s].content]
      BY <2>9, <1>a DEF Record, device
    <3>2. recorded'[Target(s)] = file'[Target(s)]
      BY <3>1 DEF FileHolds, TypeOK
    <3>3. \A u \in Targets \ {Target(s)} : recorded'[u] = recorded[u]
      BY <3>1 DEF TypeOK
    <3> QED BY <2>c, <2>d, <3>1, <3>2, <3>3, WorkKeepsRecords
  <2> QED BY <1>4, <2>1, <2>2, <2>3, <2>4, <2>5, <2>6, <2>7, <2>8, <2>9 DEF Execute
<1>5. ASSUME NEW n \in Nodes, Collect(n) PROVE DeviceInv'
  BY <1>5 DEF Collect, device, control, RecordedOnDevice, Withdrawn, TmpHolds, FileHolds, Target
<1>6. CASE Merge
  <2>1. /\ UNCHANGED <<device, control>>
        /\ \A t \in Targets : outcome'[t] \in {outcome[t], "none"}
        /\ \A t \in Targets : outcome'[t] = "ok" =>
                outcome[t] = "ok" /\ recorded'[t] = recorded[t]
    BY <1>6 DEF Merge, ReadNode, PutNode
  <2>2. RecordedOnDevice'
    BY <2>1 DEF RecordedOnDevice, device
  <2>3. Withdrawn'
    BY <2>1 DEF Withdrawn, TypeOK, control, Target, Actions, WgTargets
  <2>4. TmpHolds' /\ FileHolds'
    BY <2>1 DEF TmpHolds, FileHolds, device, control, Target
  <2> QED BY <2>2, <2>3, <2>4
<1>7. CASE Restart
  BY <1>7 DEF Restart, RecordedOnDevice, Withdrawn, TmpHolds, FileHolds
<1>8. CASE UNCHANGED vars
  BY <1>8 DEF vars, device, control, RecordedOnDevice, Withdrawn, TmpHolds, FileHolds, Target
<1> QED BY <1>1, <1>2, <1>3, <1>4, <1>5, <1>6, <1>7, <1>8 DEF Next

(* Through failures, restarts, edits and forced or partial runs, a content *)
(* that a lone run reported as synced and recorded is the one on the node. *)
THEOREM RecordsDescribeDevices ==
    ASSUME Exclusive
    PROVE  Spec => []RecordedOnDevice
<1>1. Init => DeviceInv
  BY DEF Init, DeviceInv, RecordedOnDevice, Withdrawn, TmpHolds, FileHolds
<1>2. TypeOK /\ TypeOK' /\ DeviceInv /\ [Next]_vars => DeviceInv'
  BY DeviceStep
<1>3. DeviceInv => RecordedOnDevice
  BY DEF DeviceInv
<1> QED BY <1>1, <1>2, <1>3, Typing, PTL DEF Spec

-----------------------------------------------------------------------------
(***************************************************************************)
(* The order of execution, for any number of runs.  What is left to do of  *)
(* a run comes after its current action, and a run that is not forced has  *)
(* only pending actions; together with the priorities, BIRD comes last.    *)
(***************************************************************************)
AtWork(s) == pc[s] \notin {"idle", "next"}
Sorted == \A s \in Syncs : AtWork(s) => \A b \in todo[s] : Before(cur[s], b)
OnlyPending ==
    \A s \in Syncs : ~forced[s] =>
        /\ \A b \in todo[s] : b.pending
        /\ AtWork(s) => cur[s].pending

OrderInv == Sorted /\ OnlyPending

(* A step that leaves every run's list, current action and mode as they    *)
(* are, or ends the current action, keeps the order.                       *)
LEMMA QuietStep ==
    ASSUME OrderInv, UNCHANGED <<todo, forced>>,
           \A s \in Syncs : AtWork(s)' => AtWork(s) /\ cur'[s] = cur[s]
    PROVE  OrderInv'
BY DEF OrderInv, Sorted, OnlyPending, Before, ActionPriority, AtWork

LEMMA OrderStep ==
    ASSUME TypeOK, OrderInv, [Next]_vars
    PROVE  OrderInv'
<1>1. ASSUME NEW t \in Targets, NEW v \in Contents, Edit(t, v) PROVE OrderInv'
  BY <1>1, QuietStep DEF Edit, control, AtWork
<1>2. CASE TurnVaultLock
  BY <1>2, QuietStep DEF TurnVaultLock, control, AtWork
<1>3. ASSUME NEW s \in Syncs, NEW force \in BOOLEAN, NEW scope \in Scopes,
             NEW nodes \in SUBSET Nodes, NEW answered \in SUBSET Nodes,
             StartSync(s, force, scope, nodes, answered)
      PROVE  OrderInv'
  <2>1. /\ pc' = [pc EXCEPT ![s] = "next"]
        /\ todo' = [todo EXCEPT ![s] =
                {a \in PlanSync(scope, nodes, answered) : force \/ a.pending}]
        /\ forced' = [forced EXCEPT ![s] = force]
        /\ cur' = cur
    BY <1>3 DEF StartSync
  <2> QED BY <2>1 DEF TypeOK, OrderInv, Sorted, OnlyPending, AtWork, Before, ActionPriority
<1>4. ASSUME NEW s \in Syncs, Execute(s) PROVE OrderInv'
  <2>1. CASE Begin(s)
    <3>1. PICK a \in todo[s] :
            /\ \A b \in todo[s] \ {a} : Before(a, b)
            /\ todo' = [todo EXCEPT ![s] = @ \ {a}]
            /\ \/ /\ pc' = [pc EXCEPT ![s] = IF a.remove THEN "clean" ELSE "check"]
                  /\ cur' = [cur EXCEPT ![s] = a]
               \/ UNCHANGED <<pc, cur>>
      BY <2>1 DEF Begin, Goto
    <3>2. pc[s] = "next" /\ UNCHANGED forced
      BY <2>1 DEF Begin
    <3>3. Sorted'
      <4> SUFFICES ASSUME NEW r \in Syncs, AtWork(r)', NEW b \in todo'[r]
                   PROVE  Before(cur[r], b)'
        BY DEF Sorted
      <4>1. CASE r = s
        BY <3>1, <3>2, <4>1 DEF AtWork, Before, ActionPriority, TypeOK
      <4>2. CASE r # s
        BY <3>1, <4>2 DEF AtWork, Before, ActionPriority, TypeOK, OrderInv, Sorted
      <4> QED BY <4>1, <4>2
    <3>4. OnlyPending'
      BY <3>1, <3>2 DEF OrderInv, OnlyPending, AtWork, TypeOK
    <3> QED BY <3>3, <3>4 DEF OrderInv
  <2>2. CASE Finish(s)
    BY <2>2 DEF Finish, Goto, TypeOK, OrderInv, Sorted, OnlyPending, AtWork, Before, ActionPriority
  <2>3. CASE Check(s)
    <3>1. /\ pc[s] = "check" /\ UNCHANGED <<todo, forced, cur>>
          /\ \A r \in Syncs \ {s} : pc'[r] = pc[r]
      BY <2>3 DEF Check, Goto, TypeOK
    <3> QED BY <3>1, QuietStep DEF AtWork
  <2>4. ASSUME NEW step \in Steps, Continue(s, step), AtWork(s) PROVE OrderInv'
    <3>1. /\ UNCHANGED <<todo, forced, cur>>
          /\ \A r \in Syncs \ {s} : pc'[r] = pc[r]
      BY <2>4 DEF Continue, Goto, TypeOK
    <3> QED BY <2>4, <3>1, QuietStep DEF AtWork
  <2>5. ASSUME NEW flag \in {"ok", "failed"}, EndAction(s, flag) PROVE OrderInv'
    <3>1. /\ UNCHANGED <<todo, forced>> /\ pc'[s] = "next"
          /\ \A r \in Syncs \ {s} : pc'[r] = pc[r] /\ cur'[r] = cur[r]
      BY <2>5 DEF EndAction, Goto, TypeOK
    <3> QED BY <3>1, QuietStep DEF AtWork
  <2>6. CASE Clean(s) \/ WriteTmp(s) \/ Unlink(s) \/ Rename(s) \/ Apply(s) \/ Record(s)
    <3>1. AtWork(s)
      BY <2>6 DEF Clean, WriteTmp, Unlink, Rename, Apply, ApplyWith, Record, AtWork
    <3>2. \/ \E step \in Steps : Continue(s, step)
          \/ \E flag \in {"ok", "failed"} : EndAction(s, flag)
      BY <2>6 DEF Clean, WriteTmp, Unlink, Rename, Apply, ApplyWith, Record, Fail, Steps
    <3> QED BY <2>4, <2>5, <3>1, <3>2
  <2> QED BY <1>4, <2>1, <2>2, <2>3, <2>6 DEF Execute
<1>5. ASSUME NEW n \in Nodes, Collect(n) PROVE OrderInv'
  BY <1>5, QuietStep DEF Collect, control, AtWork
<1>6. CASE Merge
  BY <1>6, QuietStep DEF Merge, ReadNode, PutNode, control, AtWork
<1>7. CASE Restart
  BY <1>7 DEF Restart, OrderInv, Sorted, OnlyPending, AtWork
<1>8. CASE UNCHANGED vars
  BY <1>8, QuietStep DEF vars, control, AtWork
<1> QED BY <1>1, <1>2, <1>3, <1>4, <1>5, <1>6, <1>7, <1>8 DEF Next

(* No unforced run, of any number that overlap, reloads BIRD while it has  *)
(* interfaces or ROA tables left to deal with.                             *)
THEOREM BirdComesLast == Spec => []RoutingLast
<1>1. Init => OrderInv
  BY DEF Init, OrderInv, Sorted, OnlyPending, AtWork
<1>2. TypeOK /\ OrderInv /\ [Next]_vars => OrderInv'
  BY OrderStep
<1>3. TypeOK /\ OrderInv => RoutingLast
  <2> SUFFICES ASSUME TypeOK, OrderInv, NEW s \in Syncs, AtWork(s), ~forced[s],
                      Kind[Target(s)] = "bird", NEW a \in todo[s],
                      Kind[a.target] \in {"wg", "roa"}
               PROVE  FALSE
    BY DEF RoutingLast, AtWork
  <2>1. Before(cur[s], a) /\ a.pending /\ cur[s].pending
    BY DEF OrderInv, Sorted, OnlyPending
  <2>2. cur[s] \in Actions /\ a \in Actions
    BY DEF TypeOK, AtWork
  <2>3. ~cur[s].remove
    BY <2>2 DEF Actions, WgTargets, Target
  <2>4. ActionPriority(cur[s]) = 4
    BY <2>3 DEF ActionPriority, Target
  <2>5. ActionPriority(a) \in {1, 2, 3}
    BY DEF ActionPriority
  <2> QED BY <2>1, <2>4, <2>5 DEF Before
<1> QED BY <1>1, <1>2, <1>3, Typing, PTL DEF Spec
-----------------------------------------------------------------------------
(***************************************************************************)
(* The store.  What a restart keeps is inductive with the shape of a       *)
(* collection: the nodes it has touched are those whose map it has changed *)
(* since it began to change it, and the record it holds is of a node that  *)
(* it found and has yet to put back.                                       *)
(***************************************************************************)
Collected == UNION {[probed -> SUBSET Names] : probed \in SUBSET Names}
Updates ==
    [at : {"idle", "prune", "merge"}, full : BOOLEAN, nodes : SUBSET Names, found : Collected,
     todo : SUBSET Names, held : Store!Record \cup {None}, of : Names \cup {None},
     touched : SUBSET Names]

Shaped ==
    /\ update \in Updates
    /\ update.todo \subseteq DOMAIN update.found
    /\ DOMAIN update.found \subseteq update.nodes
    /\ update.at # "merge" => update.touched = {} /\ update.of = None
    /\ update.of # None => update.of \in update.todo /\ update.held \in Store!Record
Records == [Names -> Store!Record \cup {None}]
StoreTyped ==
    /\ topology \subseteq Names
    /\ cache \in Records /\ rows \in Records
    /\ failed \subseteq Names /\ saved \subseteq Names /\ steps \in 0..MaxSteps
StoreInv == StoreTyped /\ Shaped /\ Store!RestartKeeps

USE NamesAssumption, NoRecordAssumption

(* No collection is under way.                                             *)
LEMMA NoUpdateShaped ==
    /\ Store!NoUpdate \in Updates
    /\ Store!NoUpdate.todo = {} /\ DOMAIN Store!NoUpdate.found = {}
    /\ Store!NoUpdate.at = "idle" /\ Store!NoUpdate.touched = {} /\ Store!NoUpdate.of = None
<1>1. <<>> \in Collected
    <2>1. <<>> \in [{} -> SUBSET Names]
        OBVIOUS
    <2>2. QED
        BY <2>1 DEF Collected
<1>2. QED
    BY <1>1 DEF Store!NoUpdate, Updates

LEMMA StoreInit ==
    ASSUME Store!Init
    PROVE  StoreInv
<1>1. StoreTyped
    BY DEF Store!Init, StoreTyped, Records
<1>2. Shaped
    BY NoUpdateShaped DEF Store!Init, Shaped
<1>3. Store!RestartKeeps
    BY DEF Store!Init, Store!RestartKeeps
<1>4. QED
    BY <1>1, <1>2, <1>3 DEF StoreInv

(* One record is changed in memory, and its row is written or not.         *)
LEMMA StoreKeeps ==
    ASSUME StoreInv, NEW n \in Names, NEW record \in Store!Record, Store!Store(n, record)
    PROVE  StoreInv'
<1> USE DEF StoreInv, StoreTyped, Records
<1>1. /\ cache' = [cache EXCEPT ![n] = record]
      /\ steps' \in 0..MaxSteps
      /\ UNCHANGED <<topology, update>>
    BY DEF Store!Store, Store!Count
<1>2. Shaped'
    BY <1>1 DEF Shaped
<1>3. \/ rows' = [rows EXCEPT ![n] = record] /\ failed' = failed \ {n} /\ saved' = saved \ {n}
      \/ UNCHANGED <<rows, saved>> /\ failed' = failed \cup {n}
    BY DEF Store!Store, Store!SaveNode
<1>4. StoreTyped'
    BY <1>1, <1>3
<1>5. Store!RestartKeeps'
    BY <1>1, <1>3 DEF Store!RestartKeeps
<1>6. QED
    BY <1>2, <1>4, <1>5

LEMMA NodeTyped ==
    ASSUME StoreInv, NEW n \in Names
    PROVE  /\ Store!Node(n) \in Store!Record
           /\ cache[n] # None => cache[n] \in Store!Record
BY DEF StoreInv, StoreTyped, Records, Store!Node, Store!New, Store!Record

(* The operations on one record.                                           *)
LEMMA RecordsKeep ==
    ASSUME StoreInv, NEW n \in Names,
           \/ Store!UpdateBirdState(n) \/ Store!UpdateHostsState(n) \/ Store!RemoveAppState(n)
           \/ Store!UpdateInterface(n) \/ Store!RemoveInterface(n)
           \/ Store!UpdateInterfacesTelemetry(n)
    PROVE  StoreInv'
<1>1. \E record \in Store!Record : Store!Store(n, record)
    <2>1. topology \subseteq Names
        BY DEF StoreInv, StoreTyped
    <2>2. CASE Store!UpdateBirdState(n)
        BY <2>2, NodeTyped DEF Store!UpdateBirdState, Store!Record
    <2>3. CASE Store!UpdateHostsState(n)
        BY <2>3, NodeTyped DEF Store!UpdateHostsState, Store!Record
    <2>4. CASE Store!RemoveAppState(n)
        BY <2>4, NodeTyped DEF Store!RemoveAppState, Store!Record
    <2>5. CASE Store!UpdateInterface(n)
        BY <2>1, <2>5, NodeTyped DEF Store!UpdateInterface, Store!Record
    <2>6. CASE Store!RemoveInterface(n)
        BY <2>6, NodeTyped DEF Store!RemoveInterface, Store!Record
    <2>7. CASE Store!UpdateInterfacesTelemetry(n)
        BY <2>1, <2>7, NodeTyped DEF Store!UpdateInterfacesTelemetry, Store!Record
    <2>8. QED
        BY <2>2, <2>3, <2>4, <2>5, <2>6, <2>7
<1>2. QED
    BY <1>1, StoreKeeps

LEMMA RemoveKeeps ==
    ASSUME StoreInv, NEW n \in Names, Store!RemoveNode(n)
    PROVE  StoreInv'
<1> USE DEF StoreInv, StoreTyped, Records
<1>1. /\ cache' = [cache EXCEPT ![n] = None]
      /\ steps' \in 0..MaxSteps
      /\ topology' \subseteq Names
      /\ UNCHANGED update
    BY DEF Store!RemoveNode, Store!Count
<1>2. Shaped'
    BY <1>1 DEF Shaped
<1>3. \/ rows' = [rows EXCEPT ![n] = None] /\ failed' = failed \ {n} /\ saved' = saved \ {n}
      \/ UNCHANGED <<rows, saved>> /\ failed' = failed \cup {n}
    BY DEF Store!RemoveNode
<1>4. StoreTyped'
    BY <1>1, <1>3
<1>5. Store!RestartKeeps'
    BY <1>1, <1>3 DEF Store!RestartKeeps
<1>6. QED
    BY <1>2, <1>4, <1>5

(* A rename writes every row of a node that has a record, and that of the  *)
(* old name: the others had no record before, and have none now.           *)
LEMMA RenameKeeps ==
    ASSUME StoreInv, NEW old \in Names, NEW new \in Names, Store!RenameNode(old, new)
    PROVE  StoreInv'
<1> USE DEF StoreInv, StoreTyped, Records
<1>1. /\ cache' = [n \in Names |-> Store!LeadsTo(old, new, Store!Moved(old, new)[n])]
      /\ steps' \in 0..MaxSteps
      /\ topology' \subseteq Names
      /\ UNCHANGED update
    BY DEF Store!RenameNode, Store!Count
<1>2. PICK fails \in SUBSET Store!Written(old, new) :
        /\ rows' = [n \in Names |-> IF n \in Store!Written(old, new) \ fails
                                    THEN cache'[n] ELSE rows[n]]
        /\ failed' = (failed \ (Store!Written(old, new) \ fails)) \cup fails
        /\ saved' = saved \ (Store!Written(old, new) \ fails)
    BY DEF Store!RenameNode
<1>3. ASSUME NEW n \in Names PROVE cache'[n] \in Store!Record \cup {None}
    <2>1. Store!Moved(old, new)[n] \in Store!Record \cup {None}
        BY DEF Store!Moved
    <2>2. QED
        BY <1>1, <2>1 DEF Store!LeadsTo, Store!Record
<1>4. cache' \in Records
    BY <1>1, <1>3
<1>5. Store!Written(old, new) \subseteq Names
    BY DEF Store!Written
<1>6. StoreTyped'
    <2>1. rows' \in Records
        BY <1>2, <1>3
    <2>2. failed' \subseteq Names /\ saved' \subseteq Names
        BY <1>2, <1>5
    <2>3. QED
        BY <1>1, <1>4, <2>1, <2>2
<1>7. Shaped'
    BY <1>1 DEF Shaped
<1>8. ASSUME NEW n \in Names, n \notin Store!Written(old, new)
      PROVE  cache'[n] = None /\ cache[n] = None
    <2>1. cache'[n] = None /\ (cache[old] = None \/ n # old)
        BY <1>8 DEF Store!Written
    <2>2. Store!Moved(old, new)[n] \in Store!Record \cup {None}
        BY DEF Store!Moved
    <2>3. Store!Moved(old, new)[n] = None
        BY <1>1, <2>1, <2>2 DEF Store!LeadsTo, Store!Record
    <2>4. QED
        BY <2>1, <2>3 DEF Store!Moved
<1>9. Store!RestartKeeps'
    <2> SUFFICES ASSUME NEW n \in Names, n \notin failed', n \notin update'.touched
                 PROVE  IF cache'[n] = None THEN rows'[n] = None
                        ELSE /\ rows'[n] # None
                             /\ rows'[n].routing = cache'[n].routing
                             /\ rows'[n].peers = cache'[n].peers
                             /\ n \notin saved' => rows'[n].agent = cache'[n].agent
        BY DEF Store!RestartKeeps
    <2>1. CASE n \in Store!Written(old, new)
        BY <1>2, <2>1
    <2>2. CASE n \notin Store!Written(old, new)
        <3>1. rows'[n] = rows[n] /\ n \notin failed /\ n \notin update.touched
            BY <1>1, <1>2, <2>2
        <3>2. QED
            BY <1>8, <2>2, <3>1 DEF Store!RestartKeeps
    <2>3. QED
        BY <2>1, <2>2
<1>10. QED
    BY <1>6, <1>7, <1>9

-----------------------------------------------------------------------------
(* A collection.                                                           *)
LEMMA CollectKeeps ==
    ASSUME StoreInv, NEW full \in BOOLEAN, Store!Collect(full)
    PROVE  StoreInv'
<1> USE DEF StoreInv, StoreTyped, Records
<1>1. UNCHANGED <<topology, cache, rows, failed, saved>> /\ steps' \in 0..MaxSteps
    BY DEF Store!Collect, Store!Count
<1>2. update.at = "idle" /\ update.touched = {}
    BY DEF Store!Collect, Shaped
<1>3. PICK probed \in SUBSET topology, peers \in {{}, topology} :
        update' = [Store!NoUpdate EXCEPT !.at = "prune", !.full = full, !.nodes = topology,
                                         !.found = [n \in probed |-> peers \ {n}], !.todo = probed]
    BY DEF Store!Collect
<1>4. [n \in probed |-> peers \ {n}] \in Collected
    <2>1. [n \in probed |-> peers \ {n}] \in [probed -> SUBSET Names]
        OBVIOUS
    <2>2. probed \in SUBSET Names
        OBVIOUS
    <2>3. QED
        BY <2>1, <2>2 DEF Collected
<1>5. /\ update' \in Updates
      /\ update'.at = "prune" /\ update'.touched = {} /\ update'.of = None
      /\ update'.todo = probed /\ DOMAIN update'.found = probed /\ update'.nodes = topology
    BY <1>3, <1>4, NoUpdateShaped DEF Updates
<1>6. Shaped'
    BY <1>5 DEF Shaped
<1>7. Store!RestartKeeps'
    BY <1>1, <1>2, <1>5 DEF Store!RestartKeeps
<1>8. QED
    BY <1>1, <1>6, <1>7

LEMMA PruneKeeps ==
    ASSUME StoreInv, Store!Prune
    PROVE  StoreInv'
<1> USE DEF StoreInv, StoreTyped, Records
<1> DEFINE gone == IF update.full THEN {n \in Names \ update.nodes : cache[n] # None} ELSE {}
<1>1. /\ update.at = "prune"
      /\ cache' = [n \in Names |-> IF n \in gone THEN None ELSE cache[n]]
      /\ update' = [update EXCEPT !.at = "merge", !.touched = gone]
      /\ UNCHANGED <<topology, rows, failed, saved, steps>>
    BY DEF Store!Prune
<1>2. update.touched = {} /\ update.of = None
    BY <1>1 DEF Shaped
<1>3. gone \subseteq Names
    OBVIOUS
<1>4. /\ update' \in Updates /\ update'.touched = gone /\ update'.of = None
      /\ update'.todo = update.todo /\ update'.found = update.found
      /\ update'.nodes = update.nodes /\ update'.at = "merge"
    BY <1>1, <1>2, <1>3 DEF Shaped, Updates
<1>5. Shaped'
    BY <1>4 DEF Shaped
<1>6. Store!RestartKeeps'
    BY <1>1, <1>2, <1>4 DEF Store!RestartKeeps
<1>7. QED
    BY <1>1, <1>5, <1>6

LEMMA ReadKeeps ==
    ASSUME StoreInv, NEW n \in Names, Store!ReadNode(n)
    PROVE  StoreInv'
<1>1. /\ update.at = "merge" /\ n \in update.todo
      /\ update' = [update EXCEPT !.of = n, !.held = Store!Node(n)]
      /\ UNCHANGED <<topology, cache, rows, failed, saved, steps>>
    BY DEF Store!ReadNode
<1>2. Store!Node(n) \in Store!Record
    BY NodeTyped
<1>3. Shaped'
    BY <1>1, <1>2 DEF StoreInv, Shaped, Updates
<1>4. update'.touched = update.touched
    BY <1>1 DEF StoreInv, Shaped, Updates
<1>5. QED
    BY <1>1, <1>3, <1>4 DEF StoreInv, StoreTyped, Store!RestartKeeps

LEMMA PutKeeps ==
    ASSUME StoreInv, Store!PutNode
    PROVE  StoreInv'
<1> USE DEF StoreInv, StoreTyped, Records
<1>1. /\ update.at = "merge" /\ update.of # None
      /\ cache' = [cache EXCEPT ![update.of] =
                        [update.held EXCEPT !.peers = update.found[update.of]]]
      /\ update' = [update EXCEPT !.of = None, !.held = None, !.todo = @ \ {update.of},
                                  !.touched = @ \cup {update.of}]
      /\ UNCHANGED <<topology, rows, failed, saved, steps>>
    BY DEF Store!PutNode
<1>2. update.of \in Names /\ update.held \in Store!Record /\ update.of \in DOMAIN update.found
    BY <1>1 DEF Shaped, Updates
<1>3. update.found[update.of] \in SUBSET Names
    <2>1. update.found \in Collected
        BY DEF Shaped, Updates
    <2>2. PICK probed \in SUBSET Names : update.found \in [probed -> SUBSET Names]
        BY <2>1 DEF Collected
    <2>3. QED
        BY <1>2, <2>2
<1>4. [update.held EXCEPT !.peers = update.found[update.of]] \in Store!Record
    BY <1>2, <1>3 DEF Store!Record
<1>5. cache' \in Records
    BY <1>1, <1>2, <1>4
<1>6. /\ update' \in Updates
      /\ update'.of = None /\ update'.at = "merge"
      /\ update'.todo = update.todo \ {update.of}
      /\ update'.touched = update.touched \cup {update.of}
      /\ update'.found = update.found /\ update'.nodes = update.nodes
    BY <1>1, <1>2 DEF Shaped, Updates
<1>7. Shaped'
    BY <1>6 DEF Shaped
<1>8. Store!RestartKeeps'
    BY <1>1, <1>2, <1>6 DEF Store!RestartKeeps
<1>9. QED
    BY <1>1, <1>5, <1>7, <1>8

LEMMA SaveKeeps ==
    ASSUME StoreInv, Store!Save
    PROVE  StoreInv'
<1> USE DEF StoreInv, StoreTyped, Records
<1>1. update' = Store!NoUpdate /\ UNCHANGED <<topology, cache, steps>>
    BY DEF Store!Save
<1>2. update.touched \subseteq Names /\ update'.touched = {}
    BY <1>1, NoUpdateShaped DEF Shaped, Updates
<1>3. Shaped'
    BY <1>1, NoUpdateShaped DEF Shaped
<1>4. CASE /\ rows' = [n \in Names |-> IF cache[n] = None THEN None
                                       ELSE [cache[n] EXCEPT !.agent = 0]]
           /\ failed' = {} /\ saved' = {n \in Names : cache[n] # None /\ cache[n].agent # 0}
    <2>1. ASSUME NEW n \in Names
          PROVE  /\ rows'[n] \in Store!Record \cup {None}
                 /\ IF cache[n] = None THEN rows'[n] = None
                    ELSE /\ rows'[n] # None
                         /\ rows'[n].routing = cache[n].routing /\ rows'[n].peers = cache[n].peers
                         /\ n \notin saved' => rows'[n].agent = cache[n].agent
        <3>1. CASE cache[n] = None
            BY <1>4, <3>1
        <3>2. CASE cache[n] # None
            <4>1. cache[n] \in Store!Record /\ rows'[n] = [cache[n] EXCEPT !.agent = 0]
                BY <1>4, <3>2
            <4>2. rows'[n] \in Store!Record
                BY <4>1 DEF Store!Record
            <4>3. /\ rows'[n].routing = cache[n].routing /\ rows'[n].peers = cache[n].peers
                  /\ rows'[n].agent = 0
                BY <4>1 DEF Store!Record
            <4>4. QED
                BY <1>4, <3>2, <4>2, <4>3
        <3>3. QED
            BY <3>1, <3>2
    <2>2. StoreTyped'
        BY <1>1, <1>4, <2>1
    <2>3. Store!RestartKeeps'
        BY <1>1, <2>1 DEF Store!RestartKeeps
    <2>4. QED
        BY <1>3, <2>2, <2>3
<1>5. CASE UNCHANGED <<rows, saved>> /\ failed' = failed \cup update.touched
    <2>1. StoreTyped'
        BY <1>1, <1>2, <1>5
    <2>2. Store!RestartKeeps'
        BY <1>1, <1>2, <1>5 DEF Store!RestartKeeps
    <2>3. QED
        BY <1>3, <2>1, <2>2
<1>6. QED
    BY <1>4, <1>5 DEF Store!Save

LEMMA LoadKeeps ==
    ASSUME StoreInv, Store!Restart
    PROVE  StoreInv'
<1>1. /\ cache' = rows /\ update' = Store!NoUpdate /\ failed' = {} /\ saved' = {}
      /\ UNCHANGED <<topology, rows, steps>>
    BY DEF Store!Restart
<1>2. Shaped'
    BY <1>1, NoUpdateShaped DEF Shaped
<1>3. QED
    BY <1>1, <1>2 DEF StoreInv, StoreTyped, Store!RestartKeeps

LEMMA StoreStep ==
    ASSUME StoreInv, [Store!Next]_(Store!vars)
    PROVE  StoreInv'
<1>1. CASE UNCHANGED Store!vars
    BY <1>1 DEF Store!vars, StoreInv, StoreTyped, Shaped, Store!RestartKeeps
<1>2. QED
    BY <1>1, RecordsKeep, RemoveKeeps, RenameKeeps, CollectKeeps, PruneKeeps, ReadKeeps,
       PutKeeps, SaveKeeps, LoadKeeps DEF Store!Next

(* For every number of nodes and of operations, a restart at any moment    *)
(* finds what was recorded of a node, but for what its last write lost, a  *)
(* collection has yet to write, or the last collection did not write.      *)
THEOREM RecordsSurvive == SpecParts => []RestartKeeps
<1>1. InitParts => StoreInv
    BY StoreInit DEF InitParts
<1>2. StoreInv /\ [NextSync \/ NextStore]_partVars => StoreInv'
    BY StoreStep DEF NextSync, NextStore, partVars, storeVars, Store!vars
<1>3. StoreInv => RestartKeeps
    BY DEF StoreInv, StoreTyped, Records, Shaped, Updates, RestartKeeps, Store!TypeOK
<1>4. QED
    BY <1>1, <1>2, <1>3, PTL DEF SpecParts
=============================================================================
