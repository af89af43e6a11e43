---------------------------- MODULE SshSyncLive ----------------------------
(***************************************************************************)
(* What repeated sync runs achieve once things settle down.  "calm" holds  *)
(* from a moment on which the operator makes no more edits, the vault      *)
(* stays unlocked, and devices and connections stop failing; everything    *)
(* SshSync allows may have happened before, with any damage left behind.   *)
(***************************************************************************)
EXTENDS SshSync

VARIABLE calm

liveVars == <<vars, calm>>

LiveInit == Init /\ calm = FALSE

(* Nothing in the controller keeps two runs apart; calm assumes that the   *)
(* operator does.                                                          *)
Alone == \A s \in Syncs : pc[s] = "idle"

(* Calm begins between two runs; UpdateState may be under way.             *)
Settle ==
    /\ ~calm
    /\ unlocked
    /\ Alone
    /\ calm' = TRUE
    /\ UNCHANGED vars

(* A step of a run in which nothing fails.                                 *)
CalmExecute(s) ==
    /\ Execute(s)
    /\ pc[s] = "next" /\ todo[s] # {} => pc'[s] # "next"
    /\ pc[s] = "clean" => file'[Target(s)] = Absent /\ live'[Target(s)] = Absent
    /\ pc[s] = "check" => found'[s] = file[Target(s)]
    /\ pc[s] = "unlink" => file'[Target(s)] = Absent
    /\ pc[s] = "apply" => ApplyWith(s, TRUE, TRUE)
    /\ pc[s] \notin {"idle", "next"} /\ pc'[s] = "next" => outcome'[Target(s)] = "ok"

CalmCollect(n) ==
    /\ Collect(n)
    /\ \A t \in WgTargets : collected'.seen[t] = file[t]

StartScheduled(s) == Alone /\ StartSync(s, FALSE, "auto", Nodes, Nodes)
StartForced(s) == Alone /\ StartSync(s, TRUE, "full", Nodes, Nodes)

(* Before calm, anything; then runs of both kinds, and nothing that fails. *)
LiveNext ==
    \/ ~calm /\ Next /\ UNCHANGED calm
    \/ Settle
    \/ /\ calm
       /\ UNCHANGED calm
       /\ \/ \E s \in Syncs : StartScheduled(s) \/ StartForced(s) \/ CalmExecute(s)
          \/ \E n \in Nodes : CalmCollect(n)
          \/ Merge

(* A run, once started, goes on to its end: every remote command has a     *)
(* timeout.  UpdateState merges what it collected.  The scheduled task     *)
(* starts an unforced run again and again; nobody has to force one.        *)
LiveSpec ==
    /\ LiveInit /\ [][LiveNext]_liveVars
    /\ \A s \in Syncs : WF_liveVars(calm /\ CalmExecute(s) /\ UNCHANGED calm)
    /\ WF_liveVars(Merge /\ UNCHANGED calm)
    /\ WF_liveVars(calm /\ (\E s \in Syncs : StartScheduled(s)) /\ UNCHANGED calm)

-----------------------------------------------------------------------------
(* What scheduled runs achieve: what the topology asks for is recorded, of *)
(* every target, and every interface it no longer has is down.             *)
Converged ==
    \A t \in Targets :
        /\ recorded[t] = desired[t]
        /\ desired[t] = Absent => live[t] = Absent

(* What forced runs achieve: all files hold, and all services run, what    *)
(* the topology asks for, and interfaces have its MTU.  (Not its           *)
(* addresses: an interface is restarted for them only while the file still *)
(* has the old ones.)                                                      *)
Deployed ==
    \A t \in Targets :
        desired[t] # Absent =>
            /\ file[t] = desired[t] /\ live[t] = desired[t]
            /\ Kind[t] = "wg" => layout[t].mtu = Mtu[desired[t]]

(* Scheduled runs converge for good, no late UpdateState and no leftover   *)
(* of a failed action bringing a difference back: unless the operator      *)
(* forces runs again and again, which rewrite files while UpdateState      *)
(* reads them.                                                             *)
KeepsForcing == []<><<\E s \in Syncs : StartForced(s)>>_liveVars
Converges == KeepsForcing \/ (calm ~> []Converged)

(* Forced runs repair what the records hide: if the operator does force    *)
(* runs again and again then, all is deployed whatever failed before.      *)
ForceRepairs == KeepsForcing => (calm ~> Deployed)
=============================================================================
