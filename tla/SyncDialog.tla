----------------------------- MODULE SyncDialog -----------------------------
(***************************************************************************)
(* The dialog that shows what a synchronization would do, to one node or   *)
(* to all, and does it (SyncProgressModal.tsx).  It asks for the plan when *)
(* it opens, when its target changes and when the vault is locked or       *)
(* unlocked.  Escape closes it whatever is under way, and an answer that   *)
(* comes then is put in the dialog that is open by that time.  Logging out *)
(* unmounts it with all it shows: answers to what it asked are then lost,  *)
(* while the server still does what it was asked to.  A configuration that *)
(* was applied may start a sync as well, which the dialog knows nothing of.*)
(***************************************************************************)
EXTENDS Naturals

CONSTANTS
    Nodes,
    Calls,        \* the requests that may be under way at a time
    MaxSteps      \* how often the dialog opens, the user logs in, the vault turns, a
                  \* device changes and a configuration is applied

None == "none"
Targets == Nodes \cup {"all"}
Scope(t) == IF t = "all" THEN Nodes ELSE {t}

VARIABLES
    mounted,        \* is the user logged in, and so the dialog there
    open, target,   \* syncOpen, syncTargetNode, which outlive the dialog
    server,         \* the nodes whose devices differ from the configuration
    shown,          \* the plan, the results, and what went wrong: of which target each is
    calls, busy,    \* the requests under way; loadingPreview, updatingState, syncing
    crossed,        \* history: something of its own was under way when the dialog last started over
    steps
vars == <<mounted, open, target, server, shown, calls, busy, crossed, steps>>

NoPlan == [of |-> None, actions |-> {}, pending |-> {}]
NoCall == [op |-> None, of |-> None, at |-> None, plan |-> NoPlan, failed |-> {},
           afterProbe |-> FALSE, own |-> FALSE]
Plans == [of : Targets \cup {None}, actions : SUBSET Nodes, pending : SUBSET Nodes]
Shown == [plan : Plans, results : Targets \cup {None}, failed : SUBSET Nodes, error : BOOLEAN]
Requests == [op : {None, "preview", "probe", "execute"}, of : Targets \cup {None},
             at : {None, "sent", "done"}, plan : Plans, failed : SUBSET Nodes,
             afterProbe : BOOLEAN, own : BOOLEAN]   \* own: of the dialog that is mounted

TypeOK ==
    /\ mounted \in BOOLEAN /\ open \in BOOLEAN /\ target \in Targets /\ server \subseteq Nodes
    /\ shown \in Shown /\ calls \in [Calls -> Requests]
    /\ busy \subseteq {"preview", "probe", "execute"}
    /\ crossed \in BOOLEAN /\ steps \in 0..MaxSteps

Blank == [plan |-> NoPlan, results |-> None, failed |-> {}, error |-> FALSE]

Init ==
    /\ mounted = TRUE /\ open = FALSE /\ target = "all" /\ server \in SUBSET Nodes
    /\ shown = Blank
    /\ calls = [c \in Calls |-> NoCall] /\ busy = {} /\ crossed = FALSE /\ steps = 0

UnderWay == {c \in Calls : calls[c].op # None}
Own == {c \in Calls : calls[c].own}
Sent(op, of) == [NoCall EXCEPT !.op = op, !.of = of, !.at = "sent", !.own = TRUE]
Step == steps < MaxSteps /\ steps' = steps + 1

-----------------------------------------------------------------------------
(* The effect: results and errors go, the plan stays until the next comes. *)
StartsOver ==
    /\ \E c \in Calls \ UnderWay : calls' = [calls EXCEPT ![c] = Sent("preview", target')]
    /\ busy' = busy \cup {"preview"} /\ crossed' = (Own # {})
    /\ shown' = [shown EXCEPT !.results = None, !.failed = {}, !.error = FALSE]

OpenSyncModal(t) ==
    /\ mounted /\ ~open /\ Step /\ open' = TRUE /\ target' = t /\ StartsOver
    /\ UNCHANGED <<mounted, server>>

(* The Cancel button waits for a sync or a probe; Escape does not.         *)
CloseSyncModal ==
    /\ mounted /\ open /\ open' = FALSE /\ target' = "all"
    /\ UNCHANGED <<mounted, server, shown, calls, busy, crossed, steps>>

(* In another window, by the idle timeout, or by the dialog's own button.  *)
VaultTurns ==
    /\ Step /\ UNCHANGED <<mounted, open, target, server>>
    /\ IF mounted /\ open THEN StartsOver ELSE UNCHANGED <<shown, calls, busy, crossed>>

ConfigChanges(n) ==
    /\ Step /\ server' = server \cup {n}
    /\ UNCHANGED <<mounted, open, target, shown, calls, busy, crossed>>

(* The dialog goes with all it shows, though it may be open.               *)
HandleLogout ==
    /\ mounted /\ mounted' = FALSE /\ shown' = Blank /\ busy' = {}
    /\ calls' = [c \in Calls |-> [calls[c] EXCEPT !.own = FALSE]]
    /\ UNCHANGED <<open, target, server, crossed, steps>>

OnLoginSuccess ==
    /\ ~mounted /\ Step /\ mounted' = TRUE
    /\ UNCHANGED <<open, target, server>>
    /\ IF open THEN StartsOver ELSE UNCHANGED <<shown, calls, busy, crossed>>

(* A configuration was applied (ApplyDialog) and is to be synchronized: of *)
(* the nodes it affects, or of all.                                        *)
BackgroundSync(t) ==
    /\ Step
    /\ \E c \in Calls \ UnderWay :
           calls' = [calls EXCEPT ![c] = [Sent("execute", t) EXCEPT !.own = FALSE]]
    /\ UNCHANGED <<mounted, open, target, server, shown, busy, crossed>>

-----------------------------------------------------------------------------
(* What the dialog shows, and the buttons that go with it                  *)

View == IF "preview" \in busy THEN "loading" ELSE IF shown.error THEN "error"
        ELSE IF shown.results # None THEN "results" ELSE "plan"
PendingActions == shown.plan.pending
SyncedActions == shown.plan.actions \ shown.plan.pending
AllSynced == View = "results" /\ shown.failed = {}

(* A mutant: the buttons wait for the preview only.                        *)
PressAnyTime(op) ==
    /\ mounted /\ open /\ shown.results = None
    /\ \E c \in Calls \ UnderWay : calls' = [calls EXCEPT ![c] = Sent(op, target)]
    /\ busy' = busy \cup {op}
    /\ UNCHANGED <<mounted, open, target, server, crossed, steps>>

Press(op) ==
    /\ mounted /\ open /\ shown.results = None /\ busy \cap {"probe", "execute"} = {}
    /\ \E c \in Calls \ UnderWay : calls' = [calls EXCEPT ![c] = Sent(op, target)]
    /\ busy' = busy \cup {op}
    /\ UNCHANGED <<mounted, open, target, server, crossed, steps>>

HandleUpdateLiveState == "preview" \notin busy /\ Press("probe") /\ UNCHANGED shown

HandleExecuteSync(force) ==
    /\ IF force THEN PendingActions \cup SyncedActions # {} ELSE PendingActions # {}
    /\ Press("execute") /\ UNCHANGED shown
ApplyChanges == HandleExecuteSync(FALSE)
ForceApply == HandleExecuteSync(TRUE)

-----------------------------------------------------------------------------
(* The server: a plan is of what differs then; a sync plans anew, and may  *)
(* fail on some of the nodes.                                              *)

ServerPlans(c) ==
    /\ calls[c].op = "preview" /\ calls[c].at = "sent"
    /\ calls' = [calls EXCEPT ![c].at = "done", ![c].plan =
           [of |-> calls[c].of, actions |-> Scope(calls[c].of),
            pending |-> Scope(calls[c].of) \cap server]]
    /\ UNCHANGED <<mounted, open, target, server, shown, busy, crossed, steps>>

ServerProbes(c) ==
    /\ calls[c].op = "probe" /\ calls[c].at = "sent" /\ calls' = [calls EXCEPT ![c].at = "done"]
    /\ UNCHANGED <<mounted, open, target, server, shown, busy, crossed, steps>>

ServerSyncs(c, failed) ==
    /\ calls[c].op = "execute" /\ calls[c].at = "sent" /\ failed \subseteq Scope(calls[c].of)
    /\ server' = server \ (Scope(calls[c].of) \ failed)
    /\ calls' = [calls EXCEPT ![c].at = "done", ![c].failed = failed]
    /\ UNCHANGED <<mounted, open, target, shown, busy, crossed, steps>>

-----------------------------------------------------------------------------
(* Answers                                                                 *)

PreviewArrives(c) ==
    /\ calls[c].own /\ calls[c].op = "preview" /\ calls[c].at = "done"
    /\ shown' = [shown EXCEPT !.plan = calls[c].plan, !.error = FALSE]
    /\ busy' = busy \ ({"preview"} \cup IF calls[c].afterProbe THEN {"probe"} ELSE {})
    /\ calls' = [calls EXCEPT ![c] = NoCall]
    /\ UNCHANGED <<mounted, open, target, server, crossed, steps>>

(* A probe asks for the plan again, of the target it was started for, and  *)
(* ends with that.                                                         *)
ProbeArrives(c) ==
    /\ calls[c].own /\ calls[c].op = "probe" /\ calls[c].at = "done"
    /\ calls' = [calls EXCEPT ![c] = [Sent("preview", calls[c].of) EXCEPT !.afterProbe = TRUE]]
    /\ busy' = busy \cup {"preview"} /\ shown' = [shown EXCEPT !.error = FALSE]
    /\ UNCHANGED <<mounted, open, target, server, crossed, steps>>

SyncArrives(c) ==
    /\ calls[c].own /\ calls[c].op = "execute" /\ calls[c].at = "done"
    /\ shown' = [shown EXCEPT !.results = calls[c].of, !.failed = calls[c].failed]
    /\ busy' = busy \ {"execute"} /\ calls' = [calls EXCEPT ![c] = NoCall]
    /\ UNCHANGED <<mounted, open, target, server, crossed, steps>>

(* Of a dialog that is gone, or of no dialog.  A probe still asks for the  *)
(* plan.                                                                   *)
Unheard(c) ==
    /\ calls[c].op # None /\ ~calls[c].own /\ calls[c].at = "done"
    /\ calls' = [calls EXCEPT ![c] =
           IF calls[c].op = "probe" THEN [Sent("preview", calls[c].of) EXCEPT !.own = FALSE] ELSE NoCall]
    /\ UNCHANGED <<mounted, open, target, server, shown, busy, crossed, steps>>

(* A mutant: the probe's flag stays up when the plan it asks for fails.    *)
FailsHalfway(c) ==
    /\ calls[c].op # None
    /\ shown' = [shown EXCEPT !.error = @ \/ (calls[c].own /\ calls[c].op = "preview")]
    /\ busy' = (IF calls[c].own THEN busy \ {calls[c].op} ELSE busy) /\ calls' = [calls EXCEPT ![c] = NoCall]
    /\ UNCHANGED <<mounted, open, target, server, crossed, steps>>

Fails(c) ==
    /\ calls[c].op # None
    /\ shown' = [shown EXCEPT !.error = @ \/ (calls[c].own /\ calls[c].op = "preview")]
    /\ busy' = IF ~calls[c].own THEN busy
               ELSE busy \ ({calls[c].op} \cup IF calls[c].afterProbe THEN {"probe"} ELSE {})
    /\ calls' = [calls EXCEPT ![c] = NoCall]
    /\ UNCHANGED <<mounted, open, target, server, crossed, steps>>

-----------------------------------------------------------------------------
Next ==
    \/ \E t \in Targets : OpenSyncModal(t)
    \/ CloseSyncModal \/ VaultTurns \/ (\E n \in Nodes : ConfigChanges(n))
    \/ HandleLogout \/ OnLoginSuccess \/ (\E t \in Targets : BackgroundSync(t))
    \/ HandleUpdateLiveState \/ ApplyChanges \/ ForceApply
    \/ \E c \in Calls :
           \/ ServerPlans(c) \/ ServerProbes(c) \/ (\E f \in SUBSET Nodes : ServerSyncs(c, f))
           \/ PreviewArrives(c) \/ ProbeArrives(c) \/ SyncArrives(c)
           \/ Unheard(c) \/ Fails(c)

Spec == Init /\ [][Next]_vars

-----------------------------------------------------------------------------
(* What disables a button ends with its request, however that ends, and    *)
(* is not left to a request of a dialog that is gone.                      *)
NoDeadButton ==
    /\ "preview" \in busy => \E c \in Own : calls[c].op = "preview"
    /\ "execute" \in busy => \E c \in Own : calls[c].op = "execute"
    /\ "probe" \in busy => \E c \in Own : calls[c].op = "probe" \/ calls[c].afterProbe

(* The dialog, as long as it is mounted, never has two syncs of its own    *)
(* under way, though it may be closed and opened again during one.  Of the *)
(* window this is false: beside them there may be one that was started     *)
(* before logging out, and those that applying a configuration started.    *)
OneSync == \A c, d \in Own : calls[c].op = "execute" /\ calls[d].op = "execute" => c = d

(* What the dialog shows is of the node its title names, a plan once it is *)
(* there and the results, unless it started over with something of its own *)
(* under way; what others have under way cannot show in it.                *)
ShowsTarget ==
    mounted /\ open /\ ~crossed =>
        /\ View = "results" => shown.results = target
        /\ View = "plan" => shown.plan.of = target

(* The text of the results says that the configurations of the node in the *)
(* title were synchronized (SyncProgressModal.tsx:553): false, when they   *)
(* arrive after the dialog was opened for another node.                    *)
SuccessIsOfTarget == open /\ AllSynced => shown.results = target
=============================================================================
