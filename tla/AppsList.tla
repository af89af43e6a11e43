------------------------------ MODULE AppsList ------------------------------
(***************************************************************************)
(* The page of the apps and of the variables they use (AppsPage.tsx): the  *)
(* two lists and every operation on them.  The switches of an app act on   *)
(* the list at once and are put right by the answer, or put back; a new    *)
(* app is appended to the list; a change of a variable has the list loaded *)
(* again.  Answers come in any order.                                      *)
(***************************************************************************)
EXTENDS Naturals, FiniteSets

CONSTANTS
    Old, New,      \* an item there is, and one there may be
    MaxSteps       \* how many requests are made

Items == {Old, New}
None == "none"
Switches == {"enable", "publish"}
Ops == {"load", "enable", "publish", "create", "duplicate", "delete", "rename", "save"}

VARIABLES
    tab,           \* "apps" or "variables": one of the two lists
    server,        \* per item: what the server has of it
    shown,         \* per item: what the list has of it, and how often
    dialog,        \* the dialog that is open: create, edit, delete, rename
    calls,         \* per operation, the request under way
    busy,          \* loadingApps, togglingAppIds, savingApp, duplicatingAppId, ...
    served, seen,  \* history: how many requests were served, the last whose answer came
    crossed,       \* history: an answer came out of order, or was lost
    steps
vars == <<tab, server, shown, dialog, calls, busy, served, seen, crossed, steps>>

Item == [there : 0..2, enable : BOOLEAN, publish : BOOLEAN, text : 0..MaxSteps]
Missing == [there |-> 0, enable |-> TRUE, publish |-> FALSE, text |-> 0]
NoCall == [at |-> None, seq |-> 0, before |-> FALSE, list |-> [i \in Items |-> Missing], failed |-> FALSE]

TypeOK ==
    /\ tab \in {"apps", "variables"} /\ server \in [Items -> Item] /\ shown \in [Items -> Item]
    /\ dialog \in {None, "form", "delete", "rename"}
    /\ \A op \in Ops : calls[op].at \in {None, "sent", "done"} /\ calls[op].seq \in 0..(2 * MaxSteps + 1)
                       /\ calls[op].list \in [Items -> Item]
    /\ busy \subseteq Ops /\ served \in 0..(2 * MaxSteps + 1) /\ seen \in 0..(2 * MaxSteps + 1)
    /\ crossed \in BOOLEAN /\ steps \in 0..MaxSteps

Sent == [NoCall EXCEPT !.at = "sent"]

Init ==
    /\ tab \in {"apps", "variables"} /\ dialog = None
    /\ server = [i \in Items |-> IF i = Old THEN [Missing EXCEPT !.there = 1] ELSE Missing]
    /\ shown = [i \in Items |-> Missing]
    /\ calls = [op \in Ops |-> IF op = "load" THEN Sent ELSE NoCall] /\ busy = {"load"}
    /\ served = 0 /\ seen = 0 /\ crossed = FALSE /\ steps = 0

Send(op) ==
    /\ steps < MaxSteps /\ steps' = steps + 1
    /\ calls[op].at = None /\ calls' = [calls EXCEPT ![op] = Sent] /\ busy' = busy \cup {op}
    /\ UNCHANGED <<tab, server, served, seen, crossed>>

-----------------------------------------------------------------------------
(* What the user does                                                      *)

Refresh == /\ dialog = None /\ "load" \notin busy /\ Send("load")
           /\ UNCHANGED <<shown, dialog>>

FilteredApps == IF "load" \in busy THEN {} ELSE {i \in Items : shown[i].there > 0}

Open(d) ==
    /\ dialog = None /\ dialog' = d
    /\ UNCHANGED <<tab, server, shown, calls, busy, served, seen, crossed, steps>>
OpenApp == tab = "apps" /\ Open("form")
OpenVar == tab = "variables" /\ Open("form")
OpenRename == tab = "apps" /\ Old \in FilteredApps /\ Open("rename")
OpenDelete == Old \in FilteredApps /\ Open("delete")

Close ==
    /\ dialog # None /\ dialog' = None
    /\ UNCHANGED <<tab, server, shown, calls, busy, served, seen, crossed, steps>>

(* A switch is moved at once, and disabled until the answer.               *)
Toggle(op) ==
    /\ tab = "apps" /\ dialog = None /\ op \notin busy /\ Old \in FilteredApps
    /\ steps < MaxSteps /\ steps' = steps + 1
    /\ calls' = [calls EXCEPT ![op] = [Sent EXCEPT !.before = shown[Old][op]]]
    /\ busy' = busy \cup {op}
    /\ shown' = [shown EXCEPT ![Old][op] = ~@]
    /\ UNCHANGED <<tab, server, dialog, served, seen, crossed>>
HandleTogglePublished == Toggle("publish")
HandleToggleApp == Toggle("enable")

HandleDuplicateApp ==
    /\ tab = "apps" /\ dialog \in {None, "form"} /\ "duplicate" \notin busy /\ Old \in FilteredApps
    /\ Send("duplicate") /\ UNCHANGED <<shown, dialog>>

CreateApp == /\ tab = "apps" /\ dialog = "form" /\ busy \cap {"create", "save"} = {}
             /\ Send("create") /\ UNCHANGED <<shown, dialog>>
UpdateApp == /\ tab = "apps" /\ dialog = "form" /\ busy \cap {"create", "save"} = {}
             /\ Old \in FilteredApps /\ Send("save") /\ UNCHANGED <<shown, dialog>>
HandleSaveVariable == /\ tab = "variables" /\ dialog = "form" /\ "save" \notin busy
                      /\ Send("save") /\ UNCHANGED <<shown, dialog>>

(* The button that confirms a deletion is never disabled.                  *)
HandleDelete == dialog = "delete" /\ Send("delete") /\ UNCHANGED <<shown, dialog>>
HandleRename == dialog = "rename" /\ Send("rename") /\ UNCHANGED <<shown, dialog>>

-----------------------------------------------------------------------------
(* The server                                                              *)

Effect(op) ==
    CASE op = "load" -> server
      [] op \in Switches -> [server EXCEPT ![Old][op] = ~@]
      [] op \in {"create", "duplicate"} -> [server EXCEPT ![New].there = 1]
      [] op = "delete" -> [server EXCEPT ![Old] = Missing]
      [] op \in {"rename", "save"} -> [server EXCEPT ![Old].text = steps]
Allowed(op) ==
    IF op \in {"create", "duplicate"} THEN server[New].there = 0
    ELSE op = "load" \/ server[Old].there = 1

ServerAnswers(op) ==
    /\ calls[op].at = "sent" /\ UNCHANGED <<tab, shown, dialog, busy, seen, crossed, steps>>
    /\ IF Allowed(op)
       THEN /\ server' = Effect(op) /\ served' = served + 1
            /\ calls' = [calls EXCEPT ![op] = [@ EXCEPT !.at = "done", !.seq = served + 1,
                                                      !.list = server']]
       ELSE /\ calls' = [calls EXCEPT ![op] = [@ EXCEPT !.at = "done", !.failed = TRUE]]
            /\ UNCHANGED <<server, served>>

-----------------------------------------------------------------------------
(* Answers: of a list, which replaces it; of a switch, a rename or a save, *)
(* which replace the app; of a new app, which is appended; of a deletion.  *)

ReplaceList(list) == list
ReplaceApp(list) == [shown EXCEPT ![Old] = IF @.there = 0 THEN @ ELSE [list[Old] EXCEPT !.there = shown[Old].there]]
AppendApp(list) == [shown EXCEPT ![New] = [list[New] EXCEPT !.there = IF shown[New].there = 2 THEN 2 ELSE shown[New].there + 1]]
RemoveApp == [shown EXCEPT ![Old] = Missing]

(* A switch goes back to where it was.                                     *)
PutBack(op) == [shown EXCEPT ![Old][op] = IF shown[Old].there = 0 THEN @ ELSE calls[op].before]

Answer(op) == calls[op].at = "done" /\ ~calls[op].failed
Arrives(op) ==
    /\ seen' = IF calls[op].seq > seen THEN calls[op].seq ELSE seen
    /\ crossed' = (crossed \/ calls[op].seq < seen)
    /\ UNCHANGED <<tab, server, served, steps>>
Done(op) == calls' = [calls EXCEPT ![op] = NoCall] /\ busy' = busy \ {op}

LoadArrives ==
    /\ Answer("load") /\ shown' = ReplaceList(calls["load"].list)
    /\ Done("load") /\ Arrives("load") /\ UNCHANGED dialog

SwitchArrives(op) ==
    /\ Answer(op) /\ shown' = ReplaceApp(calls[op].list) /\ Done(op) /\ Arrives(op)
    /\ UNCHANGED dialog

(* Success closes the form, whatever it is open for.                       *)
AppArrives(op) ==
    /\ tab = "apps" /\ Answer(op)
    /\ shown' = IF op \in {"create", "duplicate"} THEN AppendApp(calls[op].list)
                ELSE ReplaceApp(calls[op].list)
    /\ dialog' = IF op = "duplicate" \/ dialog # (IF op = "rename" THEN "rename" ELSE "form")
                 THEN dialog ELSE None
    /\ Done(op) /\ Arrives(op)

DeletedApp ==
    /\ tab = "apps" /\ Answer("delete") /\ shown' = RemoveApp
    /\ dialog' = IF dialog = "delete" THEN None ELSE dialog
    /\ Done("delete") /\ Arrives("delete")

(* A variable that was saved or deleted has the list loaded again.  The    *)
(* two loads that may overlap are one here when the first is still under   *)
(* way unserved.                                                           *)
VarChanged(op) ==
    /\ tab = "variables" /\ op \in {"save", "delete"} /\ Answer(op)
    /\ calls["load"].at = None
    /\ calls' = [calls EXCEPT ![op] = NoCall, !["load"] = Sent]
    /\ busy' = (busy \ {op}) \cup {"load"}
    /\ dialog' = IF dialog = (IF op = "save" THEN "form" ELSE "delete") THEN None ELSE dialog
    /\ Arrives(op) /\ UNCHANGED shown

(* A request is refused, or its answer is lost, after it was served or not. *)
Fails(op) ==
    /\ calls[op].at # None
    /\ shown' = IF op \in Switches THEN PutBack(op) ELSE shown
    /\ crossed' = (crossed \/ op = "load" \/ calls[op].seq # 0)
    /\ Done(op) /\ UNCHANGED <<tab, server, dialog, served, seen, steps>>

-----------------------------------------------------------------------------
Next ==
    \/ Refresh \/ OpenApp \/ OpenVar \/ OpenRename \/ OpenDelete \/ Close
    \/ HandleTogglePublished \/ HandleToggleApp \/ HandleDuplicateApp \/ CreateApp \/ UpdateApp
    \/ HandleSaveVariable \/ HandleDelete \/ HandleRename
    \/ LoadArrives \/ (\E op \in Switches : SwitchArrives(op))
    \/ (\E op \in {"create", "duplicate", "rename", "save"} : AppArrives(op)) \/ DeletedApp
    \/ \E op \in Ops : ServerAnswers(op) \/ VarChanged(op) \/ Fails(op)

Spec == Init /\ [][Next]_vars

-----------------------------------------------------------------------------
(* Once every answer is in, the list shows what the server has, however    *)
(* the switches, the saves and the loads of the list overlapped, if the    *)
(* answers came in the order the requests were served.                     *)
Quiet == \A op \in Ops : calls[op].at = None
InOrderIsCurrent ==
    Quiet /\ ~crossed /\ seen > 0 => shown = server

(* What disables a switch or a button ends with its request.               *)
NoDeadButton == \A op \in busy : calls[op].at # None
=============================================================================
