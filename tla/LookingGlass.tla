----------------------------- MODULE LookingGlass -----------------------------
(***************************************************************************)
(* The looking glass of the browser (LookingGlassModal.tsx,                *)
(* CustomTaskEditorModal.tsx): tasks run on selected nodes.  The nodes are *)
(* in the address as well, and two effects bring one in line with the      *)
(* other: the first takes what the address names, the second writes what   *)
(* is selected there.  Both run on the values of one rendering and cause   *)
(* the next.  Effects run before the next event is handled.                *)
(***************************************************************************)
EXTENDS Naturals, FiniteSets

CONSTANTS
    Nodes,
    Tagged,        \* the nodes with the one tag there is
    Builtin,       \* the built-in tasks, "ping" first
    Custom,        \* identifiers of custom tasks
    MaxCalls,      \* requests under way when the operator asks for the next
    MaxSteps       \* events

Tabs == {"presets", "adhoc", "manage", "cron", "pingtable"}
Selecting == {"presets", "adhoc"}
NoTask == "none"
Unset == {"unset"}
Texts == {"", "default", "typed"}

VARIABLES
    server,        \* the managed nodes, and the custom tasks of the server
    list,          \* the tasks as loaded
    url,           \* the address: tab, nodes, task, and a parameter or command
    asked,         \* lastParamNodesRef, or Unset before the first topology
    selected,      \* selectedNodes
    target,        \* selectedTaskId
    form,          \* a parameter's value and the command for the ad-hoc run
    tag,           \* selectedTag: "All" or the tag
    shown,         \* the nodes of runResponse, and activeResultNode
    open, editing, draft, \* the editor: open, taskToEdit, whose text it has and if typed over
    busy, calls,
    changed,       \* what changed since the effects ran
    wanted,        \* what the nodes selected should settle on
    bounces,       \* renderings the effects caused since the last event
    steps
vars == <<server, list, url, asked, selected, target, form, tag, shown, open, editing, draft,
          busy, calls, changed, wanted, bounces, steps>>
editor == <<open, editing, draft>>

AnyTask == Builtin \cup Custom \cup {""}
AnyUrl == [tab : Tabs, nodes : SUBSET Nodes, task : AnyTask, text : Texts]
(* The addresses the program makes: nodes only on the tabs that select     *)
(* them.  (With nodes in the address of the scheduled tasks, those of a    *)
(* task run from there would be lost.)                                     *)
NoNodes(u) == u.tab \notin Selecting => u.nodes = {}
Requests == [kind : {"load", "run", "save", "reload", "delete"}, task : AnyTask \cup {NoTask},
             nodes : SUBSET Nodes, was : AnyTask \cup {NoTask}]
TypeOK ==
    /\ server \in [nodes : SUBSET Nodes, tasks : SUBSET Custom] /\ list \subseteq Builtin \cup Custom
    /\ url \in AnyUrl /\ NoNodes(url) /\ (asked = Unset \/ asked \subseteq Nodes) /\ selected \subseteq Nodes
    /\ target \in Builtin \cup Custom \cup {""} /\ form \in [value : Texts, cmd : Texts]
    /\ tag \in {"All", "tag"} /\ shown \in [nodes : SUBSET Nodes, active : Nodes \cup {""}]
    /\ open \in BOOLEAN /\ editing \in Custom \cup {NoTask}
    /\ draft \in [of : Custom \cup {NoTask}, typed : BOOLEAN]
    /\ busy \subseteq {"run", "save"} /\ calls \subseteq Requests /\ changed \subseteq {"nodes", "url", "target", "catalog"}
    /\ wanted \subseteq Nodes /\ bounces \in Nat /\ steps \in 0..MaxSteps

-----------------------------------------------------------------------------
FilteredNodes == IF tag = "All" THEN server.nodes ELSE server.nodes \cap Tagged
NamedNodes == url.nodes \cap server.nodes

(* The task whose form is shown: the first when the one selected is not    *)
(* there.                                                                  *)
SelectedTask == IF target \in list THEN target ELSE IF list = {} THEN NoTask ELSE "ping"
Defaults ==
    IF (url.task = "" \/ url.task = SelectedTask) /\ url.text # "" THEN url.text ELSE "default"

Managed(nodes) == IF server.nodes = {} THEN nodes ELSE nodes \cap server.nodes
Event == changed = {} /\ steps < MaxSteps /\ steps' = steps + 1 /\ bounces' = 0
Answered == changed = {} /\ steps' = steps /\ bounces' = 0
Free == Cardinality(calls) < MaxCalls
Call(kind, task, nodes) == [kind |-> kind, task |-> task, nodes |-> nodes, was |-> target]
Loads == [kind |-> "load", task |-> NoTask, nodes |-> {}, was |-> NoTask]
Goes(u) == url' = u /\ changed' = (IF u = url THEN {"nodes"} ELSE {"nodes", "url"})

Init ==
    /\ server \in [nodes : {{}, Nodes}, tasks : SUBSET Custom] /\ list = {}
    /\ url \in [tab : Tabs, nodes : SUBSET Nodes, task : AnyTask, text : {"", "typed"}] /\ NoNodes(url)
    /\ asked = Unset /\ selected = {} /\ shown = [nodes |-> {}, active |-> ""]
    /\ target = (IF url.task = "" THEN "ping" ELSE url.task)
    /\ form = [value |-> "", cmd |-> IF url.text = "" THEN "default" ELSE url.text] /\ tag = "All"
    /\ open = FALSE /\ editing = NoTask /\ draft = [of |-> NoTask, typed |-> FALSE]
    /\ busy = {} /\ calls = {Loads} /\ changed = {"nodes", "url"}
    /\ wanted = Managed(url.nodes) /\ bounces = 0 /\ steps = 0

-----------------------------------------------------------------------------
(* The effects of one rendering.  The second notes what it writes, for the *)
(* first not to take it for an address that was followed.                  *)
Takes == server.nodes # {} /\ NamedNodes # asked
Writes == (asked # Unset \/ server.nodes # {}) /\ url.tab \in Selecting /\ url.nodes # selected
Noted == IF Writes THEN selected ELSE IF Takes THEN NamedNodes ELSE asked

Effects ==
    /\ changed # {}
    /\ asked' = Noted /\ selected' = (IF Takes THEN NamedNodes ELSE selected)
    /\ url' = (IF Writes THEN [url EXCEPT !.nodes = selected] ELSE url)
    /\ form' = [value |-> IF changed \cap {"target", "catalog"} # {} /\ SelectedTask # NoTask
                          THEN Defaults ELSE form.value,
                cmd |-> IF "url" \in changed /\ url.tab = "adhoc" /\ url.text # ""
                        THEN url.text ELSE form.cmd]
    /\ changed' = (IF selected' # selected THEN {"nodes"} ELSE {}) \cup (IF url' # url THEN {"url"} ELSE {})
    /\ bounces' = (IF changed' = {} THEN bounces ELSE bounces + 1)
    /\ UNCHANGED <<server, list, target, tag, shown, editor, busy, calls, wanted, steps>>

(* The topology of the page, and an address followed.                      *)
Topology(nodes) ==
    /\ Event /\ nodes # server.nodes /\ nodes # {} /\ server' = [server EXCEPT !.nodes = nodes]
    /\ wanted' = wanted \cap nodes
    /\ changed' = {"nodes"}
    /\ UNCHANGED <<list, url, asked, selected, target, form, tag, shown, editor, busy, calls>>
Navigate(u) ==
    /\ Event /\ u # url /\ Goes(u) /\ wanted' = Managed(u.nodes)
    /\ UNCHANGED <<server, list, asked, selected, target, form, tag, shown, editor, busy, calls>>

(* A tab: those that select nodes get them in their address, the others    *)
(* do not, and the nodes are forgotten.                                    *)
HandleTabChange(t) ==
    /\ Event /\ ~open /\ t # url.tab
    /\ Goes([tab |-> t, nodes |-> IF t \in Selecting THEN selected ELSE {}, task |-> "", text |-> ""])
    /\ wanted' = (IF t \in Selecting /\ asked # Unset THEN wanted ELSE {})
    /\ UNCHANGED <<server, list, asked, selected, target, form, tag, shown, editor, busy, calls>>

-----------------------------------------------------------------------------
(* The nodes, once there are some.                                         *)

Selects(nodes) ==
    /\ url.tab \in Selecting /\ selected' = nodes /\ server.nodes # {} /\ wanted' = nodes /\ changed' = {"nodes"}
    /\ UNCHANGED <<server, list, url, asked, target, form, tag, shown, editor, busy, calls>>
HandleToggleNode(n) ==
    /\ Event /\ n \in FilteredNodes
    /\ Selects(IF n \in selected THEN selected \ {n} ELSE selected \cup {n})
HandleSelectAllFiltered == Event /\ Selects(FilteredNodes)
ClearSelection == Event /\ selected # {} /\ Selects({})
SelectTag ==
    /\ Event /\ url.tab \in Selecting /\ tag' = (IF tag = "All" THEN "tag" ELSE "All") /\ changed' = {}
    /\ UNCHANGED <<server, list, url, asked, selected, target, form, shown, editor, busy, calls, wanted>>

-----------------------------------------------------------------------------
(* The task, its parameters, the command                                   *)

SelectTask(t) ==
    /\ Event /\ url.tab = "presets" /\ t \in list \ {target} /\ target' = t /\ changed' = {"target"}
    /\ UNCHANGED <<server, list, url, asked, selected, form, tag, shown, editor, busy, calls, wanted>>
EditParam ==
    /\ Event /\ url.tab = "presets" /\ SelectedTask # NoTask /\ busy = {} /\ form.value # "typed"
    /\ form' = [form EXCEPT !.value = "typed"] /\ changed' = {}
    /\ UNCHANGED <<server, list, url, asked, selected, target, tag, shown, editor, busy, calls, wanted>>
EditCommand(text) ==
    /\ Event /\ url.tab = "adhoc" /\ text # form.cmd /\ form' = [form EXCEPT !.cmd = text] /\ changed' = {}
    /\ UNCHANGED <<server, list, url, asked, selected, target, tag, shown, editor, busy, calls, wanted>>
HandleAdHocToolChange ==
    /\ Event /\ url.tab = "adhoc" /\ form.cmd # "default" /\ form' = [form EXCEPT !.cmd = "default"]
    /\ changed' = {}
    /\ UNCHANGED <<server, list, url, asked, selected, target, tag, shown, editor, busy, calls, wanted>>

(* A run: what it is run with becomes the address.                         *)
HandleRun ==
    /\ Event /\ url.tab \in Selecting /\ "run" \notin busy /\ selected # {} /\ Free
    /\ Goes([tab |-> url.tab, nodes |-> selected, task |-> IF url.tab = "presets" THEN target ELSE "",
             text |-> IF url.tab = "presets" THEN form.value ELSE form.cmd])
    /\ asked' = selected /\ busy' = busy \cup {"run"} /\ calls' = calls \cup {Call("run", target, selected)}
    /\ UNCHANGED <<server, list, selected, target, form, tag, shown, editor, wanted>>
(* The results replace those shown; the node looked at is the first.       *)
RunArrives(c) ==
    /\ c \in calls /\ c.kind = "run" /\ Answered /\ calls' = calls \ {c} /\ busy' = busy \ {"run"}
    /\ \/ /\ shown' = [nodes |-> c.nodes, active |-> CHOOSE n \in c.nodes : TRUE]
       \/ shown' = shown
    /\ UNCHANGED <<server, list, url, asked, selected, target, form, tag, editor, changed, wanted>>
SelectResult(n) ==
    /\ Event /\ url.tab \in Selecting /\ n \in shown.nodes \ {shown.active}
    /\ shown' = [shown EXCEPT !.active = n] /\ changed' = {}
    /\ UNCHANGED <<server, list, url, asked, selected, target, form, tag, editor, busy, calls, wanted>>

-----------------------------------------------------------------------------
(* The catalogue of tasks                                                  *)

LoadTasksArrives(c) ==
    /\ c \in calls /\ c.kind = "load" /\ Answered
    /\ \/ list' = Builtin \cup server.tasks /\ changed' = {"catalog"}
       \/ UNCHANGED <<list, changed>>
    /\ calls' = calls \ {c}
    /\ UNCHANGED <<server, target, url, asked, selected, form, tag, shown, editor, busy, wanted>>

UseTemplate(t) ==
    /\ Event /\ ~open /\ url.tab = "manage" /\ t \in list \cap Builtin /\ target' = t
    /\ url' = [tab |-> "presets", nodes |-> {}, task |-> "", text |-> ""]
    /\ changed' = {"nodes", "url", "target"} /\ wanted' = {}
    /\ UNCHANGED <<server, list, asked, selected, form, tag, shown, editor, busy, calls>>
(* A scheduled task run now: its nodes, and its parameters, which the      *)
(* change of the task sets back.  (The topology is taken to be there.)     *)
ExecuteNow(t, nodes) ==
    /\ Event /\ url.tab = "cron" /\ server.nodes # {} /\ target' = t /\ selected' = nodes
    /\ form' = [form EXCEPT !.value = "typed"]
    /\ url' = [tab |-> "presets", nodes |-> {}, task |-> "", text |-> ""]
    /\ changed' = {"nodes", "url"} \cup (IF t # target THEN {"target"} ELSE {}) /\ wanted' = Managed(nodes)
    /\ UNCHANGED <<server, list, asked, tag, shown, editor, busy, calls>>

OpenEditor(t) ==
    /\ Event /\ ~open /\ url.tab = "manage" /\ t \in (list \cap Custom) \cup {NoTask}
    /\ open' = TRUE /\ editing' = t /\ draft' = [of |-> t, typed |-> FALSE] /\ changed' = {}
    /\ UNCHANGED <<server, list, url, asked, selected, target, form, tag, shown, busy, calls, wanted>>
(* Fields, parameters and their order.                                     *)
EditDraft ==
    /\ open /\ Answered /\ ~draft.typed /\ draft' = [draft EXCEPT !.typed = TRUE]
    /\ UNCHANGED <<server, list, url, asked, selected, target, form, tag, shown, open, editing, busy, calls,
                   changed, wanted>>
(* Closing seeds the editor anew as well; one button does not wait.        *)
CloseEditor ==
    /\ open /\ Answered /\ open' = FALSE /\ draft' = [of |-> editing, typed |-> FALSE]
    /\ UNCHANGED <<server, list, url, asked, selected, target, form, tag, shown, editing, busy, calls, changed, wanted>>
HandleSubmit ==
    /\ Event /\ open /\ "save" \notin busy /\ Free /\ busy' = busy \cup {"save"} /\ changed' = {}
    /\ calls' = calls \cup {Call("save", editing, {})}
    /\ UNCHANGED <<server, list, url, asked, selected, target, form, tag, shown, editor, wanted>>
(* The server names a new task; the page selects the name it sent, which   *)
(* for a new task is none, once it has the tasks again.                    *)
SaveArrives(c) ==
    /\ c \in calls /\ c.kind = "save" /\ Answered
    /\ \/ /\ \E t \in Custom : /\ IF c.task = NoTask THEN t \notin server.tasks ELSE t = c.task
                               /\ server' = [server EXCEPT !.tasks = @ \cup {t}]
          /\ calls' = (calls \ {c}) \cup {[c EXCEPT !.kind = "reload"]} /\ busy' = busy
       \/ server' = server /\ calls' = calls \ {c} /\ busy' = busy \ {"save"}
    /\ UNCHANGED <<list, url, asked, selected, target, form, tag, shown, editor, changed, wanted>>
ReloadArrives(c) ==
    /\ c \in calls /\ c.kind = "reload" /\ Answered
    /\ list' \in {list, Builtin \cup server.tasks}
    /\ target' = (IF c.task = NoTask THEN "" ELSE c.task)
    /\ changed' = (IF target' # target THEN {"target"} ELSE {}) \cup (IF list' # list THEN {"catalog"} ELSE {})
    /\ open' = FALSE /\ draft' = [of |-> editing, typed |-> FALSE] /\ busy' = busy \ {"save"}
    /\ calls' = calls \ {c}
    /\ UNCHANGED <<server, url, asked, selected, form, tag, shown, editing, wanted>>

HandleDeleteCustomTask(t) ==
    /\ Event /\ ~open /\ url.tab = "manage" /\ t \in list \cap Custom /\ Free
    /\ calls' = calls \cup {Call("delete", t, {})} /\ changed' = {}
    /\ UNCHANGED <<server, list, url, asked, selected, target, form, tag, shown, editor, busy, wanted>>
DeleteArrives(c) ==
    /\ c \in calls /\ c.kind = "delete" /\ Answered
    /\ \/ /\ server' = [server EXCEPT !.tasks = @ \ {c.task}]
          /\ list' \in {list, Builtin \cup (server.tasks \ {c.task})}
          /\ target' = (IF c.was = c.task THEN "ping" ELSE target)
       \/ UNCHANGED <<server, list, target>>
    /\ changed' = (IF target' # target THEN {"target"} ELSE {}) \cup (IF list' # list THEN {"catalog"} ELSE {})
    /\ calls' = calls \ {c}
    /\ UNCHANGED <<url, asked, selected, form, tag, shown, editor, busy, wanted>>

-----------------------------------------------------------------------------
Next ==
    \/ Effects
    \/ (\E nodes \in SUBSET Nodes : Topology(nodes))
    \/ (\E u \in [tab : {"presets", "cron"}, nodes : SUBSET Nodes, task : AnyTask, text : {"", "typed"}] :
            NoNodes(u) /\ Navigate(u))
    \/ (\E t \in Tabs : HandleTabChange(t))
    \/ (\E n \in Nodes : HandleToggleNode(n)) \/ HandleSelectAllFiltered \/ ClearSelection \/ SelectTag
    \/ (\E t \in Builtin \cup Custom : SelectTask(t))
    \/ EditParam \/ (\E text \in Texts : EditCommand(text)) \/ HandleAdHocToolChange
    \/ HandleRun \/ (\E c \in calls : RunArrives(c)) \/ (\E n \in Nodes : SelectResult(n))
    \/ (\E c \in calls : LoadTasksArrives(c))
    \/ (\E t \in Builtin : UseTemplate(t)) \/ (\E t \in Builtin, nodes \in SUBSET Nodes : ExecuteNow(t, nodes))
    \/ (\E t \in Custom \cup {NoTask} : OpenEditor(t)) \/ EditDraft \/ CloseEditor
    \/ HandleSubmit \/ (\E c \in calls : SaveArrives(c)) \/ (\E c \in calls : ReloadArrives(c))
    \/ (\E t \in Custom : HandleDeleteCustomTask(t)) \/ (\E c \in calls : DeleteArrives(c))

Spec == Init /\ [][Next]_vars

-----------------------------------------------------------------------------
(* The two effects come to rest, after at most three renderings, and when  *)
(* they do the address names the nodes selected, and these are the ones    *)
(* last chosen, by the address or by hand, which ever it was.              *)
SelectionSettles ==
    /\ bounces <= 3
    /\ changed = {} /\ server.nodes # {} /\ url.tab \in Selecting =>
           url.nodes = selected /\ selected = wanted

(* A result that is looked at is one of the last run.                      *)
ResultListed == shown.nodes # {} => shown.active \in shown.nodes

(* A button is held only while its request is under way.                   *)
NoDeadButton ==
    /\ "run" \in busy => \E c \in calls : c.kind = "run"
    /\ "save" \in busy => \E c \in calls : c.kind \in {"save", "reload"}
=============================================================================
