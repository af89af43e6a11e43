------------------------------ MODULE NodePage ------------------------------
(***************************************************************************)
(* The page of one node (NodeDetailPage.tsx), which the address names.     *)
(* Choosing another in the sidebar, and going back or forward, do not      *)
(* leave the page: what it holds of the last node stays until something    *)
(* sets it, a dialog that is open included.  Every request is made for the *)
(* node of the render it was made in; its answer is put in the page as it  *)
(* is then.                                                                *)
(***************************************************************************)
EXTENDS Naturals, FiniteSets

CONSTANTS
    Nodes,
    External,     \* those that are external peers
    Ranges,       \* the ranges of the metrics
    Interfaces,   \* the names of the nodes' interfaces
    MaxSteps      \* how often another node, range or interface is chosen, a request made

None == "none"
Tabs == {"overview", "metrics", "networking", "routing", "firewall", "agent"}
Configs == {"bird", "nftables"}
(* Those of the requests that only hold a button until they end.           *)
Commands == {"probe", "wg", "birdd", "rotate", "uninstall", "note"}
Ops == {"metrics", "agent"} \cup Configs \cup Commands

VARIABLES
    target, tab,    \* the node in the address, currentTab
    tokens,         \* the nodes whose agent token the list of nodes has
    shown,          \* agentToken, points, and the configurations: of which node each is
    dialog,         \* viewingBird, viewingNftables, uninstallModalOpen
    editing, typed, \* isEditingNote; for which node what is edited was typed, if it was
    range, iface,   \* of the metrics; iface: selectedInterface
    calls, busy,    \* the requests under way, and the buttons they hold
    newest, inOrder,\* history: the last request for metrics, and whether the last answer to
                    \* come was to that one
    crossed,        \* history: the configurations of which one was under way when the dialog
                    \* opened, or over whose dialog the page went on to another node
    steps
vars == <<target, tab, tokens, shown, dialog, editing, typed, range, iface, calls, busy, newest, inOrder,
          crossed, steps>>

Managed == Nodes \ External
NoCall == [of |-> None, range |-> None, iface |-> None]
Slots == [op : Ops, n : {1}] \cup [op : {"metrics"} \cup Configs, n : {2}]

TypeOK ==
    /\ target \in Nodes /\ tab \in Tabs /\ tokens \subseteq Managed
    /\ \A part \in {"token", "points"} \cup Configs : shown[part].of \in Nodes \cup {None}
    /\ dialog \in {None, "uninstall"} \cup Configs
    /\ editing \in BOOLEAN /\ typed \in Nodes \cup {None}
    /\ range \in Ranges /\ iface \in Interfaces \cup {None}
    /\ \A s \in Slots : calls[s].of \in Nodes \cup {None}
    /\ busy \subseteq Ops /\ crossed \subseteq Configs
    /\ newest \in Slots /\ inOrder \in BOOLEAN /\ steps \in 0..MaxSteps

Slot(op) == [op |-> op, n |-> 1]
Nothing == [of |-> None, range |-> None, iface |-> None]
Of(n) == [Nothing EXCEPT !.of = n]
Metrics(n, r, i) == [of |-> n, range |-> r, iface |-> i]

Init ==
    /\ target = (CHOOSE n \in Managed : TRUE) /\ tab = "overview" /\ tokens \in SUBSET Managed
    /\ shown = [part \in {"token", "points"} \cup Configs |->
                   IF part = "token" /\ target \in tokens THEN Of(target) ELSE Nothing]
    /\ dialog = None /\ editing = FALSE /\ typed = None
    /\ range = (CHOOSE r \in Ranges : TRUE) /\ iface = None
    /\ calls = [s \in Slots |-> IF s = Slot("metrics") THEN Metrics(target, range, None)
                                ELSE NoCall]
    /\ busy = {"metrics"} /\ newest = Slot("metrics") /\ inOrder = FALSE /\ crossed = {} /\ steps = 0

Step == steps < MaxSteps /\ steps' = steps + 1
UnderWay(op) == \E s \in Slots : s.op = op /\ calls[s].of # None
Send(op) ==
    \E s \in Slots : /\ s.op = op /\ calls[s].of = None
                     /\ calls' = [calls EXCEPT ![s] = [NoCall EXCEPT !.of = target]]

-----------------------------------------------------------------------------
(* The tabs, and where their buttons can be pressed: behind no dialog.     *)

OverviewTab == tab = "overview" /\ dialog = None
MetricsTab == tab = "metrics" /\ dialog = None
NetworkingTab == tab = "networking" /\ dialog = None
RoutingTab == tab = "routing" /\ dialog = None /\ target \in Managed
FirewallTab == tab = "firewall" /\ dialog = None /\ target \in Managed
AgentTab == tab = "agent" /\ dialog = None /\ target \in Managed

-----------------------------------------------------------------------------
(* Metrics are asked for when the node, the range or the interface changes, *)
(* and on demand.                                                          *)

Free == {s \in Slots : s.op = "metrics" /\ calls[s].of = None}

FetchMetrics(n, r) ==
    /\ \E s \in Free : calls' = [calls EXCEPT ![s] = Metrics(n, r, iface)] /\ newest' = s
    /\ inOrder' = FALSE /\ busy' = busy \cup {"metrics"}

(* The note and the token follow the node; a node without a token leaves   *)
(* the last one where it is, and the interface stays whatever the node.    *)
(* KeepsNote is a mutant.                                                  *)
KeepsNote == UNCHANGED <<editing, typed>>
ResetsNote == editing' = FALSE /\ typed' = None

SelectNode(n, t) ==
    /\ n # target /\ Step /\ target' = n
    /\ tab' = IF n \in External /\ t \notin {"overview", "networking"} THEN "overview" ELSE t
    /\ shown' = IF n \in tokens THEN [shown EXCEPT !["token"] = Of(n)] ELSE shown
    /\ crossed' = crossed \cup ({dialog} \cap Configs)
    /\ ResetsNote /\ FetchMetrics(n, range)
    /\ UNCHANGED <<tokens, dialog, range, iface>>
SelectInSidebar(n) == dialog = None /\ SelectNode(n, tab)
SelectPeer(n) == NetworkingTab /\ SelectNode(n, "overview")
BackOrForward(n, t) == SelectNode(n, t)

SelectRange(r) ==
    /\ MetricsTab /\ r # range /\ Step /\ range' = r /\ FetchMetrics(target, r)
    /\ UNCHANGED <<target, tab, tokens, shown, dialog, editing, typed, iface, crossed>>

(* It asks for the metrics itself, and so does the effect.                 *)
SelectInterface(i) ==
    /\ MetricsTab /\ i # iface /\ Step /\ iface' = i
    /\ \E s, t \in Free :
           /\ s # t /\ newest' = t
           /\ calls' = [calls EXCEPT ![s] = Metrics(target, range, i), ![t] = Metrics(target, range, i)]
    /\ inOrder' = FALSE /\ busy' = busy \cup {"metrics"}
    /\ UNCHANGED <<target, tab, tokens, shown, dialog, editing, typed, range, crossed>>

RefreshMetrics ==
    /\ MetricsTab /\ "metrics" \notin busy /\ Step /\ FetchMetrics(target, range)
    /\ UNCHANGED <<target, tab, tokens, shown, dialog, editing, typed, range, iface, crossed>>

HandleTabChange(t) ==
    /\ dialog = None /\ t # tab /\ tab' = t
    /\ target \in External => t \in {"overview", "networking"}
    /\ UNCHANGED <<target, tokens, shown, dialog, editing, typed, range, iface, calls, busy, newest, inOrder,
                   crossed, steps>>

-----------------------------------------------------------------------------
(* The buttons                                                             *)

(* The bound: of the commands one is under way at a time; nothing in the   *)
(* code makes one wait for another.                                        *)
Alone == \A op \in Commands \cup {"agent"} : ~UnderWay(op)

Press(op) ==
    /\ dialog = None /\ op \notin busy /\ Alone /\ Step /\ Send(op) /\ busy' = busy \cup {op}
    /\ UNCHANGED <<target, tab, tokens, shown, dialog, editing, typed, range, iface, newest, inOrder, crossed>>

(* The button of the probe refreshes the metrics as well.                  *)
HandleProbe ==
    /\ dialog = None /\ busy \cap {"probe", "metrics"} = {} /\ Alone /\ Step
    /\ \E s \in Free :
           /\ calls' = [calls EXCEPT ![Slot("probe")] = [NoCall EXCEPT !.of = target],
                                     ![s] = Metrics(target, range, iface)]
           /\ newest' = s
    /\ inOrder' = FALSE /\ busy' = busy \cup {"probe", "metrics"}
    /\ UNCHANGED <<target, tab, tokens, shown, dialog, editing, typed, range, iface, crossed>>
HandleRestartAllWg == target \in Managed /\ Press("wg")
HandleRestartBird == target \in Managed /\ Press("birdd")
HandleRotateAgentToken == AgentTab /\ Press("rotate")
HandleSaveNote == OverviewTab /\ editing /\ Press("note")

OpenUninstall ==
    /\ AgentTab /\ dialog' = "uninstall"
    /\ UNCHANGED <<target, tab, tokens, shown, editing, typed, range, iface, calls, busy, newest, inOrder,
                   crossed, steps>>
HandleUninstallAgent ==
    /\ dialog = "uninstall" /\ "uninstall" \notin busy /\ Alone /\ Step /\ Send("uninstall")
    /\ busy' = busy \cup {"uninstall"}
    /\ UNCHANGED <<target, tab, tokens, shown, dialog, editing, typed, range, iface, newest, inOrder, crossed>>

(* The tab of the agent asks for the token where there is none.            *)
AskForToken ==
    /\ tab = "agent" /\ target \in Managed \ tokens /\ shown["token"].of = None
    /\ Alone /\ Step /\ Send("agent")
    /\ UNCHANGED <<target, tab, tokens, shown, dialog, editing, typed, range, iface, busy, newest, inOrder, crossed>>

EditNote ==
    /\ OverviewTab /\ ~editing /\ editing' = TRUE /\ typed' = None
    /\ UNCHANGED <<target, tab, tokens, shown, dialog, range, iface, calls, busy, newest, inOrder, crossed,
                   steps>>
TypeNote ==
    /\ OverviewTab /\ editing /\ "note" \notin busy /\ typed' = target
    /\ UNCHANGED <<target, tab, tokens, shown, dialog, editing, range, iface, calls, busy, newest, inOrder,
                   crossed, steps>>
CancelNote ==
    /\ OverviewTab /\ editing /\ "note" \notin busy /\ ResetsNote
    /\ UNCHANGED <<target, tab, tokens, shown, dialog, range, iface, calls, busy, newest, inOrder, crossed,
                   steps>>

(* The topology is loaded, with another note of the node: what is edited   *)
(* is given up.                                                            *)
NoteLoads ==
    /\ editing /\ ResetsNote
    /\ UNCHANGED <<target, tab, tokens, shown, dialog, range, iface, calls, busy, newest, inOrder, crossed,
                   steps>>

(* The dialogs of the configurations say that they load until one comes.   *)
OpenConfig(op) ==
    /\ dialog' = op /\ Step
    /\ crossed' = IF UnderWay(op) THEN crossed \cup {op} ELSE crossed \ {op}
    /\ Send(op) /\ busy' = busy \cup {op}
    /\ UNCHANGED <<target, tab, tokens, shown, editing, typed, range, iface, newest, inOrder>>
HandleOpenBirdConfig == RoutingTab /\ OpenConfig("bird")
HandleOpenNftablesConfig == FirewallTab /\ OpenConfig("nftables")

CloseDialog ==
    /\ dialog # None /\ ~(dialog = "uninstall" /\ "uninstall" \in busy) /\ dialog' = None
    /\ UNCHANGED <<target, tab, tokens, shown, editing, typed, range, iface, calls, busy, newest, inOrder,
                   crossed, steps>>

-----------------------------------------------------------------------------
(* Answers                                                                 *)

Ends(op) == calls' = [calls EXCEPT ![Slot(op)] = NoCall] /\ busy' = busy \ {op}

(* An answer names the interface it is of.  If none was asked for it is    *)
(* selected, whatever is selected by then, and if that is another one the  *)
(* effect asks for its metrics.                                            *)
MetricsArrive(s) ==
    /\ s.op = "metrics" /\ calls[s].of # None
    /\ \E i \in IF calls[s].iface = None THEN Interfaces \cup {None} ELSE {calls[s].iface} :
           /\ shown' = [shown EXCEPT !["points"] =
                            [of |-> calls[s].of, range |-> calls[s].range, iface |-> i]]
           /\ IF calls[s].iface = None /\ i \notin {None, iface}
              THEN /\ calls' = [calls EXCEPT ![s] = Metrics(target, range, i)] /\ newest' = s
                   /\ iface' = i /\ inOrder' = FALSE /\ UNCHANGED busy
              ELSE /\ calls' = [calls EXCEPT ![s] = NoCall] /\ busy' = busy \ {"metrics"}
                   /\ inOrder' = (s = newest) /\ UNCHANGED <<iface, newest>>
    /\ UNCHANGED <<target, tab, tokens, dialog, editing, typed, range, crossed, steps>>

(* Without an answer the charts are empty.                                 *)
MetricsFail(s) ==
    /\ s.op = "metrics" /\ calls[s].of # None
    /\ shown' = [shown EXCEPT !["points"] = Nothing]
    /\ calls' = [calls EXCEPT ![s] = NoCall] /\ busy' = busy \ {"metrics"}
    /\ inOrder' = (s = newest)
    /\ UNCHANGED <<target, tab, tokens, dialog, editing, typed, range, iface, newest, crossed, steps>>

ConfigArrives(s) ==
    /\ s.op \in Configs /\ calls[s].of # None
    /\ calls' = [calls EXCEPT ![s] = NoCall] /\ busy' = busy \ {s.op}
    /\ shown' = [shown EXCEPT ![s.op] = Of(calls[s].of)]
    /\ UNCHANGED <<target, tab, tokens, dialog, editing, typed, range, iface, newest, inOrder, crossed, steps>>

TokenArrives ==
    /\ calls[Slot("agent")].of # None /\ Ends("agent")
    /\ shown' = [shown EXCEPT !["token"] = Of(calls[Slot("agent")].of)]
    /\ UNCHANGED <<target, tab, tokens, dialog, editing, typed, range, iface, newest, inOrder, crossed, steps>>

Rotated ==
    /\ calls[Slot("rotate")].of # None /\ Ends("rotate")
    /\ shown' = [shown EXCEPT !["token"] = Of(calls[Slot("rotate")].of)]
    /\ tokens' = tokens \cup {calls[Slot("rotate")].of}
    /\ UNCHANGED <<target, tab, dialog, editing, typed, range, iface, newest, inOrder, crossed, steps>>

Uninstalled ==
    /\ calls[Slot("uninstall")].of # None /\ Ends("uninstall") /\ dialog' = None
    /\ shown' = [shown EXCEPT !["token"] = Nothing]
    /\ tokens' = tokens \ {calls[Slot("uninstall")].of}
    /\ UNCHANGED <<target, tab, editing, typed, range, iface, newest, inOrder, crossed, steps>>

(* It ends the editing of whatever note is edited by then.                 *)
NoteSaved ==
    /\ calls[Slot("note")].of # None /\ Ends("note") /\ ResetsNote
    /\ UNCHANGED <<target, tab, tokens, shown, dialog, range, iface, newest, inOrder, crossed, steps>>

(* The rest only end: the topology is loaded again, a request fails.       *)
CommandEnds(op) ==
    /\ calls[Slot(op)].of # None /\ Ends(op)
    /\ UNCHANGED <<target, tab, tokens, shown, dialog, editing, typed, range, iface, newest, inOrder, crossed, steps>>

-----------------------------------------------------------------------------
Next ==
    \/ (\E n \in Nodes : SelectInSidebar(n) \/ SelectPeer(n) \/ \E t \in Tabs : BackOrForward(n, t))
    \/ (\E r \in Ranges : SelectRange(r)) \/ (\E i \in Interfaces : SelectInterface(i))
    \/ RefreshMetrics \/ (\E t \in Tabs : HandleTabChange(t))
    \/ HandleProbe \/ HandleRestartAllWg \/ HandleRestartBird \/ HandleRotateAgentToken
    \/ HandleSaveNote \/ OpenUninstall \/ HandleUninstallAgent \/ AskForToken
    \/ EditNote \/ TypeNote \/ CancelNote \/ NoteLoads
    \/ HandleOpenBirdConfig \/ HandleOpenNftablesConfig \/ CloseDialog
    \/ (\E s \in Slots : MetricsArrive(s) \/ MetricsFail(s) \/ ConfigArrives(s))
    \/ TokenArrives \/ Rotated \/ Uninstalled \/ NoteSaved \/ (\E op \in Commands \cup {"agent"} : CommandEnds(op))

Spec == Init /\ [][Next]_vars

-----------------------------------------------------------------------------
(* Through every change of node, range and interface, with requests for    *)
(* the last ones under way: once the answers are in, and the last to come  *)
(* is the last asked for, the charts are of the node, the range and the    *)
(* interface selected, or empty.                                           *)
MetricsOfNode ==
    ~UnderWay("metrics") /\ inOrder =>
        shown["points"] \in {Nothing, [of |-> target, range |-> range, iface |-> iface]}

(* A dialog that no longer says that it loads shows the configuration of   *)
(* the node of the page, unless one was under way when it opened or the    *)
(* page went on to another node under it.                                  *)
ConfigOfNode ==
    dialog \in Configs /\ dialog \notin busy \cup crossed => shown[dialog].of = target

(* What is typed as a note is for the node of the page, through every      *)
(* change of node and every note saved late or loaded meanwhile.           *)
NoteOfNode == editing => typed \in {None, target}

(* What disables a button ends with its request.                           *)
NoDeadButton == \A op \in busy : UnderWay(op)

(* The command that installs the agent is to be run on the node of the     *)
(* page (NodeDetailPage.tsx:3363), with its token: false, for the token    *)
(* shown is kept when the page goes on to another node.                    *)
TokenOfNode == tab = "agent" /\ shown["token"].of # None => shown["token"].of = target
=============================================================================
