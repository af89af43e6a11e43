----------------------------- MODULE NodeDrawer -----------------------------
(***************************************************************************)
(* The drawer of one node of the map (NodeDetailDrawer.tsx), with its note *)
(* and the dialogs that show its configurations.  The page stays mounted   *)
(* when the drawer closes: what it holds is there for the next node.       *)
(* A saved note makes its node the selected one; a node that is gone, and  *)
(* the answer to its removal, close the drawer, whatever is open in it.    *)
(***************************************************************************)
EXTENDS Naturals, FiniteSets

CONSTANTS
    Nodes,
    External,     \* those that are external peers
    Texts,        \* what a note can say
    MaxSteps      \* how often a node is selected, a dialog opens, something changes elsewhere

None == "none"
Gone == "gone"
Configs == {"bird", "nftables"}
Commands == {"wg", "birdd", "refresh", "update", "delete", "note"}
Ops == Configs \cup Commands

VARIABLES
    target,         \* selectedNode, None when the drawer is closed
    server, list,   \* the notes of every node, or Gone: at the server, and in the page
    held,           \* that of the object of the selected node
    editing, typed, \* isEditingNote; for which node noteDraft was typed
    dialog,         \* viewingBird, viewingNftables
    shown,          \* birdConfig, nftablesConfig: of which node each is
    calls, busy,    \* per operation the nodes of the requests under way; the buttons they hold
    loading,        \* the topology is being loaded
    crossed,        \* history: the dialogs opened with a request under way, or left by the drawer
    steps
vars == <<target, server, list, held, editing, typed, dialog, shown, calls, busy, loading, crossed,
          steps>>

TypeOK ==
    /\ target \in Nodes \cup {None} /\ server \in [Nodes -> Texts \cup {Gone}]
    /\ list \in [Nodes -> Texts \cup {Gone}]
    /\ held \in Texts \cup {None} /\ ((held = None) <=> (target = None))
    /\ editing \in BOOLEAN /\ typed \in Nodes \cup {None}
    /\ dialog \in Configs \cup {None}
    /\ shown \in [Configs -> Nodes \cup {None}] /\ calls \in [Ops -> SUBSET Nodes]
    /\ busy \subseteq Ops /\ loading \in BOOLEAN /\ crossed \subseteq Configs /\ steps \in 0..MaxSteps

Init ==
    /\ server = [n \in Nodes |-> CHOOSE t \in Texts : TRUE] /\ list = server
    /\ target = None /\ held = None /\ editing = FALSE /\ typed = None
    /\ dialog = None /\ shown = [c \in Configs |-> None]
    /\ calls = [op \in Ops |-> {}] /\ busy = {} /\ loading = FALSE /\ crossed = {} /\ steps = 0

Step == steps < MaxSteps /\ steps' = steps + 1
UnderWay(op) == calls[op] # {}
NodeOf(op) == CHOOSE n \in calls[op] : TRUE
Drawer == target # None /\ dialog = None
(* The bound: of the commands one is under way at a time.                  *)
Alone == \A op \in Commands : ~UnderWay(op)

-----------------------------------------------------------------------------
(* The node of the drawer                                                  *)

(* The draft follows the node and its note.                                *)
SetDraft(n, note) ==
    IF n = None \/ (n = target /\ note = held) THEN UNCHANGED <<editing, typed>>
    ELSE editing' = FALSE /\ typed' = None

SetSelectedNode(n, note) ==
    /\ target' = n /\ held' = (IF n = None THEN None ELSE note) /\ SetDraft(n, note)
    /\ crossed' = IF n = target THEN crossed ELSE crossed \cup ({dialog} \ {None})

HandleSelectNode(n) ==
    /\ target = None /\ list[n] # Gone /\ Step /\ SetSelectedNode(n, list[n])
    /\ UNCHANGED <<server, list, dialog, shown, calls, busy, loading>>
CloseDrawer ==
    /\ Drawer /\ SetSelectedNode(None, None)
    /\ UNCHANGED <<server, list, dialog, shown, calls, busy, loading, steps>>

(* Someone else changes a note or removes a node.                          *)
ChangedElsewhere(n, note) ==
    /\ server[n] # Gone /\ note # server[n] /\ Step /\ server' = [server EXCEPT ![n] = note]
    /\ loading' = TRUE
    /\ UNCHANGED <<target, list, held, editing, typed, dialog, shown, calls, busy, crossed>>

(* A mutant: the drawer of a node that is gone closes and holds it still.  *)
LoadArrivesHalfway ==
    /\ loading /\ loading' = FALSE /\ list' = server
    /\ target' = IF target = None \/ server[target] = Gone THEN None ELSE target
    /\ UNCHANGED <<server, held, editing, typed, dialog, shown, calls, busy, crossed, steps>>

LoadArrives ==
    /\ loading /\ loading' = FALSE /\ list' = server
    /\ IF target = None \/ server[target] = Gone THEN SetSelectedNode(None, None)
       ELSE SetSelectedNode(target, server[target])
    /\ UNCHANGED <<server, dialog, shown, calls, busy, steps>>

-----------------------------------------------------------------------------
(* The note                                                                *)

EditNote ==
    /\ Drawer /\ ~editing /\ editing' = TRUE /\ typed' = None
    /\ UNCHANGED <<target, server, list, held, dialog, shown, calls, busy, loading, crossed, steps>>
TypeNote ==
    /\ Drawer /\ editing /\ "note" \notin busy /\ typed' = target
    /\ UNCHANGED <<target, server, list, held, editing, dialog, shown, calls, busy, loading, crossed,
                   steps>>
CancelNote ==
    /\ Drawer /\ editing /\ "note" \notin busy /\ editing' = FALSE /\ typed' = None
    /\ UNCHANGED <<target, server, list, held, dialog, shown, calls, busy, loading, crossed, steps>>

Press(op) ==
    /\ Drawer /\ op \notin busy /\ Alone /\ calls' = [calls EXCEPT ![op] = {target}]
    /\ busy' = busy \cup {op}
    /\ UNCHANGED <<target, server, list, held, editing, typed, dialog, shown, loading, crossed, steps>>

HandleSaveNote == editing /\ Press("note")

(* onNodeUpdated selects the node again, and what is edited is given up.   *)
NoteSaved(note) ==
    LET n == NodeOf("note") IN
    /\ UnderWay("note") /\ server[n] # Gone
    /\ server' = [server EXCEPT ![n] = note] /\ loading' = TRUE
    /\ target' = n /\ held' = note /\ editing' = FALSE /\ typed' = None
    /\ calls' = [calls EXCEPT !["note"] = {}] /\ busy' = busy \ {"note"}
    /\ crossed' = IF n = target THEN crossed ELSE crossed \cup ({dialog} \ {None})
    /\ UNCHANGED <<list, dialog, shown, steps>>

-----------------------------------------------------------------------------
(* The other buttons                                                       *)

Managed == target \notin External
HandleRestartAllWg == Managed /\ busy \cap {"birdd", "update", "refresh", "delete"} = {} /\ Press("wg")
HandleRestartBird == Managed /\ busy \cap {"wg", "update", "refresh", "delete"} = {} /\ Press("birdd")
HandleUpdateNodeState == Managed /\ busy \cap {"refresh", "delete"} = {} /\ Press("update")
HandleRefresh == "delete" \notin busy /\ Press("refresh")
HandleDelete == "refresh" \notin busy /\ Press("delete")

(* onStatusRefreshed loads the topology; the state collected does as well. *)
CommandEnds(op, loads) ==
    /\ UnderWay(op) /\ loading' = (loading \/ loads)
    /\ calls' = [calls EXCEPT ![op] = {}] /\ busy' = busy \ {op}
    /\ UNCHANGED <<target, server, list, held, editing, typed, dialog, shown, crossed, steps>>
WgRestarted == CommandEnds("wg", TRUE)
BirdRestarted == CommandEnds("birdd", FALSE)
StateUpdated == CommandEnds("update", TRUE)
Refreshed == CommandEnds("refresh", TRUE)
Fails(op) == op \in Commands /\ CommandEnds(op, FALSE)

Deleted ==
    /\ UnderWay("delete") /\ server' = [server EXCEPT ![NodeOf("delete")] = Gone] /\ loading' = TRUE
    /\ SetSelectedNode(None, None)
    /\ calls' = [calls EXCEPT !["delete"] = {}] /\ busy' = busy \ {"delete"}
    /\ UNCHANGED <<list, dialog, shown, steps>>

-----------------------------------------------------------------------------
(* The configurations: each is asked for whenever its dialog opens.        *)

Loads(c) == calls' = [calls EXCEPT ![c] = @ \cup {target}] /\ busy' = busy \cup {c}

(* The bound: of each node a configuration is asked for once at a time.    *)
OpenConfig(c) ==
    /\ Drawer /\ target \notin calls[c] /\ Step /\ dialog' = c /\ Loads(c)
    /\ crossed' = IF UnderWay(c) THEN crossed \cup {c} ELSE crossed \ {c}
    /\ UNCHANGED <<target, server, list, held, editing, typed, shown, loading>>
HandleOpenBirdConfig == OpenConfig("bird")
HandleOpenNftablesConfig == Managed /\ OpenConfig("nftables")

(* The text of the configuration, or of the failure.                       *)
ConfigArrives(c, n) ==
    /\ n \in calls[c] /\ shown' = [shown EXCEPT ![c] = n]
    /\ calls' = [calls EXCEPT ![c] = @ \ {n}] /\ busy' = busy \ {c}
    /\ UNCHANGED <<target, server, list, held, editing, typed, dialog, loading, crossed, steps>>

CloseBird ==
    /\ target # None /\ dialog = "bird" /\ dialog' = None
    /\ UNCHANGED <<target, server, list, held, editing, typed, shown, calls, busy, loading, crossed, steps>>
CloseNftables ==
    /\ target # None /\ dialog = "nftables" /\ dialog' = None
    /\ UNCHANGED <<target, server, list, held, editing, typed, shown, calls, busy, loading, crossed, steps>>

-----------------------------------------------------------------------------
Next ==
    \/ (\E n \in Nodes : HandleSelectNode(n)) \/ CloseDrawer
    \/ (\E n \in Nodes, t \in Texts \cup {Gone} : ChangedElsewhere(n, t)) \/ LoadArrives
    \/ EditNote \/ TypeNote \/ CancelNote \/ HandleSaveNote \/ (\E t \in Texts : NoteSaved(t))
    \/ HandleRestartAllWg \/ HandleRestartBird \/ HandleUpdateNodeState \/ HandleRefresh
    \/ HandleDelete \/ WgRestarted \/ BirdRestarted \/ StateUpdated \/ Refreshed
    \/ (\E op \in Commands : Fails(op)) \/ Deleted
    \/ HandleOpenBirdConfig \/ HandleOpenNftablesConfig \/ (\E c \in Configs, n \in Nodes : ConfigArrives(c, n))
    \/ CloseBird \/ CloseNftables

Spec == Init /\ [][Next]_vars

-----------------------------------------------------------------------------
(* What is typed as a note is for the node of the drawer, through every    *)
(* way the drawer closes, opens for another node, or is given one by the   *)
(* answer to a note saved before.                                          *)
NoteOfNode == target # None /\ editing => typed \in {None, target}

(* A dialog that no longer says that it loads shows the configuration of   *)
(* the node of the drawer, unless one was under way when it opened or the  *)
(* drawer was closed or given another node under it.                       *)
ConfigOfNode ==
    target # None /\ dialog \in Configs \ (busy \cup crossed) => shown[dialog] = target

(* The configuration is that of the node its title names                   *)
(* (NodeDetailDrawer.tsx:1760): false, for the dialog outlives its drawer  *)
(* when the node is removed, and opens again with the next one.            *)
ConfigOfTitle == target # None /\ dialog # None /\ dialog \notin busy => shown[dialog] = target

(* What disables a button ends with its request.                           *)
NoDeadButton == \A op \in busy : UnderWay(op)
=============================================================================
