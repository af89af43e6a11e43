-------------------------------- MODULE Web --------------------------------
(* The web client: the page's copy of the topology (MeshClient), which is  *)
(* there on every screen, and its screens, dialogs and drawers.  A         *)
(* behaviour is of one of them from its first state on, and of the copy    *)
(* alone on the screen "mesh": what each module has to know of the others, *)
(* that the topology is loaded again at any moment, is an action of its    *)
(* own there.  Each instance has its requests in "calls", what they        *)
(* disable in "busy" and its bound in "steps"; its other variables take    *)
(* the places x1, x2, ... in order, and those left over are "off".         *)
EXTENDS WebPages, WebDialogs

-----------------------------------------------------------------------------
(* The places an instance with that many variables leaves over.            *)
Off15 == TRUE
Off12 == Off15 /\ x13 = "off" /\ x14 = "off" /\ x15 = "off"
Off11 == Off12 /\ x12 = "off"
Off10 == Off11 /\ x11 = "off"
Off9 == Off10 /\ x10 = "off"
Off8 == Off9 /\ x9 = "off"
Off7 == Off8 /\ x8 = "off"
Off6 == Off7 /\ x7 = "off"
Off5 == Off6 /\ x6 = "off"
Off0 == Off5 /\ x1 = "off" /\ x2 = "off" /\ x3 = "off" /\ x4 = "off" /\ x5 = "off"
Idle15 == TRUE
Idle12 == Idle15 /\ UNCHANGED <<x13, x14, x15>>
Idle11 == Idle12 /\ UNCHANGED x12
Idle10 == Idle11 /\ UNCHANGED x11
Idle9 == Idle10 /\ UNCHANGED x10
Idle8 == Idle9 /\ UNCHANGED x9
Idle7 == Idle8 /\ UNCHANGED x8
Idle6 == Idle7 /\ UNCHANGED x7
Idle5 == Idle6 /\ UNCHANGED x6
Idle0 == Idle5 /\ UNCHANGED <<x1, x2, x3, x4, x5>>

(* On the other screens the copy stays as it is when the page was opened.  *)
NewPage ==
    /\ Init /\ ~unlocked
    /\ budget = [changes |-> 1, turns |-> 0, breaks |-> 1, clicks |-> 0]
Opens(s, A) == screen = s /\ NewPage /\ A
On(s, A) == screen = s /\ A /\ UNCHANGED <<vars, screen>>

InitWeb ==
    \/ screen = "mesh" /\ Init /\ calls = "off" /\ busy = "off" /\ steps = "off" /\ Off0
    \/ Opens("configs", Configs!Init /\ calls = "off" /\ busy = "off" /\ Off15)
    \/ Opens("settings", Settings!Init /\ Off6)
    \/ Opens("sync", Sync!Init /\ Off6)
    \/ Opens("apply", Apply!Init /\ Off8)
    \/ Opens("nodeForm", Node!Init /\ Off8)
    \/ Opens("linkForm", Link!Init /\ Off11)
    \/ Opens("apps", AppList!Init /\ Off7)
    \/ Opens("app", App!Init /\ Off10)
    \/ Opens("nodePage", OnPage!Init /\ Off12)
    \/ Opens("linkDrawer", OfLink!Init /\ Off12)
    \/ Opens("nodeDrawer", OfNode!Init /\ Off10)
    \/ Opens("tokens", Tokens!Init /\ Off7)
    \/ Opens("nodes", List!Init /\ Off5)
    \/ Opens("pingTable", Ping!Init /\ Off7)
    \/ Opens("glass", Glass!Init /\ Off15)
    \/ Opens("cron", Cron!Init /\ Off11)
    \/ Opens("events", Events!Init /\ Off7)

NextWeb ==
    \/ screen = "mesh" /\ Next /\ UNCHANGED <<screen, calls, busy, steps>> /\ Idle0
    \/ On("configs", Configs!Next /\ UNCHANGED <<calls, busy>> /\ Idle15)
    \/ On("settings", Settings!Next /\ Idle6)
    \/ On("sync", Sync!Next /\ Idle6)
    \/ On("apply", Apply!Next /\ Idle8)
    \/ On("nodeForm", Node!Next /\ Idle8)
    \/ On("linkForm", Link!Next /\ Idle11)
    \/ On("apps", AppList!Next /\ Idle7)
    \/ On("app", App!Next /\ Idle10)
    \/ On("nodePage", OnPage!Next /\ Idle12)
    \/ On("linkDrawer", OfLink!Next /\ Idle12)
    \/ On("nodeDrawer", OfNode!Next /\ Idle10)
    \/ On("tokens", Tokens!Next /\ Idle7)
    \/ On("nodes", List!Next /\ Idle5)
    \/ On("pingTable", Ping!Next /\ Idle7)
    \/ On("glass", Glass!Next /\ Idle15)
    \/ On("cron", Cron!Next /\ Idle11)
    \/ On("events", Events!Next /\ Idle7)

SpecWeb == InitWeb /\ [][NextWeb]_allVars

-----------------------------------------------------------------------------
(* The copy and every screen stay within their types.                      *)
ScreensTypeOK ==
    /\ TypeOK
    /\ screen = "configs" => Configs!TypeOK
    /\ screen = "settings" => Settings!TypeOK
    /\ screen = "sync" => Sync!TypeOK
    /\ screen = "apply" => Apply!TypeOK
    /\ screen = "nodeForm" => Node!TypeOK
    /\ screen = "linkForm" => Link!TypeOK
    /\ screen = "apps" => AppList!TypeOK
    /\ screen = "app" => App!TypeOK
    /\ screen = "nodePage" => OnPage!TypeOK
    /\ screen = "linkDrawer" => OfLink!TypeOK
    /\ screen = "nodeDrawer" => OfNode!TypeOK
    /\ screen = "tokens" => Tokens!TypeOK
    /\ screen = "nodes" => List!TypeOK
    /\ screen = "pingTable" => Ping!TypeOK
    /\ screen = "glass" => Glass!TypeOK
    /\ screen = "cron" => Cron!TypeOK
    /\ screen = "events" => Events!TypeOK

(* What disables a button or a form while a request is under way ends with *)
(* that request: no error, early return, late answer or second request     *)
(* leaves it disabled for good.                                            *)
NoDeadButton ==
    /\ screen = "configs" => Configs!NoDeadForm
    /\ screen = "settings" => Settings!NoDeadButton
    /\ screen = "sync" => Sync!NoDeadButton
    /\ screen = "apply" => Apply!NoDeadButton
    /\ screen = "nodeForm" => Node!NoDeadButton
    /\ screen = "linkForm" => Link!NoDeadButton
    /\ screen = "apps" => AppList!NoDeadButton
    /\ screen = "app" => App!NoDeadButton
    /\ screen = "nodePage" => OnPage!NoDeadButton
    /\ screen = "linkDrawer" => OfLink!NoDeadButton
    /\ screen = "nodeDrawer" => OfNode!NoDeadButton
    /\ screen = "tokens" => Tokens!NoDeadButton
    /\ screen = "nodes" => List!NoDeadButton
    /\ screen = "pingTable" => Ping!NoDeadButton
    /\ screen = "glass" => Glass!NoDeadButton
    /\ screen = "cron" => Cron!NoDeadButton
    /\ screen = "events" => Events!NoDeadButton

(* A form that was opened for one item, or for a new one, never holds a    *)
(* field left over from what it was opened for before.                     *)
NoLeftovers ==
    /\ screen = "configs" => Configs!NoLeftovers
    /\ screen = "nodeForm" => Node!NoLeftovers
    /\ screen = "app" => App!NoLeftovers

(* Fields of a form that depend on each other agree, however they were     *)
(* filled in and in whatever order: the fallback entrypoint is the last, a *)
(* probe does not rename a node (unless it was under way when the form was *)
(* opened for another), ports and policy are those of the pair of          *)
(* nodes, the two ways to say where an app runs say the same, and the tab  *)
(* that is open exists.                                                    *)
FieldsAgree ==
    /\ screen = "nodeForm" => Node!FallbackLast /\ Node!NotRenamedByProbe
    /\ screen = "linkForm" => Link!PortsOfPair /\ Link!PolicyOfKind /\ Link!FormOfLink
    /\ screen = "app" => App!TargetsAgree /\ App!TabExists

(* What was typed into the network and DNS forms of the settings is not    *)
(* overwritten by the load of the tab, unless two loads overlap.           *)
OverwrittenOnlyByOverlap == [][screen = "settings" => Settings!KeepsTyping]_allVars

(* The dialog for a sync, as long as it is mounted, never has two of its   *)
(* own under way, though it may be closed and opened again during one.     *)
OneSync == screen = "sync" => Sync!OneSync

(* What is shown of the node, link or check that is selected was answered  *)
(* for it, and not for the one selected before, but where the module names *)
(* a request that crosses the selection.                                   *)
AnswersOfTarget ==
    /\ screen = "sync" => Sync!ShowsTarget
    /\ screen = "nodePage" => OnPage!MetricsOfNode /\ OnPage!ConfigOfNode
    /\ screen = "nodeDrawer" => OfNode!ConfigOfNode
    /\ screen = "linkDrawer" => OfLink!SecretOfTitle /\ OfLink!PeeringOfLink
    /\ screen = "glass" => Glass!ResultListed

(* What was typed does not get to anything else: a note that is edited is  *)
(* of the node or link it is saved for, though the page or a load of the   *)
(* topology may discard it; and in the dialog that applies a configuration *)
(* the text is replaced only by what the user asked for, as long as the    *)
(* dialog is mounted, and the verdict is about the text shown.             *)
DraftsKept ==
    /\ screen = "nodePage" => OnPage!NoteOfNode
    /\ screen = "nodeDrawer" => OfNode!NoteOfNode
    /\ screen = "linkDrawer" => OfLink!NoteOfLink
    /\ screen = "apply" => Apply!VerdictIsOfText /\ Apply!TextKept

(* Once everything asked for has arrived, lists show what the server has,  *)
(* of the filters and the type that are selected, but where two requests   *)
(* cross, or a change was made and answered with an error or not at all.   *)
ListsAreCurrent ==
    /\ screen = "apps" => AppList!InOrderIsCurrent
    /\ screen = "tokens" => Tokens!ShownInForce
    /\ screen = "pingTable" => Ping!TypeOfTable
    /\ screen = "events" => Events!ListOfFilters

(* A token that was rotated away is not accepted again, but where turning  *)
(* the server on or off crosses the rotation.                              *)
RotatedStaysAway == screen = "tokens" => Tokens!RotatedStaysAway

(* Once nothing is under way, registered agents hold the cron tasks that   *)
(* are enabled for them and no other, but where two changes cross, and but *)
(* for the agents that the last list did not reach, or that were sent none *)
(* because the change could not be saved.                                  *)
AgentsCurrent == screen = "cron" => Cron!AgentsCurrent

(* The address of the page, its list and its selection agree once its      *)
(* effects have run: no node is hidden that the filters let through, the   *)
(* tag of the address is the selected one if a node has it, and the        *)
(* selection of the looking glass settles.                                 *)
SelectionAgrees ==
    /\ screen = "nodes" => List!NothingHidden /\ List!AddressOfList
    /\ screen = "glass" => Glass!SelectionSettles
=============================================================================
