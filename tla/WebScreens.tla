----------------------------- MODULE WebScreens -----------------------------
(* What the screens of the web client have in common: the page's copy of   *)
(* the topology, their constants, and the places of their variables.       *)
EXTENDS MeshClient

(* What each module says of its constants goes for those it is given.     *)
CONSTANTS
    \* of several screens
    Nodes, External, Lanes, MaxCalls, NoteTexts, MaxSteps, MoreSteps, MostSteps,
    \* of ConfigDialogs
    Confs, Builtin, ItemType, ItemParts, MaxEdits,
    \* of SettingsTabs, ApplyDialog and NodeForm
    SettingFields, SettingForm, SettingValues, MaxSettings, Pasted, Preset, Presets, Valid,
    MaxEntries,
    \* of LinkForm, AppsList and AppDialog
    LinkEnds, ExternalEnds, LinksOfEnds, MaxTyped, Old, New, Apps, AppType, AppSelector,
    \* of NodePage, LinkDrawer and NodesView
    Ranges, Interfaces, ExternalPages, Links, ExternalLinks, Pair, MaxNotes, KeyCalls,
    Tags, Blocks, Words,
    \* of PingTableView, LookingGlass, CronTasks and EventsView
    Runs, Tagged, BuiltinChecks, CustomChecks, Tasks, AllEvents, Offline, Found

ASSUME BoundsAssumption ==
    /\ MaxSteps \in Nat /\ MoreSteps \in Nat /\ MostSteps \in Nat
    /\ MaxEdits \in Nat /\ MaxSettings \in Nat

(* What stands for nothing, or for what a field was filled with, is not    *)
(* the name of an item, a node, an app or a link, and not a note.          *)
ASSUME NamesAssumption ==
    /\ "none" \notin Confs \cup Nodes \cup Apps \cup Links
    /\ "unset" \notin Nodes /\ "probed" \notin Nodes

(* An app has a type and a selector; one of the settings is a form's; what *)
(* the looking glass starts from is among its tasks.                       *)
ASSUME AppsAssumption ==
    /\ AppType \in [Apps -> {"docker", "systemd", "cron"}]
    /\ AppSelector \in [Apps -> {"name", "tag", "all", "mixed"}]
ASSUME FormAssumption == SettingForm \in SettingFields
ASSUME ChecksAssumption == "ping" \in BuiltinChecks

(* There is a note to begin with; a page to open, of a node that is not an *)
(* external peer, and a range of its metrics; a drawer to open, whose keys *)
(* are not its other requests; and what is valid is what can be pasted.    *)
ASSUME TextsAssumption == "none" \notin NoteTexts /\ NoteTexts # {}
ASSUME PageAssumption == Nodes \ ExternalPages # {} /\ Ranges # {}
ASSUME LinksAssumption ==
    Links # {} /\ KeyCalls \cap {"from", "to", "link", "restart", "refresh", "delete", "peering"} = {}
ASSUME PastedAssumption == Valid \subseteq Pasted \cup {Preset}

(* A list of entrypoints can have one; the links there are join nodes there *)
(* are; the app that is added is not the one there was; runs are numbered  *)
(* in their order; and there is an end to the events.                      *)
ASSUME EntriesAssumption == MaxEntries \in Nat \ {0}
ASSUME LinksOfAssumption == LinksOfEnds \subseteq LinkEnds \X LinkEnds
ASSUME ItemsAssumption == Old # New
ASSUME RunsAssumption == IsFiniteSet(Runs) /\ Runs = 1..Cardinality(Runs)
ASSUME EventsAssumption == IsFiniteSet(AllEvents)

VARIABLES screen, calls, busy, steps,
          x1, x2, x3, x4, x5, x6, x7, x8, x9, x10, x11, x12, x13, x14, x15
places == <<x1, x2, x3, x4, x5, x6, x7, x8, x9, x10, x11, x12, x13, x14, x15>>
allVars == <<vars, screen, calls, busy, steps, places>>
=============================================================================
