--------------------------- MODULE ConfigDialogs ---------------------------
(***************************************************************************)
(* The tabs of the settings page that list network policies and templates  *)
(* of configuration files, and the dialog each opens to create, view, edit *)
(* or clone one (SettingsModal.tsx).  One dialog serves all of them, with  *)
(* about forty fields set by hand each time it opens; it can be closed and *)
(* opened again while its request is under way.                            *)
(*                                                                         *)
(* The fields are grouped into Parts.  What a part holds is the item it    *)
(* was filled from, "blank", or "typed".                                   *)
(***************************************************************************)
EXTENDS Naturals, FiniteSets

CONSTANTS
    Items,        \* the policies or templates there may be
    Builtin,      \* those that come with the program
    Type,         \* the type of a template
    Parts,        \* the groups of fields of a policy's dialog
    MaxEdits,     \* how often a field may be edited
    MaxSteps,     \* how often a dialog may be opened
    None

Tabs == {"policies", "templates"}
Filters == {"all"} \cup {Type[i] : i \in Items}
TemplateParts == {"id", "text"}
PartsOf(t) == IF t = "policies" THEN Parts ELSE TemplateParts
AllParts == Parts \cup TemplateParts
Content == Items \cup {"blank", "typed"}

VARIABLES
    tab,          \* the tab that is open
    onServer,     \* the items there are
    list,         \* the items the tab lists
    filter,       \* templateTypeFilter
    listCalls,    \* the answers to come, or come, of the requests for the list
    listLoading,  \* policiesLoading, templatesLoading
    dialog,       \* the dialog: open, its mode, and the item it was opened for
    draft,        \* what its fields hold
    typed,        \* history: the parts typed into since it opened
    save,         \* the save under way
    saving,       \* policyDialogSaving, templateDialogSaving
    toDelete,     \* templateToDelete
    deleteCall,   \* the deletion under way
    deleting,     \* templateDeleting
    edits, steps  \* how often a field was edited, a dialog opened
vars == <<tab, onServer, list, filter, listCalls, listLoading, dialog, draft, typed, save, saving,
          toDelete, deleteCall, deleting, edits, steps>>

NoCall == [at |-> "none", item |-> None, mode |-> "view"]
Closed == [open |-> FALSE, mode |-> "create", of |-> "blank"]
Modes == {"create", "edit", "view"}

(* The lists are requested by the tab's effect ("tab"), and after a save   *)
(* or a deletion, which waits for the answer.                              *)
Askers == {"tab", "save", "delete"}

TypeOK ==
    /\ tab \in Tabs /\ onServer \subseteq Items /\ list \subseteq Items /\ filter \in Filters
    /\ listCalls \in [Askers -> (SUBSET Items) \cup {{"none"}, {"sent"}}]
    /\ listLoading \in BOOLEAN /\ saving \in BOOLEAN /\ deleting \in BOOLEAN
    /\ dialog \in [open : BOOLEAN, mode : Modes, of : Items \cup {"blank"}]
    /\ draft \in [AllParts -> Content] /\ typed \subseteq AllParts
    /\ save \in [at : {"none", "sent", "done"}, item : Items \cup {None}, mode : Modes]
    /\ deleteCall \in [at : {"none", "sent", "done"}, item : Items \cup {None}, mode : Modes]
    /\ toDelete \in Items \cup {None}
    /\ edits \in 0..MaxEdits /\ steps \in 0..MaxSteps

Init ==
    /\ tab \in Tabs /\ onServer = Items /\ list = {} /\ filter = "all"
    /\ listCalls = [a \in Askers |-> IF a = "tab" THEN {"sent"} ELSE {"none"}] /\ listLoading = TRUE
    /\ dialog = Closed /\ draft = [p \in AllParts |-> "blank"] /\ typed = {}
    /\ save = NoCall /\ saving = FALSE
    /\ toDelete = None /\ deleteCall = NoCall /\ deleting = FALSE
    /\ edits = 0 /\ steps = 0

-----------------------------------------------------------------------------
(* The lists                                                               *)

ServerLists(a) ==
    /\ listCalls[a] = {"sent"} /\ listCalls' = [listCalls EXCEPT ![a] = onServer]
    /\ UNCHANGED <<tab, onServer, list, filter, listLoading, dialog, draft, typed, save, saving,
                   toDelete, deleteCall, deleting, edits, steps>>

(* An answer, or a failure that leaves the list as it is.  A save or a     *)
(* deletion that waited for it is over then.                               *)
ListArrives(a) ==
    /\ listCalls[a] # {"none"}
    /\ \/ listCalls[a] # {"sent"} /\ list' = listCalls[a]
       \/ list' = list
    /\ listCalls' = [listCalls EXCEPT ![a] = {"none"}] /\ listLoading' = FALSE
    /\ saving' = (saving /\ a # "save") /\ deleting' = (deleting /\ a # "delete")
    /\ UNCHANGED <<tab, onServer, filter, dialog, draft, typed, save, toDelete, deleteCall, edits,
                   steps>>
LoadPolicies(a) == tab = "policies" /\ ListArrives(a)
LoadTemplates(a) == tab = "templates" /\ ListArrives(a)

(* The tab's effect runs again when the tab is left and opened again.      *)
ReopenTab ==
    /\ listCalls["tab"] = {"none"} /\ steps < MaxSteps /\ steps' = steps + 1
    /\ listCalls' = [listCalls EXCEPT !["tab"] = {"sent"}] /\ listLoading' = TRUE
    /\ UNCHANGED <<tab, onServer, list, filter, dialog, draft, typed, save, saving, toDelete,
                   deleteCall, deleting, edits>>

FilteredTemplates == {t \in list : filter \in {"all", Type[t]}}

FilterTemplates(f) ==
    /\ tab = "templates" /\ ~dialog.open /\ filter' = f
    /\ UNCHANGED <<tab, onServer, list, listCalls, listLoading, dialog, draft, typed, save, saving,
                   toDelete, deleteCall, deleting, edits, steps>>

(* The items whose buttons can be pressed: the list is hidden while it is  *)
(* loading, and so are the buttons behind an open dialog.                  *)
Listed == IF listLoading \/ dialog.open \/ toDelete # None THEN {}
          ELSE IF tab = "policies" THEN list ELSE FilteredTemplates
PolicyActions == Listed \ Builtin
TemplateActions == Listed \ Builtin

-----------------------------------------------------------------------------
(* The dialogs open                                                        *)

Opens(mode, of, filled) ==
    /\ ~dialog.open /\ toDelete = None /\ steps < MaxSteps /\ steps' = steps + 1
    /\ dialog' = [open |-> TRUE, mode |-> mode, of |-> of]
    /\ draft' = [p \in AllParts |-> IF p \in filled THEN of ELSE draft[p]]
    /\ typed' = {}
    /\ UNCHANGED <<tab, onServer, list, filter, listCalls, listLoading, save, saving, toDelete,
                   deleteCall, deleting, edits>>

OpenCreatePolicy == tab = "policies" /\ Opens("create", "blank", Parts)
OpenEditPolicy(i) == tab = "policies" /\ i \in PolicyActions /\ Opens("edit", i, Parts)
OpenClonePolicy(i) == tab = "policies" /\ i \in Listed /\ Opens("create", i, Parts)
OpenCreateTemplate == tab = "templates" /\ Opens("create", "blank", TemplateParts)
OpenViewTemplate(i) == tab = "templates" /\ i \in Listed /\ Opens("view", i, TemplateParts)
OpenEditTemplate(i) == tab = "templates" /\ i \in TemplateActions /\ Opens("edit", i, TemplateParts)
OpenCloneTemplate(i) == tab = "templates" /\ i \in Listed /\ Opens("create", i, TemplateParts)

(* From the view of a template, its clone, of what the dialog shows.       *)
CloneViewed ==
    /\ tab = "templates" /\ dialog.open /\ dialog.mode = "view"
    /\ dialog' = [dialog EXCEPT !.mode = "create"]
    /\ UNCHANGED <<tab, onServer, list, filter, listCalls, listLoading, draft, typed, save, saving,
                   toDelete, deleteCall, deleting, edits, steps>>

(* No close of a dialog waits for its save.                                *)
CloseDialog ==
    /\ dialog.open /\ dialog' = [dialog EXCEPT !.open = FALSE]
    /\ UNCHANGED <<tab, onServer, list, filter, listCalls, listLoading, draft, typed, save, saving,
                   toDelete, deleteCall, deleting, edits, steps>>

-----------------------------------------------------------------------------
(* Editing: fields are disabled in a view, and during a save               *)

Edit(part) ==
    /\ dialog.open /\ dialog.mode # "view" /\ ~saving
    /\ part \in PartsOf(tab) /\ edits < MaxEdits /\ edits' = edits + 1
    /\ draft' = [draft EXCEPT ![part] = "typed"] /\ typed' = typed \cup {part}
    /\ UNCHANGED <<tab, onServer, list, filter, listCalls, listLoading, dialog, save, saving,
                   toDelete, deleteCall, deleting, steps>>

EditIdentity == Edit("identity")
EditRouting == Edit("routing")
EditAddresses == Edit("addresses")
EditRoa == Edit("roa")
EditFilters == Edit("filters")
EditIngress == Edit("ingress")
EditNat == Edit("nat")
EditImport == Edit("import")
EditExport == Edit("export")
EditTemplateId == dialog.mode = "create" /\ Edit("id")
EditTemplateText == Edit("text")

-----------------------------------------------------------------------------
(* Saving and deleting                                                     *)

(* The item a save is about: the one edited, or one that is not there.     *)
StartSave(i) ==
    /\ dialog.open /\ dialog.mode # "view" /\ ~saving /\ save.at = "none"
    /\ IF dialog.mode = "edit" THEN i = dialog.of ELSE i \in Items \ Builtin
    /\ save' = [at |-> "sent", item |-> i, mode |-> dialog.mode] /\ saving' = TRUE
    /\ UNCHANGED <<tab, onServer, list, filter, listCalls, listLoading, dialog, draft, typed,
                   toDelete, deleteCall, deleting, edits, steps>>
HandleSavePolicy(i) == tab = "policies" /\ StartSave(i)
HandleSaveTemplate(i) == tab = "templates" /\ StartSave(i)

(* The server refuses to create what exists and to change what does not.   *)
ServerSaves ==
    /\ save.at = "sent" /\ ((save.mode = "create") <=> (save.item \notin onServer))
    /\ onServer' = onServer \cup {save.item} /\ save' = [save EXCEPT !.at = "done"]
    /\ UNCHANGED <<tab, list, filter, listCalls, listLoading, dialog, draft, typed, saving,
                   toDelete, deleteCall, deleting, edits, steps>>

(* Success closes the dialog, whatever it shows now, and asks for the list.*)
Saved ==
    /\ save.at = "done" /\ save' = NoCall
    /\ dialog' = [dialog EXCEPT !.open = FALSE]
    /\ listCalls' = [listCalls EXCEPT !["save"] = {"sent"}] /\ listLoading' = TRUE
    /\ UNCHANGED <<tab, onServer, list, filter, draft, typed, saving, toDelete, deleteCall,
                   deleting, edits, steps>>

SaveFails ==
    /\ save.at # "none" /\ save' = NoCall /\ saving' = FALSE
    /\ UNCHANGED <<tab, onServer, list, filter, listCalls, listLoading, dialog, draft, typed,
                   toDelete, deleteCall, deleting, edits, steps>>

AskDeleteTemplate(i) ==
    /\ tab = "templates" /\ i \in TemplateActions /\ toDelete' = i
    /\ UNCHANGED <<tab, onServer, list, filter, listCalls, listLoading, dialog, draft, typed, save,
                   saving, deleteCall, deleting, edits, steps>>

(* The question can be dismissed, and asked of another template, during a  *)
(* deletion.                                                               *)
DismissDelete ==
    /\ toDelete # None /\ toDelete' = None
    /\ UNCHANGED <<tab, onServer, list, filter, listCalls, listLoading, dialog, draft, typed, save,
                   saving, deleteCall, deleting, edits, steps>>

ConfirmDeleteTemplate ==
    /\ toDelete # None /\ ~deleting /\ deleting' = TRUE
    /\ deleteCall' = [NoCall EXCEPT !.at = "sent", !.item = toDelete]
    /\ UNCHANGED <<tab, onServer, list, filter, listCalls, listLoading, dialog, draft, typed, save,
                   saving, toDelete, edits, steps>>

(* A policy is deleted without a flag: one request at a time is modelled.  *)
HandleDeletePolicy(i) ==
    /\ tab = "policies" /\ i \in PolicyActions
    /\ deleteCall.at = "none" /\ listCalls["delete"] = {"none"}
    /\ deleteCall' = [NoCall EXCEPT !.at = "sent", !.item = i]
    /\ UNCHANGED <<tab, onServer, list, filter, listCalls, listLoading, dialog, draft, typed, save,
                   saving, toDelete, deleting, edits, steps>>

ServerDeletes ==
    /\ deleteCall.at = "sent" /\ deleteCall.item \in onServer
    /\ onServer' = onServer \ {deleteCall.item} /\ deleteCall' = [deleteCall EXCEPT !.at = "done"]
    /\ UNCHANGED <<tab, list, filter, listCalls, listLoading, dialog, draft, typed, save, saving,
                   toDelete, deleting, edits, steps>>

Deleted ==
    /\ deleteCall.at # "none" /\ deleteCall' = NoCall
    /\ IF deleteCall.at = "done"
       THEN /\ toDelete' = IF tab = "templates" THEN None ELSE toDelete
            /\ listCalls' = [listCalls EXCEPT !["delete"] = {"sent"}] /\ listLoading' = TRUE
            /\ UNCHANGED deleting
       ELSE deleting' = FALSE /\ UNCHANGED <<toDelete, listCalls, listLoading>>
    /\ UNCHANGED <<tab, onServer, list, filter, dialog, draft, typed, save, saving, edits, steps>>

-----------------------------------------------------------------------------
Next ==
    \/ \E a \in Askers : ServerLists(a) \/ LoadPolicies(a) \/ LoadTemplates(a)
    \/ ReopenTab \/ (\E f \in Filters : FilterTemplates(f))
    \/ OpenCreatePolicy \/ OpenCreateTemplate \/ CloneViewed \/ CloseDialog
    \/ \E i \in Items :
           \/ OpenEditPolicy(i) \/ OpenClonePolicy(i)
           \/ OpenViewTemplate(i) \/ OpenEditTemplate(i) \/ OpenCloneTemplate(i)
           \/ HandleSavePolicy(i) \/ HandleSaveTemplate(i)
           \/ AskDeleteTemplate(i) \/ HandleDeletePolicy(i)
    \/ EditIdentity \/ EditRouting \/ EditAddresses \/ EditRoa \/ EditFilters \/ EditIngress
    \/ EditNat \/ EditImport \/ EditExport \/ EditTemplateId \/ EditTemplateText
    \/ ServerSaves \/ Saved \/ SaveFails
    \/ DismissDelete \/ ConfirmDeleteTemplate \/ ServerDeletes \/ Deleted

Spec == Init /\ [][Next]_vars

-----------------------------------------------------------------------------
(* Whatever was opened, edited, saved and closed before: an open dialog    *)
(* holds of the item it was opened for, or what was typed since, and never *)
(* a field left over from another one.                                     *)
NoLeftovers ==
    dialog.open => \A p \in PartsOf(tab) : draft[p] = IF p \in typed THEN "typed" ELSE dialog.of

(* What disables a form ends with its request: no error, early return or   *)
(* late answer leaves it disabled for good.                                *)
NoDeadForm ==
    /\ saving => save.at # "none" \/ listCalls["save"] # {"none"}
    /\ deleting => deleteCall.at # "none" \/ listCalls["delete"] # {"none"}
    /\ listLoading => \E a \in Askers : listCalls[a] # {"none"}
=============================================================================
