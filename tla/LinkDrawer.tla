----------------------------- MODULE LinkDrawer -----------------------------
(***************************************************************************)
(* The drawer of one link of the map (LinkDetailDrawer.tsx), its three     *)
(* notes, and the dialogs over it that reveal or replace a key             *)
(* (LinkKeyActionModal.tsx) and copy what a peer has to know.  A saved     *)
(* note makes its link the selected one, whatever is selected by then.     *)
(***************************************************************************)
EXTENDS Naturals, FiniteSets

CONSTANTS
    Links,
    Pair,         \* of a link, the nodes it joins: parallel links have the same
    External,     \* the links to an external peer, with a PSK
    MaxNotes,     \* how many notes are edited at a time
    KeyCalls,     \* the requests for a key that may be under way at a time
    Texts,        \* what the notes of a link can say
    MaxSteps      \* how often a link is selected, a note edited or changed elsewhere, a dialog opened

None == "none"
Parts == {"from", "to", "link"}
Keys == {"psk", "from", "to"}
Modes == [act : {"reveal", "reset"}, key : Keys]
NoMode == [act |-> None, key |-> None]
Ops == Parts \cup {"restart", "refresh", "delete", "peering"}
Gone == "gone"

VARIABLES
    target,         \* selectedLink, None when the drawer is closed
    server, list,   \* the notes of every link, or Gone: at the server, and in the page
    held,           \* those of the object of the selected link
    editing, typed, \* the notes being edited; for which link the draft of each was typed
    dialog, mode,   \* keyModalOpen, peeringAuthModalOpen; what the key dialog does
    form,           \* of the key dialog: a password or key is typed, the key is a custom one
    shown,          \* the secret and the peering info shown: of which link, and which
    calls, busy, loading,
    crossed,        \* history: the dialogs whose link or request is not that of their opening
    steps
vars == <<target, server, list, held, editing, typed, dialog, mode, form, shown, calls, busy, loading,
          crossed, steps>>

NoCall == [of |-> None, mode |-> NoMode]
Blank == [filled |-> FALSE, custom |-> FALSE]

TypeOK ==
    /\ target \in Links \cup {None} /\ server \in [Links -> Texts \cup {Gone}]
    /\ list \in [Links -> Texts \cup {Gone}] /\ held \in Texts \cup {None}
    /\ (held = None) <=> (target = None)
    /\ editing \subseteq Parts /\ typed \in [Parts -> Links \cup {None}]
    /\ dialog \in {None, "key", "peering"} /\ mode \in Modes \cup {NoMode}
    /\ form \in [filled : BOOLEAN, custom : BOOLEAN]
    /\ shown.secret.of \in Links \cup {None} /\ shown.peering \in Links \cup {None}
    /\ \A c \in Ops \cup KeyCalls : calls[c].of \in Links \cup {None}
    /\ busy \subseteq Ops \cup {"key"} /\ loading \in BOOLEAN
    /\ crossed \subseteq {"key", "peering"} /\ steps \in 0..MaxSteps

Init ==
    /\ server = [l \in Links |-> CHOOSE t \in Texts : TRUE] /\ list = server
    /\ target = (CHOOSE l \in Links : TRUE) /\ held = server[target]
    /\ editing = {} /\ typed = [p \in Parts |-> None] /\ dialog = None /\ mode = NoMode
    /\ form = Blank /\ shown = [secret |-> NoCall, peering |-> None]
    /\ calls = [c \in Ops \cup KeyCalls |-> NoCall] /\ busy = {} /\ loading = FALSE
    /\ crossed = {} /\ steps = 0

Step == steps < MaxSteps /\ steps' = steps + 1
UnderWay(c) == calls[c].of # None
KeyUnderWay == \E c \in KeyCalls : UnderWay(c)
Drawer == target # None /\ dialog = None
(* The bound: of the notes and the commands one request is under way at a  *)
(* time; nothing in the code makes one wait for another.                   *)
Alone == \A op \in Parts \cup {"restart", "refresh", "delete"} : ~UnderWay(op)

-----------------------------------------------------------------------------
(* The link of the drawer                                                  *)

(* The drafts start over when the drawer gets another link or its link     *)
(* other notes, as far as the effect tells: by the names of the nodes and  *)
(* the notes.                                                              *)
SameForEffect(l, notes) == target # None /\ Pair[l] = Pair[target] /\ notes = held
Drafts(l, notes, ends) ==
    IF l = None THEN UNCHANGED <<editing, typed>>
    ELSE IF SameForEffect(l, notes)
    THEN /\ editing' = editing \ ends
         /\ typed' = [p \in Parts |-> IF p \in ends THEN None ELSE typed[p]]
    ELSE editing' = {} /\ typed' = [p \in Parts |-> None]

(* The key dialog is part of the open drawer: it forgets what it shows     *)
(* with it, and starts over when it is open and gets links of other nodes. *)
(* What waits for a key of the last link is answered in it.                *)
KeyDialog(l) ==
    IF l = None
    THEN /\ form' = Blank /\ busy' = busy \ {"key"}
         /\ calls' = [c \in Ops \cup KeyCalls |-> IF c \in KeyCalls THEN NoCall ELSE calls[c]]
         /\ shown' = [shown EXCEPT !.secret = NoCall]
    ELSE /\ UNCHANGED calls
         /\ IF dialog = "key" /\ (target = None \/ Pair[l] # Pair[target])
            THEN /\ form' = Blank /\ busy' = busy \ {"key"}
                 /\ shown' = [shown EXCEPT !.secret = NoCall]
            ELSE UNCHANGED <<form, shown, busy>>

Crossed(l) ==
    IF l = target THEN crossed
    ELSE crossed \cup (IF dialog = "peering" THEN {"peering"} ELSE {})
                 \cup (IF KeyUnderWay /\ l # None THEN {"key"} ELSE {})

SetSelectedLink(l, notes, ends) ==
    /\ target' = l /\ held' = (IF l = None THEN None ELSE notes)
    /\ Drafts(l, notes, ends) /\ KeyDialog(l) /\ crossed' = Crossed(l)

HandleSelectLink(l) ==
    /\ target = None /\ list[l] # Gone /\ Step /\ SetSelectedLink(l, list[l], {})
    /\ UNCHANGED <<server, list, dialog, mode, loading>>
CloseDrawer ==
    /\ Drawer /\ SetSelectedLink(None, None, {})
    /\ UNCHANGED <<server, list, dialog, mode, loading, steps>>

(* Something else changes the notes of a link, or the topology is loaded.  *)
ChangedElsewhere(l, notes) ==
    /\ server[l] # Gone /\ notes # server[l] /\ Step
    /\ server' = [server EXCEPT ![l] = notes] /\ loading' = TRUE
    /\ UNCHANGED <<target, list, held, editing, typed, dialog, mode, form, shown, calls, busy, crossed>>

LoadArrives ==
    /\ loading /\ loading' = FALSE /\ list' = server
    /\ LET gone == target # None /\ server[target] = Gone
           l == IF gone THEN None ELSE target
       IN  /\ target' = l /\ held' = (IF l = None THEN None ELSE server[target])
           /\ Drafts(l, held', {}) /\ crossed' = Crossed(l)
           /\ form' = (IF gone THEN Blank ELSE form)
           /\ shown' = (IF gone THEN [shown EXCEPT !.secret = NoCall] ELSE shown)
           /\ calls' = [c \in Ops \cup KeyCalls |->
                            IF \/ c = "refresh"
                               \/ gone /\ c \in KeyCalls
                               \/ c = "restart" /\ calls[c].mode.act = "load"
                            THEN NoCall ELSE calls[c]]
           /\ busy' = {op \in busy : IF op = "key" THEN ~gone ELSE calls'[op].of # None}
    /\ UNCHANGED <<server, dialog, mode, steps>>

-----------------------------------------------------------------------------
(* The notes                                                               *)

EditNote(p) ==
    /\ Drawer /\ Step /\ p \notin editing /\ Cardinality(editing) < MaxNotes
    /\ editing' = editing \cup {p} /\ typed' = [typed EXCEPT ![p] = None]
    /\ UNCHANGED <<target, server, list, held, dialog, mode, form, shown, calls, busy, loading, crossed>>
TypeNote(p) ==
    /\ Drawer /\ p \in editing \ busy /\ typed' = [typed EXCEPT ![p] = target]
    /\ UNCHANGED <<target, server, list, held, editing, dialog, mode, form, shown, calls, busy, loading,
                   crossed, steps>>
EditLinkNote == EditNote("link") \/ TypeNote("link")
EditFromNote == EditNote("from") \/ TypeNote("from")
EditToNote == EditNote("to") \/ TypeNote("to")

CancelNote(p) ==
    /\ Drawer /\ p \in editing \ busy /\ editing' = editing \ {p}
    /\ typed' = [typed EXCEPT ![p] = None]
    /\ UNCHANGED <<target, server, list, held, dialog, mode, form, shown, calls, busy, loading,
                   crossed, steps>>

SaveNote(p) ==
    /\ Drawer /\ p \in editing \ busy /\ Alone
    /\ calls' = [calls EXCEPT ![p].of = target] /\ busy' = busy \cup {p}
    /\ UNCHANGED <<target, server, list, held, editing, typed, dialog, mode, form, shown, loading, crossed,
                   steps>>
HandleSaveFromNote == SaveNote("from")
HandleSaveToNote == SaveNote("to")
HandleSaveLinkNote == SaveNote("link")

NoteSaved(p, notes) ==
    LET l == calls[p].of IN
    /\ UnderWay(p) /\ server[l] # Gone
    /\ server' = [server EXCEPT ![l] = notes] /\ loading' = TRUE
    /\ target' = l /\ held' = notes /\ Drafts(l, notes, {p}) /\ crossed' = Crossed(l)
    /\ calls' = [calls EXCEPT ![p] = NoCall]
    /\ LET over == dialog = "key" /\ (target = None \/ Pair[l] # Pair[target])
       IN  /\ form' = (IF over THEN Blank ELSE form)
           /\ shown' = (IF over THEN [shown EXCEPT !.secret = NoCall] ELSE shown)
           /\ busy' = busy \ ({p} \cup (IF over THEN {"key"} ELSE {}))
    /\ UNCHANGED <<list, dialog, mode, steps>>

-----------------------------------------------------------------------------
(* The buttons of the drawer                                               *)

Press(op) ==
    /\ Drawer /\ op \notin busy /\ "delete" \notin busy /\ Alone
    /\ calls' = [calls EXCEPT ![op].of = target] /\ busy' = busy \cup {op}

HandleRestartEnd ==
    /\ Press("restart")
    /\ UNCHANGED <<target, server, list, held, editing, typed, dialog, mode, form, shown, loading, crossed,
                   steps>>
(* The second end of a link has the same button, if its node is managed.   *)
RestartTo == target \notin External /\ HandleRestartEnd
RestartFrom == HandleRestartEnd

(* The button is held until the topology is loaded as well.                *)
Restarted ==
    /\ UnderWay("restart") /\ calls["restart"].mode = NoMode /\ loading' = TRUE
    /\ calls' = [calls EXCEPT !["restart"].mode = [act |-> "load", key |-> None]]
    /\ UNCHANGED <<target, server, list, held, editing, typed, dialog, mode, form, shown, busy, crossed, steps>>

HandleRefreshLink ==
    /\ Press("refresh") /\ loading' = TRUE
    /\ UNCHANGED <<target, server, list, held, editing, typed, dialog, mode, form, shown, crossed,
                   steps>>

HandleDelete ==
    /\ Press("delete")
    /\ UNCHANGED <<target, server, list, held, editing, typed, dialog, mode, form, shown, loading, crossed,
                   steps>>

(* What is selected by then is closed.                                     *)
Deleted ==
    /\ UnderWay("delete") /\ server' = [server EXCEPT ![calls["delete"].of] = Gone] /\ loading' = TRUE
    /\ target' = None /\ held' = None /\ crossed' = Crossed(None)
    /\ form' = Blank /\ shown' = [shown EXCEPT !.secret = NoCall]
    /\ calls' = [c \in Ops \cup KeyCalls |-> IF c \in KeyCalls \cup {"delete"} THEN NoCall ELSE calls[c]]
    /\ busy' = busy \ {"key", "delete"}
    /\ UNCHANGED <<list, editing, typed, dialog, mode, steps>>

Fails(op) ==
    /\ op \in Parts \cup {"restart", "delete", "peering"} /\ UnderWay(op) /\ calls[op].mode = NoMode
    /\ calls' = [calls EXCEPT ![op] = NoCall] /\ busy' = busy \ {op}
    /\ UNCHANGED <<target, server, list, held, editing, typed, dialog, mode, form, shown, loading, crossed,
                   steps>>

-----------------------------------------------------------------------------
(* The keys                                                                *)

(* Opening starts over.  OpensAsLeft is a mutant.                          *)
OpensAsLeft == UNCHANGED <<form, shown>> /\ busy' = busy \ {"key"}
OpensBlank ==
    form' = Blank /\ shown' = [shown EXCEPT !.secret = NoCall] /\ busy' = busy \ {"key"}

HandleOpenKeyModal(m) ==
    /\ Drawer /\ Step /\ dialog' = "key" /\ mode' = m /\ OpensBlank
    /\ crossed' = IF KeyUnderWay THEN crossed \cup {"key"} ELSE crossed \ {"key"}
    /\ UNCHANGED <<target, server, list, held, editing, typed, calls, loading>>
OpenPsk(act) == HandleOpenKeyModal([act |-> act, key |-> "psk"])
OpenFromKey(act) == HandleOpenKeyModal([act |-> act, key |-> "from"])
OpenToKey(act) == target \notin External /\ HandleOpenKeyModal([act |-> act, key |-> "to"])

KeyOpen == target # None /\ dialog = "key"
EditKeyForm(f) ==
    /\ KeyOpen /\ shown.secret = NoCall /\ "key" \notin busy /\ f # form
    /\ mode.act = "reveal" => ~f.custom
    /\ f.custom \/ mode.act = "reveal" \/ ~f.filled
    /\ form' = f
    /\ UNCHANGED <<target, server, list, held, editing, typed, dialog, mode, shown, calls, busy, loading,
                   crossed, steps>>

(* A password is needed to see a key, a key to set one's own.              *)
HandleSubmit(c) ==
    /\ KeyOpen /\ shown.secret = NoCall /\ "key" \notin busy /\ ~UnderWay(c)
    /\ mode.act = "reveal" \/ form.custom => form.filled
    /\ calls' = [calls EXCEPT ![c] = [of |-> target, mode |-> mode]] /\ busy' = busy \cup {"key"}
    /\ UNCHANGED <<target, server, list, held, editing, typed, dialog, mode, form, shown, loading, crossed,
                   steps>>

KeyArrives(c) ==
    /\ UnderWay(c) /\ calls' = [calls EXCEPT ![c] = NoCall] /\ busy' = busy \ {"key"}
    /\ shown' = [shown EXCEPT !.secret = calls[c]]
    /\ loading' = (loading \/ calls[c].mode.act = "reset")
    /\ UNCHANGED <<target, server, list, held, editing, typed, dialog, mode, form, crossed, steps>>
KeyFails(c) ==
    /\ UnderWay(c) /\ calls' = [calls EXCEPT ![c] = NoCall] /\ busy' = busy \ {"key"}
    /\ UNCHANGED <<target, server, list, held, editing, typed, dialog, mode, form, shown, loading, crossed,
                   steps>>

(* Escape closes the dialogs, whatever is under way.                       *)
CloseDialog ==
    /\ target # None /\ dialog # None /\ dialog' = None
    /\ UNCHANGED <<target, server, list, held, editing, typed, mode, form, shown, calls, busy, loading,
                   crossed, steps>>

-----------------------------------------------------------------------------
(* What a peer has to know                                                 *)

HandleCopyPeeringInfo ==
    /\ Drawer /\ target \in External /\ "delete" \notin busy /\ Step
    /\ dialog' = "peering" /\ shown' = [shown EXCEPT !.peering = None] /\ busy' = busy \ {"peering"}
    /\ crossed' = IF UnderWay("peering") THEN crossed \cup {"peering"} ELSE crossed \ {"peering"}
    /\ UNCHANGED <<target, server, list, held, editing, typed, mode, form, calls, loading>>

HandleVerifyAndCopyPeeringInfo ==
    /\ dialog = "peering" /\ target # None /\ shown.peering = None
    /\ "peering" \notin busy /\ ~UnderWay("peering")
    /\ calls' = [calls EXCEPT !["peering"].of = target] /\ busy' = busy \cup {"peering"}
    /\ UNCHANGED <<target, server, list, held, editing, typed, dialog, mode, form, shown, loading, crossed,
                   steps>>

GetPeeringInfoData ==
    /\ UnderWay("peering") /\ calls' = [calls EXCEPT !["peering"] = NoCall]
    /\ busy' = busy \ {"peering"} /\ shown' = [shown EXCEPT !.peering = calls["peering"].of]
    /\ UNCHANGED <<target, server, list, held, editing, typed, dialog, mode, form, loading, crossed, steps>>

-----------------------------------------------------------------------------
Next ==
    \/ (\E l \in Links : HandleSelectLink(l)) \/ CloseDrawer
    \/ (\E l \in Links, t \in Texts : ChangedElsewhere(l, t)) \/ LoadArrives
    \/ EditLinkNote \/ EditFromNote \/ EditToNote \/ (\E p \in Parts : CancelNote(p))
    \/ HandleSaveFromNote \/ HandleSaveToNote \/ HandleSaveLinkNote
    \/ (\E p \in Parts, t \in Texts : NoteSaved(p, t))
    \/ RestartFrom \/ RestartTo \/ Restarted \/ HandleRefreshLink \/ HandleDelete \/ Deleted
    \/ (\E op \in Ops : Fails(op))
    \/ (\E act \in {"reveal", "reset"} : OpenPsk(act) \/ OpenFromKey(act) \/ OpenToKey(act))
    \/ (\E f \in [filled : BOOLEAN, custom : BOOLEAN] : EditKeyForm(f))
    \/ (\E c \in KeyCalls : HandleSubmit(c) \/ KeyArrives(c) \/ KeyFails(c)) \/ CloseDialog
    \/ HandleCopyPeeringInfo \/ HandleVerifyAndCopyPeeringInfo \/ GetPeeringInfoData

Spec == Init /\ [][Next]_vars

-----------------------------------------------------------------------------
(* The draft of a note was typed for the link of the drawer, or for one    *)
(* parallel to it with the same notes: the drawer may close, open for      *)
(* another link, or be given one by the answer to a note saved before.     *)
NoteOfLink ==
    target # None => \A p \in editing : typed[p] # None => Pair[typed[p]] = Pair[target]

(* A key is shown under the link and the title it was asked under, unless  *)
(* another request was under way when the dialog opened or its link went.  *)
SecretOfTitle ==
    KeyOpen /\ "key" \notin crossed /\ shown.secret # NoCall
        => Pair[shown.secret.of] = Pair[target] /\ shown.secret.mode = mode

(* What is copied for the peer is of the link of the drawer, unless        *)
(* another request was under way at the opening, or the link was replaced. *)
PeeringOfLink ==
    dialog = "peering" /\ target # None /\ "peering" \notin crossed /\ shown.peering # None
        => shown.peering = target

(* What disables a button ends with its request.                           *)
NoDeadButton ==
    /\ \A op \in busy \ {"key"} : UnderWay(op)
    /\ "key" \in busy => KeyUnderWay
=============================================================================
