---------------------------- MODULE ApplyDialog ----------------------------
(***************************************************************************)
(* The dialog that applies a change of the configuration written as text   *)
(* (ApplyConfigModal.tsx): the text is validated 400 ms after it was last  *)
(* changed, can be previewed, applied and kept as a snippet.  An effect    *)
(* fills it when the dialog opens, and again whenever the topology is      *)
(* loaded while it is open.                                                *)
(***************************************************************************)
EXTENDS Naturals, FiniteSets

CONSTANTS
    Texts,        \* what may be typed or generated
    Preset,       \* the preset a blank dialog starts with
    Valid,        \* the texts that satisfy the schema
    Names,        \* of the snippets
    Calls,        \* the requests that may be under way at a time
    MaxSteps

None == "none"
Empty == "empty"
Contents == Texts \cup {Preset, Empty}

VARIABLES
    open, initial,  \* applyOpen, applyInitialContent: a text, or none
    content,        \* the editor
    timer,          \* the validation waits for the 400 ms to pass
    server,         \* the snippets kept there
    shown,          \* what is shown: the verdict and the text it is of, the preview, the snippets
    calls, busy,    \* the requests under way; the flags that are up
    chosen,         \* history: the text the operator last put there since a snippet filled it
    raced,          \* history: a validation was sent while another was under way
    steps
vars == <<open, initial, content, timer, server, shown, calls, busy, chosen, raced, steps>>

Snippets == [Names -> Contents \cup {None}]
NoSnippets == [n \in Names |-> None]
NoCall == [op |-> None, text |-> None, at |-> None, name |-> None, after |-> None, got |-> NoSnippets]
Ops == {"validate", "preview", "previewSnippet", "apply", "applySnippet", "save", "delete", "list", "sync"}

TypeOK ==
    /\ open \in BOOLEAN /\ initial \in Contents \cup {None} /\ content \in Contents
    /\ timer \in BOOLEAN /\ server \in Snippets /\ raced \in BOOLEAN
    /\ shown \in [verdict : Contents \cup {None}, valid : BOOLEAN, preview : Contents \cup {None},
                  list : Snippets, tab : {"editor", "preview", "snippets"}]
    /\ \A c \in Calls : calls[c].op \in Ops \cup {None} /\ calls[c].at \in {None, "sent", "done"}
    /\ busy \subseteq Ops /\ chosen \in Contents \cup {None} /\ steps \in 0..MaxSteps

Init ==
    /\ open = FALSE /\ initial = None /\ content = Empty /\ timer = FALSE
    /\ server \in [Names -> Valid \cup {None}]
    /\ shown = [verdict |-> None, valid |-> FALSE, preview |-> None, list |-> NoSnippets, tab |-> "editor"]
    /\ calls = [c \in Calls |-> NoCall] /\ busy = {} /\ chosen = None /\ raced = FALSE /\ steps = 0

Free == {c \in Calls : calls[c].op = None}
Sent(op) == {c \in Calls : calls[c].op = op}
Step == steps < MaxSteps /\ steps' = steps + 1

(* A handler sends its request and raises its flag; both kinds of preview  *)
(* share one.                                                              *)
Flag(op) == IF op = "previewSnippet" THEN "preview" ELSE op
Send(op, text, name) ==
    /\ \E c \in Free : calls' = [calls EXCEPT ![c] =
           [NoCall EXCEPT !.op = op, !.text = text, !.name = name, !.at = "sent"]]
    /\ busy' = busy \cup {Flag(op)}

(* Every change of the text starts the 400 ms anew.                        *)
SetContent(text) ==
    /\ content' = text
    /\ timer' = IF text = content THEN timer ELSE text # Empty

-----------------------------------------------------------------------------
(* The effect of the dialog: a snippet it was opened with replaces the     *)
(* text, whatever it is; without one only an empty text is filled.         *)
Fill ==
    /\ SetContent(IF initial' # None THEN initial' ELSE IF content = Empty THEN Preset ELSE content)
    /\ chosen' = IF initial' # None THEN None ELSE chosen
    /\ Send("list", None, None)

OpenApplyModal(text) ==
    /\ ~open /\ Step /\ open' = TRUE /\ initial' = text /\ Fill
    /\ UNCHANGED <<server, shown, raced>>

TopologyLoads ==
    /\ open /\ Step /\ UNCHANGED initial /\ Fill
    /\ UNCHANGED <<open, server, shown, raced>>

(* Nothing keeps the dialog open during a request.                         *)
Close ==
    /\ open /\ open' = FALSE
    /\ UNCHANGED <<initial, content, timer, server, shown, calls, busy, chosen, raced, steps>>

ChangeTab(t) ==
    /\ open /\ t # shown.tab /\ shown' = [shown EXCEPT !.tab = t]
    /\ UNCHANGED <<open, initial, content, timer, server, calls, busy, chosen, raced, steps>>

Choose(text) ==
    /\ open /\ shown.tab = "editor" /\ Step /\ SetContent(text) /\ chosen' = text
    /\ UNCHANGED <<open, initial, server, shown, calls, busy, raced>>
ChoosePreset == Choose(Preset)
HandleGenerateFromState(text) == text \in Valid /\ Choose(text)
HandleFormat == content \in Valid /\ Choose(content)
Type(text) == text # content /\ Choose(text)

-----------------------------------------------------------------------------
(* Validation                                                              *)

Validate ==
    /\ timer /\ timer' = FALSE /\ Send("validate", content, None)
    /\ raced' = (Sent("validate") # {})
    /\ UNCHANGED <<open, initial, content, server, shown, chosen, steps>>

(* Without a text there is no verdict.                                     *)
Verdict == IF content = Empty THEN None ELSE shown.verdict
SchemaValid == Verdict # None /\ shown.valid

-----------------------------------------------------------------------------
(* Preview, apply, and the snippets                                        *)

HandlePreview ==
    /\ open /\ content # Empty /\ SchemaValid /\ "preview" \notin busy
    /\ Send("preview", content, None)
    /\ UNCHANGED <<open, initial, content, timer, server, shown, chosen, raced, steps>>

(* The preview tab offers a preview as long as there never was one.        *)
GeneratePreview == shown.tab = "preview" /\ shown.preview = None /\ HandlePreview

HandleApply ==
    /\ open /\ content # Empty /\ SchemaValid /\ "apply" \notin busy
    /\ Send("apply", content, None)
    /\ UNCHANGED <<open, initial, content, timer, server, shown, chosen, raced, steps>>

HandleSaveSnippet(n) ==
    /\ open /\ shown.tab = "editor" /\ Step
    /\ content # Empty /\ SchemaValid /\ "save" \notin busy /\ Send("save", content, n)
    /\ UNCHANGED <<open, initial, content, timer, server, shown, chosen, raced>>

Listed == IF open /\ shown.tab = "snippets" /\ "list" \notin busy
          THEN {n \in Names : shown.list[n] # None} ELSE {}

HandleDeleteSnippet(n) ==
    /\ n \in Listed /\ Step /\ Send("delete", None, n)
    /\ UNCHANGED <<open, initial, content, timer, server, shown, chosen, raced>>

HandleLoadSnippetAndPreview(n) ==
    /\ n \in Listed /\ Step /\ SetContent(shown.list[n]) /\ chosen' = shown.list[n]
    /\ shown' = [shown EXCEPT !.tab = "preview"] /\ Send("previewSnippet", shown.list[n], n)
    /\ UNCHANGED <<open, initial, server, raced>>

(* The button of a snippet waits for the Apply button; not the other way.  *)
HandleApplySnippetDirect(n) ==
    /\ n \in Listed /\ busy \cap {"apply", "applySnippet"} = {} /\ Step
    /\ Send("applySnippet", shown.list[n], n)
    /\ UNCHANGED <<open, initial, content, timer, server, shown, chosen, raced>>

-----------------------------------------------------------------------------
(* The server, and its answers: a text it finds invalid is refused         *)

ServerAnswers(c) ==
    /\ calls[c].at = "sent"
    /\ calls[c].op \in {"preview", "previewSnippet", "apply", "applySnippet"} => calls[c].text \in Valid
    /\ calls' = [calls EXCEPT ![c].at = "done",
                                ![c].got = IF calls[c].op = "list" THEN server ELSE NoSnippets]
    /\ server' = CASE calls[c].op = "save" -> [server EXCEPT ![calls[c].name] = calls[c].text]
                   [] calls[c].op = "delete" -> [server EXCEPT ![calls[c].name] = None]
                   [] OTHER -> server
    /\ UNCHANGED <<open, initial, content, timer, shown, busy, chosen, raced, steps>>

Ended(c, ops) == calls[c].op \in ops /\ calls[c].at = "done"
Ends(c) ==
    /\ calls' = [calls EXCEPT ![c] = NoCall]
    /\ busy' = busy \ {Flag(calls[c].op), calls[c].after}

VerdictArrives(c) ==
    /\ Ended(c, {"validate"}) /\ Ends(c)
    /\ shown' = [shown EXCEPT !.verdict = calls[c].text, !.valid = calls[c].text \in Valid]
    /\ UNCHANGED <<open, initial, content, timer, server, chosen, raced, steps>>

PreviewArrives(c) ==
    /\ Ended(c, {"preview", "previewSnippet"}) /\ Ends(c)
    /\ shown' = [shown EXCEPT !.preview = calls[c].text,
                     !.tab = IF calls[c].op = "preview" THEN "preview" ELSE @]
    /\ UNCHANGED <<open, initial, content, timer, server, chosen, raced, steps>>

(* What was applied closes the dialog that is open now.  If autoSync is    *)
(* ticked the layout starts a sync that neither dialog has a flag for (in  *)
(* SyncDialog it is BackgroundSync), and loads the topology as it ends.    *)
Applied(c) ==
    /\ Ended(c, {"apply", "applySnippet"}) /\ open' = FALSE
    /\ \E autoSync \in BOOLEAN : calls' = [calls EXCEPT ![c] =
           IF autoSync THEN [NoCall EXCEPT !.op = "sync", !.at = "sent"] ELSE NoCall]
    /\ busy' = busy \ {calls[c].op}
    /\ UNCHANGED <<initial, content, timer, server, shown, chosen, raced, steps>>

SyncArrives(c) ==
    /\ Ended(c, {"sync"}) /\ Ends(c)
    /\ UNCHANGED <<open, initial, content, timer, server, shown, chosen, raced, steps>>

ListArrives(c) ==
    /\ Ended(c, {"list"}) /\ Ends(c) /\ shown' = [shown EXCEPT !.list = calls[c].got]
    /\ UNCHANGED <<open, initial, content, timer, server, chosen, raced, steps>>

(* A save and a deletion end with the snippets loaded again.               *)
SnippetsChanged(c) ==
    /\ Ended(c, {"save", "delete"})
    /\ calls' = [calls EXCEPT ![c] = [NoCall EXCEPT !.op = "list", !.after = calls[c].op, !.at = "sent"]]
    /\ busy' = busy \cup {"list"}
    /\ UNCHANGED <<open, initial, content, timer, server, shown, chosen, raced, steps>>

(* A validation that fails is a verdict against the text, and without the  *)
(* snippets the list is empty.                                             *)
Fails(c) ==
    /\ calls[c].op # None
    /\ shown' = CASE calls[c].op = "validate" -> [shown EXCEPT !.verdict = calls[c].text, !.valid = FALSE]
                  [] calls[c].op = "list" -> [shown EXCEPT !.list = NoSnippets]
                  [] OTHER -> shown
    /\ Ends(c)
    /\ UNCHANGED <<open, initial, content, timer, server, chosen, raced, steps>>

-----------------------------------------------------------------------------
Next ==
    \/ \E t \in Valid \cup {None} : OpenApplyModal(t)
    \/ TopologyLoads \/ Close \/ (\E t \in {"editor", "preview", "snippets"} : ChangeTab(t))
    \/ ChoosePreset \/ HandleFormat
    \/ \E t \in Contents : HandleGenerateFromState(t) \/ Type(t)
    \/ Validate \/ HandlePreview \/ GeneratePreview \/ HandleApply
    \/ \E n \in Names : \/ HandleSaveSnippet(n) \/ HandleDeleteSnippet(n)
                        \/ HandleLoadSnippetAndPreview(n) \/ HandleApplySnippetDirect(n)
    \/ \E c \in Calls : \/ ServerAnswers(c) \/ VerdictArrives(c) \/ PreviewArrives(c)
                        \/ Applied(c) \/ SyncArrives(c) \/ ListArrives(c) \/ SnippetsChanged(c) \/ Fails(c)

Spec == Init /\ [][Next]_vars

-----------------------------------------------------------------------------
(* What disables a button ends with its request, however that ends.        *)
NoDeadButton ==
    \A b \in busy : \E c \in Calls : Flag(calls[c].op) = b \/ calls[c].after = b

(* The verdict on the schema that enables Apply and Preview is of the text *)
(* in the editor once it has settled, unless two validations were under    *)
(* way at a time, whose answers may come in either order.                  *)
VerdictIsOfText ==
    content # Empty /\ ~timer /\ Sent("validate") = {} /\ ~raced => Verdict = content

(* A dialog that was opened without a snippet keeps what the operator put  *)
(* there, however often the topology is loaded and the dialog opened, as   *)
(* long as it is mounted.                                                  *)
TextKept == initial = None /\ chosen \notin {None, Empty} => content = chosen
=============================================================================
