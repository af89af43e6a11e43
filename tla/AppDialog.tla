----------------------------- MODULE AppDialog -----------------------------
(***************************************************************************)
(* The dialog that creates or edits an app (AppsPage.tsx): some twenty     *)
(* fields set by hand each time it opens, the nodes an app goes to, edited *)
(* as a choice or as text, and two previews the server renders, whose      *)
(* answers come when they come.                                            *)
(***************************************************************************)
EXTENDS Naturals, FiniteSets

CONSTANTS
    Apps,
    Type,         \* the type of an app: docker, systemd or cron
    Selector,     \* the selector of an app
    MaxSteps      \* how often the dialog opens, a preview is asked for

None == "none"
Types == {"docker", "systemd", "cron"}
Parts == {"identity", "definition", "files", "generator", "transpile", "rendered"}
Previews == {"transpile", "rendered"}
Selectors == {"name", "tag", "all", "mixed"}

VARIABLES
    open, edit,     \* modalOpen, editingApp
    tab, kind,      \* modalTab, formType
    draft,          \* what the fields hold: of an app, "blank", "sample" or "typed"
    mode,           \* formTargetType
    selector, text, \* formSelector, formSelectorText
    bad,            \* formSelectorError
    calls, busy,    \* the requests under way; previewing, loadingInterpolate, savingApp
    touched,        \* history: the parts typed or rendered since it opened
    steps
vars == <<open, edit, tab, kind, draft, mode, selector, text, bad, calls, busy, touched, steps>>

Contents == Apps \cup {"blank", "sample", "typed", "rendered"}
TabsOf(t) == {"general", "definition", "preview"} \cup
             (IF t # "cron" THEN {"env", "files"} ELSE {}) \cup
             (IF t = "systemd" THEN {"transpile"} ELSE {})

TypeOK ==
    /\ open \in BOOLEAN /\ edit \in Apps \cup {None} /\ kind \in Types
    /\ tab \in UNION {TabsOf(t) : t \in Types}
    /\ draft \in [Parts -> Contents] /\ touched \subseteq Parts
    /\ mode \in {"manual", "all", "tag", "custom"}
    /\ selector \in Selectors /\ text \in Selectors \cup {"bad"} /\ bad \in BOOLEAN
    /\ calls \in [Previews \cup {"save"} -> {"none", "sent", "done"}]
    /\ busy \subseteq Previews \cup {"save"} /\ steps \in 0..MaxSteps

Init ==
    /\ open = FALSE /\ edit = None /\ tab = "general" /\ kind = "docker"
    /\ draft = [p \in Parts |-> "blank"] /\ mode = "manual"
    /\ selector = "name" /\ text = "name" /\ bad = FALSE
    /\ calls = [op \in Previews \cup {"save"} |-> "none"] /\ busy = {}
    /\ touched = {} /\ steps = 0

Step == steps < MaxSteps /\ steps' = steps + 1

-----------------------------------------------------------------------------
(* The nodes of an app                                                     *)

DetectTargetMode(s) ==
    CASE s = "all" -> "all" [] s = "name" -> "manual" [] s = "tag" -> "tag" [] OTHER -> "custom"

ApplyFormSelector(s) ==
    /\ selector' = s /\ text' = s /\ bad' = FALSE /\ mode' = DetectTargetMode(s)

HandleSelectorTextChange(t) ==
    /\ open /\ tab = "general" /\ mode = "custom" /\ text' = t
    /\ IF t = "bad" THEN bad' = TRUE /\ UNCHANGED <<selector, mode>>
       ELSE bad' = FALSE /\ selector' = t /\ mode' = DetectTargetMode(t)
    /\ UNCHANGED <<open, edit, tab, kind, draft, calls, busy, touched, steps>>

HandleTargetModeChange(m) ==
    /\ open /\ tab = "general" /\ mode # m
    /\ IF m = "custom" THEN mode' = m /\ UNCHANGED <<selector, text, bad>>
       ELSE ApplyFormSelector(CASE m = "manual" -> "name" [] m = "tag" -> "tag" [] OTHER -> "all")
    /\ UNCHANGED <<open, edit, tab, kind, draft, calls, busy, touched, steps>>

(* Choosing nodes or tags writes the selector anew.                        *)
ChooseTargets(m, s) ==
    /\ open /\ tab = "general" /\ mode = m /\ ApplyFormSelector(s)
    /\ UNCHANGED <<open, edit, tab, kind, draft, calls, busy, touched, steps>>
ChooseNodes == ChooseTargets("manual", "name")
ChooseTags == ChooseTargets("tag", "tag")

-----------------------------------------------------------------------------
(* Opening: every field but the rendered preview is set                    *)

Opens == /\ ~open /\ Step /\ open' = TRUE /\ tab' = "general"
         /\ touched' = {}
         /\ UNCHANGED <<calls, busy>>

(* The parts a new app starts with; (a mutant) but for its files.          *)
FormPartsForgotten == {"identity", "definition", "generator", "transpile"}
FormParts == {"identity", "definition", "files", "generator", "transpile"}
Filled(own, main) ==
    [p \in Parts |-> CASE p \notin FormParts -> draft[p]
                       [] p = "definition" -> main
                       [] p \in {"generator", "transpile"} -> "blank"
                       [] OTHER -> own]

OpenCreateAppModal ==
    /\ Opens /\ edit' = None /\ kind' = "docker" /\ draft' = Filled("blank", "sample")
    /\ selector' = "name" /\ text' = "name" /\ bad' = FALSE /\ mode' = "manual"

OpenEditAppModal(a) ==
    /\ Opens /\ edit' = a /\ kind' = Type[a] /\ draft' = Filled(a, a)
    /\ selector' = Selector[a] /\ text' = Selector[a] /\ bad' = FALSE
    /\ mode' = DetectTargetMode(Selector[a])

Close ==
    /\ open /\ open' = FALSE
    /\ UNCHANGED <<edit, tab, kind, draft, mode, selector, text, bad, calls, busy, touched, steps>>

ChangeTab(t) ==
    /\ open /\ t \in TabsOf(kind) /\ t # tab /\ tab' = t
    /\ UNCHANGED <<open, edit, kind, draft, mode, selector, text, bad, calls, busy, touched, steps>>

-----------------------------------------------------------------------------
(* Editing: no field is disabled during a save                             *)

Put(part, content) ==
    /\ draft' = [draft EXCEPT ![part] = content] /\ touched' = touched \cup {part}
    /\ UNCHANGED <<open, edit, tab, mode, selector, text, bad, calls, busy, steps>>
EditIn(t, part) == open /\ tab = t /\ Put(part, "typed") /\ UNCHANGED kind

(* A new app's definition starts over with its type; an edited app's does  *)
(* not, whatever is in it.                                                 *)
HandleTypeChange(t) ==
    /\ open /\ tab = "general" /\ kind # t /\ kind' = t
    /\ IF edit = None THEN Put("definition", "sample")
       ELSE UNCHANGED <<open, edit, tab, draft, mode, selector, text, bad, calls, busy, touched, steps>>

EditName == EditIn("general", "identity")
EditFlags == EditIn("general", "identity")
InsertVariable == tab \in {"definition", "env"} /\ EditIn(tab, IF tab = "env" THEN "files" ELSE "definition")
EditCron == kind = "cron" /\ EditIn("definition", "definition")
EditDefinition == kind # "cron" /\ EditIn("definition", "definition")
EditGenerator == kind # "cron" /\ EditIn("definition", "generator")
RunGenerator == kind # "cron" /\ draft["generator"] = "typed" /\ EditIn("definition", "definition")
EditEnv == EditIn("env", "files")
EditFiles == EditIn("files", "files")

-----------------------------------------------------------------------------
(* Previews and saving                                                     *)

Ask(op) ==
    /\ calls[op] = "none" /\ Step /\ calls' = [calls EXCEPT ![op] = "sent"] /\ busy' = busy \cup {op}
    /\ UNCHANGED <<open, edit, tab, kind, draft, mode, selector, text, bad, touched>>

HandleTranspilePreview == open /\ tab = "transpile" /\ "transpile" \notin busy /\ Ask("transpile")
HandleInterpolatePreview == open /\ tab = "preview" /\ Ask("rendered")

ServerAnswers(op) ==
    /\ calls[op] = "sent" /\ calls' = [calls EXCEPT ![op] = "done"]
    /\ UNCHANGED <<open, edit, tab, kind, draft, mode, selector, text, bad, busy, touched, steps>>

Ends(op) == calls' = [calls EXCEPT ![op] = "none"] /\ busy' = busy \ {op}

(* An error is shown in the place of the preview.                          *)
PreviewArrives(op) ==
    /\ op \in Previews /\ calls[op] # "none" /\ Ends(op)
    /\ draft' = [draft EXCEPT ![op] = "rendered"] /\ touched' = touched \cup {op}
    /\ UNCHANGED <<open, edit, tab, kind, mode, selector, text, bad, steps>>

(* What is saved is what the text says; it must parse.                     *)
HandleSaveApp ==
    /\ open /\ "save" \notin busy /\ text # "bad" /\ draft["identity"] # "blank" /\ Ask("save")

(* Success closes the dialog, whatever it is open for.                     *)
SaveArrives ==
    /\ calls["save"] = "done" /\ Ends("save") /\ open' = FALSE
    /\ UNCHANGED <<edit, tab, kind, draft, mode, selector, text, bad, touched, steps>>
SaveFails ==
    /\ calls["save"] # "none" /\ Ends("save")
    /\ UNCHANGED <<open, edit, tab, kind, draft, mode, selector, text, bad, touched, steps>>

-----------------------------------------------------------------------------
Next ==
    \/ OpenCreateAppModal \/ (\E a \in Apps : OpenEditAppModal(a)) \/ Close
    \/ (\E t \in TabsOf(kind) : ChangeTab(t)) \/ (\E t \in Types : HandleTypeChange(t))
    \/ (\E t \in Selectors \cup {"bad"} : HandleSelectorTextChange(t))
    \/ (\E m \in {"manual", "all", "tag", "custom"} : HandleTargetModeChange(m))
    \/ ChooseNodes \/ ChooseTags
    \/ EditName \/ EditFlags \/ InsertVariable \/ EditCron \/ EditDefinition \/ EditGenerator
    \/ RunGenerator \/ EditEnv \/ EditFiles
    \/ HandleTranspilePreview \/ HandleInterpolatePreview \/ HandleSaveApp
    \/ (\E op \in Previews \cup {"save"} : ServerAnswers(op) \/ PreviewArrives(op))
    \/ SaveArrives \/ SaveFails

Spec == Init /\ [][Next]_vars

-----------------------------------------------------------------------------
(* Where an app goes is what the text says, and what the choice shows that *)
(* the user sees instead of the text: they can part only while the text    *)
(* does not parse, and then an error is shown beside it and the text too.  *)
TargetsAgree ==
    open => /\ ~bad => selector = text
            /\ mode # "custom" => ~bad /\ mode = DetectTargetMode(text)

(* A form holds of the app it was opened for, or what was typed since, and *)
(* no conversion of another app but one whose answer comes late.           *)
NoLeftovers ==
    open => \A p \in (Parts \ {"rendered"}) \ touched :
        draft[p] = IF p \in {"generator", "transpile"} THEN "blank"
                   ELSE IF edit # None THEN edit
                   ELSE IF p = "definition" THEN "sample" ELSE "blank"

(* The tab that is shown is one the type of the app has.                   *)
TabExists == open => tab \in TabsOf(kind)

(* What disables a button ends with its request.                           *)
NoDeadButton == \A op \in busy : calls[op] # "none"

=============================================================================
