---------------------------- MODULE SettingsTabs ----------------------------
(***************************************************************************)
(* The forms of the settings page, a tab each (SettingsModal.tsx).  A tab  *)
(* loads its settings whenever it is opened, into fields the operator then *)
(* edits and saves; requests go on when the tab is left, and their answers *)
(* arrive in any order.  Tabs share nothing: a behaviour is about one tab, *)
(* which is opened and left.                                               *)
(***************************************************************************)
EXTENDS Naturals

CONSTANTS
    Fields,       \* the background tasks; other tabs use one of them as their form
    Form,         \* that one
    Values,       \* what the server may hold
    Calls,        \* the requests that may be under way at a time
    MaxEdits, MaxSteps

Tabs == {"network", "dns", "tasks", "database", "integrations", "security", "about"}
FieldsOf(t) == IF t = "tasks" THEN Fields ELSE {Form}
Draft == Values \cup {"blank", "typed"}
Ops == {"load", "save", "sync", "run", "vacuum", "test", "toggle", "reset", "password",
        "logoutAll", "flush"}

VARIABLES
    tab,        \* the tab this behaviour is about
    shown,      \* whether it is open
    known,      \* whether anything was loaded yet (dbInfo, integrations, serverTasks)
    saved,      \* what the server holds
    draft,      \* the fields
    calls,      \* the requests under way
    busy,       \* the flags that are up: the operation, or the task, each is named for
    edits, steps
vars == <<tab, shown, known, saved, draft, calls, busy, edits, steps>>

NoCall == [op |-> "none", field |-> Form, at |-> "none", got |-> [f \in Fields |-> "blank"],
           overlapped |-> FALSE, since |-> 0, afterRun |-> FALSE]
Contents == [Fields -> Draft]
Requests == [op : Ops \cup {"none"}, field : Fields, at : {"none", "sent", "done"}, got : Contents,
             overlapped : BOOLEAN, since : 0..MaxEdits, afterRun : BOOLEAN]

TypeOK ==
    /\ tab \in Tabs /\ shown \in BOOLEAN /\ known \in BOOLEAN
    /\ saved \in Contents /\ draft \in Contents
    /\ calls \in [Calls -> Requests]
    /\ busy \subseteq Ops \X Fields
    /\ edits \in 0..MaxEdits /\ steps \in 0..MaxSteps

Init ==
    /\ tab \in Tabs /\ shown = FALSE /\ known = FALSE
    /\ saved \in [Fields -> Values]
    /\ draft = [f \in Fields |-> "blank"]
    /\ calls = [c \in Calls |-> NoCall] /\ busy = {} /\ edits = 0 /\ steps = 0

UnderWay(op) == {c \in Calls : calls[c].op = op}
Busy(op) == \E f \in Fields : <<op, f>> \in busy

(* A handler raises its flag and sends its request.  A load is overlapped  *)
(* when another is under way.                                              *)
Send(op, f) ==
    \E c \in UnderWay("none") :
        /\ calls' = [d \in Calls |->
               IF d = c THEN [NoCall EXCEPT !.op = op, !.field = f, !.at = "sent", !.since = edits,
                                  !.got = IF op = "save" THEN draft ELSE NoCall.got,
                                  !.overlapped = op = "load" /\ UnderWay("load") # {}]
               ELSE [calls[d] EXCEPT !.overlapped = @ \/ (op = "load" /\ calls[d].op = "load")]]
        /\ busy' = busy \cup {<<op, f>>}

-----------------------------------------------------------------------------
(* Each tab's effect, when it is opened, and the refresh buttons           *)

Loads == {"network", "dns", "tasks", "database", "integrations", "about"}
OpenTab ==
    /\ ~shown /\ shown' = TRUE /\ steps < MaxSteps /\ steps' = steps + 1
    /\ IF tab \in Loads THEN Send("load", Form) ELSE UNCHANGED <<calls, busy>>
    /\ UNCHANGED <<tab, known, saved, draft, edits>>

LeaveTab ==
    /\ shown /\ shown' = FALSE
    /\ UNCHANGED <<tab, known, saved, draft, calls, busy, edits, steps>>

Click(op, f) ==
    /\ shown /\ steps < MaxSteps /\ steps' = steps + 1
    /\ Send(op, f)
    /\ UNCHANGED <<tab, shown, known, saved, draft, edits>>

RefreshTasks == tab = "tasks" /\ ~Busy("load") /\ Click("load", Form)
RefreshDatabase == tab = "database" /\ ~Busy("load") /\ ~Busy("vacuum") /\ Click("load", Form)
RefreshIntegrations ==
    tab = "integrations" /\ busy \cap ({"load", "toggle", "save", "test"} \X Fields) = {}
    /\ Click("load", Form)
RefreshVersion == tab = "about" /\ ~Busy("load") /\ Click("load", Form)

-----------------------------------------------------------------------------
(* Editing: what shows the fields, and what disables them                  *)

Edit(f) ==
    /\ shown /\ f \in FieldsOf(tab) /\ edits < MaxEdits /\ edits' = edits + 1
    /\ draft' = [draft EXCEPT ![f] = "typed"]
    /\ UNCHANGED <<tab, shown, known, saved, calls, busy, steps>>

(* A mutant: the form can be edited while it is loaded.                    *)
EditNetworkEarly == tab = "network" /\ ~Busy("save") /\ Edit(Form)

EditNetwork == tab = "network" /\ ~Busy("load") /\ ~Busy("save") /\ Edit(Form)
EditDns == tab = "dns" /\ busy = {} /\ Edit(Form)
EditTask(f) == tab = "tasks" /\ known /\ Edit(f)
EditRetention == tab = "database" /\ known /\ Edit(Form)
EditTelegram == tab = "integrations" /\ known /\ Edit(Form)
EditPassword == tab = "security" /\ ~Busy("password") /\ Edit(Form)

-----------------------------------------------------------------------------
(* Saving, and the other buttons                                           *)

SaveNetworkSettings ==
    tab = "network" /\ ~Busy("load") /\ ~Busy("save") /\ Click("save", Form)
SaveDNSSettings == tab = "dns" /\ busy = {} /\ Click("save", Form)
SyncDNS == tab = "dns" /\ busy = {} /\ draft[Form] # "blank" /\ Click("sync", Form)

(* One task may be saved while another is: the flag is that of the last.   *)
SaveTaskConfig(f) ==
    /\ tab = "tasks" /\ known /\ draft[f] = "typed" /\ <<"save", f>> \notin busy
    /\ shown /\ steps < MaxSteps /\ steps' = steps + 1
    /\ \E c \in UnderWay("none") :
           calls' = [calls EXCEPT ![c] = [NoCall EXCEPT !.op = "save", !.field = f, !.at = "sent", !.got = draft]]
    /\ busy' = (busy \ ({"save"} \X Fields)) \cup {<<"save", f>>}
    /\ UNCHANGED <<tab, shown, known, saved, draft, edits>>
RunTaskImmediately(f) ==
    tab = "tasks" /\ known /\ ~Busy("run") /\ <<"save", f>> \notin busy /\ Click("run", f)

SaveRetention == tab = "database" /\ known /\ ~Busy("save") /\ ~Busy("load")
                 /\ draft[Form] = "typed" /\ Click("save", Form)
ReclaimDatabase == tab = "database" /\ known /\ ~Busy("vacuum") /\ ~Busy("load") /\ Click("vacuum", Form)

SaveTelegram == tab = "integrations" /\ known /\ ~Busy("save") /\ ~Busy("test") /\ Click("save", Form)
TestTelegram == tab = "integrations" /\ known /\ ~Busy("save") /\ ~Busy("test")
                /\ draft[Form] # "blank" /\ Click("test", Form)
TogglePrometheus == tab = "integrations" /\ known /\ ~Busy("toggle") /\ Click("toggle", Form)
ResetToken == tab = "integrations" /\ known /\ ~Busy("reset") /\ Click("reset", Form)

ChangePassword == tab = "security" /\ ~Busy("password") /\ draft[Form] = "typed" /\ Click("password", Form)
LogoutAll == tab = "security" /\ ~Busy("logoutAll") /\ Click("logoutAll", Form)
FlushCacheAndSw == tab = "about" /\ ~Busy("flush") /\ Click("flush", Form)

-----------------------------------------------------------------------------
(* Answers                                                                 *)

ServerAnswers(c) ==
    /\ calls[c].at = "sent"
    /\ CASE calls[c].op = "save" ->
              LET f == calls[c].field
              IN  /\ saved' = [saved EXCEPT ![f] = calls[c].got[f]]
                  /\ calls' = [calls EXCEPT ![c].at = "done", ![c].got = saved']
         [] calls[c].op = "load" ->
              calls' = [calls EXCEPT ![c].at = "done", ![c].got = saved] /\ UNCHANGED saved
         [] OTHER -> calls' = [calls EXCEPT ![c].at = "done"] /\ UNCHANGED saved
    /\ UNCHANGED <<tab, shown, known, draft, busy, edits, steps>>

(* The flag an answer takes down is that of whatever task it names now; a  *)
(* load that follows a failed run ends that as well.                       *)
Lowered(c) == busy \ (({calls[c].op} \cup IF calls[c].afterRun THEN {"run"} ELSE {}) \X Fields)

LoadArrives(c) ==
    /\ calls[c].op = "load" /\ calls[c].at = "done"
    /\ draft' = [f \in Fields |-> IF f \in FieldsOf(tab) /\ tab # "about" THEN calls[c].got[f] ELSE draft[f]]
    /\ known' = TRUE /\ busy' = Lowered(c)
    /\ calls' = [calls EXCEPT ![c] = NoCall]
    /\ UNCHANGED <<tab, shown, saved, edits, steps>>

(* What was saved is shown, except in the tabs whose fields stay as typed. *)
SaveArrives(c) ==
    /\ calls[c].op = "save" /\ calls[c].at = "done"
    /\ draft' = IF tab \in {"network", "dns"} THEN draft
                ELSE [draft EXCEPT ![calls[c].field] = calls[c].got[calls[c].field]]
    /\ busy' = Lowered(c) /\ calls' = [calls EXCEPT ![c] = NoCall]
    /\ UNCHANGED <<tab, shown, known, saved, edits, steps>>

(* Changing the password empties the fields; logging out leaves the page.  *)
OtherArrives(c) ==
    /\ calls[c].op \notin {"load", "save", "none"} /\ calls[c].at = "done"
    /\ draft' = IF calls[c].op = "password" THEN [draft EXCEPT ![Form] = "blank"] ELSE draft
    /\ shown' = (shown /\ calls[c].op # "logoutAll")
    /\ busy' = Lowered(c) /\ calls' = [calls EXCEPT ![c] = NoCall]
    /\ UNCHANGED <<tab, known, saved, edits, steps>>

(* A failure says so and takes the flag down; a task whose run failed has  *)
(* the tasks loaded again first.                                           *)
Fails(c) ==
    /\ calls[c].op # "none"
    /\ IF calls[c].op = "run"
       THEN /\ calls' = [calls EXCEPT ![c] = [NoCall EXCEPT !.op = "load", !.at = "sent", !.since = edits,
                                !.overlapped = UnderWay("load") # {}, !.afterRun = TRUE]]
            /\ busy' = busy \cup {<<"load", Form>>}
       ELSE calls' = [calls EXCEPT ![c] = NoCall] /\ busy' = Lowered(c)
    /\ UNCHANGED <<tab, shown, known, saved, draft, edits, steps>>

-----------------------------------------------------------------------------
Next ==
    \/ OpenTab \/ LeaveTab
    \/ RefreshTasks \/ RefreshDatabase \/ RefreshIntegrations \/ RefreshVersion
    \/ EditNetwork \/ EditDns \/ EditRetention \/ EditTelegram \/ EditPassword
    \/ SaveNetworkSettings \/ SaveDNSSettings \/ SyncDNS
    \/ \E f \in Fields : EditTask(f) \/ SaveTaskConfig(f) \/ RunTaskImmediately(f)
    \/ SaveRetention \/ ReclaimDatabase
    \/ SaveTelegram \/ TestTelegram \/ TogglePrometheus \/ ResetToken
    \/ ChangePassword \/ LogoutAll \/ FlushCacheAndSw
    \/ \E c \in Calls :
           ServerAnswers(c) \/ LoadArrives(c) \/ SaveArrives(c) \/ OtherArrives(c) \/ Fails(c)

Spec == Init /\ [][Next]_vars

-----------------------------------------------------------------------------
(* What disables a button ends with its request.                           *)
NoDeadButton ==
    \A b \in busy : \E c \in Calls :
        \/ calls[c].op = b[1] /\ (b[1] = "save" => calls[c].field = b[2])
        \/ b[1] = "run" /\ calls[c].afterRun

(* Of the network and DNS forms: what was typed after a load was sent is   *)
(* only overwritten by it if another load overlapped it, which takes the   *)
(* tab to be left and opened again before it was loaded.                   *)
KeepsTyping ==
    \A c \in Calls :
        /\ tab \in {"network", "dns"} /\ draft[Form] = "typed" /\ draft'[Form] # "typed"
        /\ calls[c].op = "load" /\ calls'[c] = NoCall /\ edits > calls[c].since
        => calls[c].overlapped
OverwrittenOnlyByOverlap == [][KeepsTyping]_vars
=============================================================================
