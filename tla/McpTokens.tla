------------------------------ MODULE McpTokens ------------------------------
(***************************************************************************)
(* The credentials of the MCP server: the tab that shows, copies and       *)
(* rotates them and turns the server off (MCPSettingsTab.tsx), and the two *)
(* handlers behind it (server_mcp.go, engine/mcp.go).  A rotation happens  *)
(* under the lock of the manager; turning the server on or off reads the   *)
(* settings, lets the lock go, and writes all of them back.  What changed  *)
(* the settings in memory is answered with an error all the same if the    *)
(* file cannot be written, and any answer may be lost.                     *)
(***************************************************************************)
EXTENDS Naturals

CONSTANTS
    Calls,        \* the requests that may be under way at a time
    MaxSteps      \* how many requests are made

None == "none"
Kinds == {"read_only", "full_control", "oauth_secret"}
Types == Kinds \cup {"both"}
NoSettings == [enabled |-> FALSE, token |-> [k \in Kinds |-> 0]]

VARIABLES
    server,         \* the settings: a token is the number of its generation
    newest,         \* history: of each kind the last generation made
    calls,          \* the requests under way, and how far the server is with each
    shown,          \* data, NoSettings before the first answer
    selected,       \* selectedToken, the one the client guides are written with
    dialog, target, \* resetDialogOpen, tokenToReset
    busy,           \* loading, saving, resetting
    crossed,        \* history: what requests under way together have touched; an answer was lost
    steps
vars == <<server, newest, calls, shown, selected, dialog, target, busy, crossed, steps>>

Settings == [enabled : BOOLEAN, token : [Kinds -> 0..(MaxSteps + 1)]]
NoCall == [op |-> None, at |-> None, of |-> None, settings |-> NoSettings]
Requests == [op : {None, "load", "toggle", "reset"}, at : {None, "sent", "read", "done"},
             of : Types \cup {"on", "off", None}, settings : Settings]

TypeOK ==
    /\ server \in Settings /\ newest \in [Kinds -> 1..(MaxSteps + 1)] /\ shown \in Settings
    /\ calls \in [Calls -> Requests]
    /\ selected \in {"read_only", "full_control"} /\ dialog \in BOOLEAN /\ target \in Types
    /\ busy \subseteq {"load", "toggle", "reset"} /\ crossed \subseteq {"page", "server", "answer"} /\ steps \in 0..MaxSteps

UnderWay == {c \in Calls : calls[c].op # None}
Sent(op, of) == [NoCall EXCEPT !.op = op, !.at = "sent", !.of = of]

Init ==
    /\ server = [enabled |-> TRUE, token |-> [k \in Kinds |-> 1]] /\ newest = server.token
    /\ \E c \in Calls : calls = [d \in Calls |-> IF d = c THEN Sent("load", None) ELSE NoCall]
    /\ shown = NoSettings /\ selected = "full_control" /\ dialog = FALSE /\ target = "full_control"
    /\ busy = {"load"} /\ crossed = {} /\ steps = 0

Step == steps < MaxSteps /\ steps' = steps + 1
Send(op, of) ==
    /\ \E c \in Calls \ UnderWay : calls' = [calls EXCEPT ![c] = Sent(op, of)]
    /\ busy' = busy \cup {op}
    /\ LET ops == {calls[c].op : c \in UnderWay} \cup {op}
       IN  crossed' = crossed
                      \cup (IF UnderWay # {} THEN {"page"} ELSE {})
                      \cup (IF {"reset", "toggle"} \subseteq ops THEN {"server"} ELSE {})

-----------------------------------------------------------------------------
(* The tab                                                                 *)

LoadData ==
    /\ ~dialog /\ busy \cap {"load", "toggle"} = {} /\ Step /\ Send("load", None)
    /\ UNCHANGED <<server, newest, shown, selected, dialog, target>>

HandleToggleEnabled ==
    /\ ~dialog /\ busy \cap {"load", "toggle"} = {} /\ shown # NoSettings /\ Step
    /\ Send("toggle", IF shown.enabled THEN "off" ELSE "on")
    /\ UNCHANGED <<server, newest, shown, selected, dialog, target>>

HandleOpenResetDialog(type) ==
    /\ ~dialog /\ dialog' = TRUE /\ target' = type
    /\ UNCHANGED <<server, newest, calls, shown, selected, busy, crossed, steps>>
RotateFullControl == shown # NoSettings /\ HandleOpenResetDialog("full_control")
RotateReadOnly == shown # NoSettings /\ HandleOpenResetDialog("read_only")
RotateOAuthSecret == shown # NoSettings /\ HandleOpenResetDialog("oauth_secret")

CloseDialog ==
    /\ dialog /\ dialog' = FALSE
    /\ UNCHANGED <<server, newest, calls, shown, selected, target, busy, crossed, steps>>

HandleConfirmReset ==
    /\ dialog /\ "reset" \notin busy /\ Step /\ Send("reset", target)
    /\ UNCHANGED <<server, newest, shown, selected, dialog, target>>

SelectToken(k) ==
    /\ ~dialog /\ k # selected /\ selected' = k
    /\ UNCHANGED <<server, newest, calls, shown, dialog, target, busy, crossed, steps>>

-----------------------------------------------------------------------------
(* The server                                                              *)

(* The words ResetMCPToken looks for in the type it is sent, and those the *)
(* type contains: the letters of "ro" are in "full_control".               *)
Contained(type) ==
    CASE type = "oauth_secret" -> {"oauth", "secret"}
      [] type = "read_only"    -> {"read"}
      [] type = "full_control" -> {"ro", "full"}
      [] OTHER                 -> {}
Has(type, words) == Contained(type) \cap words # {}
Rotated(type) ==
    IF Has(type, {"oauth", "secret"}) THEN {"oauth_secret"}
    ELSE IF Has(type, {"ro", "read"}) THEN {"read_only"}
    ELSE IF Has(type, {"full", "admin", "rw"}) THEN {"full_control"}
    ELSE Kinds

ResetMCPToken(c) ==
    /\ calls[c].op = "reset" /\ calls[c].at = "sent"
    /\ LET new == [k \in Kinds |-> IF k \in Rotated(calls[c].of) THEN newest[k] + 1 ELSE newest[k]]
       IN  /\ newest' = new
           /\ server' = [server EXCEPT !.token = [k \in Kinds |->
                            IF k \in Rotated(calls[c].of) THEN new[k] ELSE server.token[k]]]
    /\ calls' = [calls EXCEPT ![c].at = "done", ![c].settings = server']
    /\ UNCHANGED <<shown, selected, dialog, target, busy, crossed, steps>>

GetMCPSettings(c) ==
    /\ calls[c].op = "load" /\ calls[c].at = "sent"
    /\ calls' = [calls EXCEPT ![c].at = "done", ![c].settings = server]
    /\ UNCHANGED <<server, newest, shown, selected, dialog, target, busy, crossed, steps>>

(* What is written back: the settings read.  AsShown is a mutant: those of *)
(* the page.                                                               *)
AsShown(c) == shown
Current(c) == server
HandleUpdateMCPSettings(c) ==
    /\ calls[c].op = "toggle" /\ calls[c].at = "sent"
    /\ calls' = [calls EXCEPT ![c].at = "read",
                              ![c].settings = [Current(c) EXCEPT !.enabled = (calls[c].of = "on")]]
    /\ UNCHANGED <<server, newest, shown, selected, dialog, target, busy, crossed, steps>>
UpdateMCPSettings(c) ==
    /\ calls[c].op = "toggle" /\ calls[c].at = "read" /\ server' = calls[c].settings
    /\ calls' = [calls EXCEPT ![c].at = "done"]
    /\ UNCHANGED <<newest, shown, selected, dialog, target, busy, crossed, steps>>

(* A request fails: the server does nothing (Refused), or what it did is   *)
(* answered with an error of Save, or the answer is lost (Fails).          *)
Drops(c) == calls' = [calls EXCEPT ![c] = NoCall] /\ busy' = busy \ {calls[c].op}
Refused(c) ==
    /\ calls[c].at = "sent" /\ Drops(c)
    /\ UNCHANGED <<server, newest, shown, selected, dialog, target, crossed, steps>>
Fails(c) ==
    /\ calls[c].at = "done" /\ Drops(c)
    /\ crossed' = crossed \cup (IF calls[c].op = "load" THEN {} ELSE {"answer"})
    /\ UNCHANGED <<server, newest, shown, selected, dialog, target, steps>>

-----------------------------------------------------------------------------
(* Answers: all of them are the settings.  KeepsData is a mutant.          *)

KeepsData(settings) == shown' = IF shown = NoSettings THEN settings ELSE shown
SetData(settings) == shown' = settings

Arrives(c) ==
    /\ calls[c].at = "done" /\ SetData(calls[c].settings)
    /\ Drops(c) /\ crossed' = crossed \ {"answer"}
    /\ UNCHANGED <<server, newest, selected, target, steps>>
LoadArrives(c) == calls[c].op = "load" /\ Arrives(c) /\ UNCHANGED dialog
ToggleArrives(c) == calls[c].op = "toggle" /\ Arrives(c) /\ UNCHANGED dialog
(* Whatever dialog is open by then is closed.                              *)
ResetArrives(c) == calls[c].op = "reset" /\ Arrives(c) /\ dialog' = FALSE

-----------------------------------------------------------------------------
Next ==
    \/ LoadData \/ HandleToggleEnabled \/ RotateFullControl \/ RotateReadOnly \/ RotateOAuthSecret
    \/ CloseDialog \/ HandleConfirmReset \/ (\E k \in {"read_only", "full_control"} : SelectToken(k))
    \/ (\E c \in Calls : ResetMCPToken(c) \/ GetMCPSettings(c) \/ HandleUpdateMCPSettings(c)
                            \/ UpdateMCPSettings(c) \/ Refused(c) \/ Fails(c)
                            \/ LoadArrives(c) \/ ToggleArrives(c) \/ ResetArrives(c))

Spec == Init /\ [][Next]_vars

-----------------------------------------------------------------------------
(* The token the guides write into a client's configuration.               *)
ActiveToken == shown.token[selected]

(* Once nothing is under way, what the tab shows and writes into a client  *)
(* is in force, unless requests crossed, or a change was answered with an  *)
(* error, or not at all, and nothing was answered since: the tab goes on   *)
(* showing the token rotated away then, until it is loaded again.          *)
ShownInForce ==
    UnderWay = {} /\ shown # NoSettings /\ crossed = {}
        => ActiveToken = server.token[selected] /\ shown.enabled = server.enabled

(* A token that was rotated away is not accepted again: of each kind the   *)
(* newest is in force, unless the server was turned on or off at the time  *)
(* of a rotation, which the handler may undo.  (In memory: after a rotation *)
(* that could not be saved a restart brings the old one back.)             *)
RotatedStaysAway == "server" \notin crossed => server.token = newest

(* The dialog asks about one credential by its name                        *)
(* (MCPSettingsTab.tsx:1796-1806), which is the one that is rotated: false *)
(* for the full-control token.                                             *)
RotatesNamed ==
    [][\A c \in Calls : calls[c].op = "reset" /\ calls[c].at = "sent" /\ calls'[c].at = "done"
           => server'.token[calls[c].of] # server.token[calls[c].of]]_vars

(* What disables a button ends with its request.                           *)
NoDeadButton == \A op \in busy : \E c \in UnderWay : calls[c].op = op
=============================================================================
