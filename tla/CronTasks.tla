------------------------------ MODULE CronTasks ------------------------------
(***************************************************************************)
(* The scheduled tasks: their tab in the browser (CronTasksTab.tsx), the   *)
(* configuration that holds them, and the agents that run them             *)
(* (engine/cron_tasks.go).  After every change the server reads the        *)
(* configuration again and sends every agent it can reach what it is to    *)
(* run, and asks no more about it: an agent not heard of for 45 seconds is *)
(* passed over although its connection may live on, and a write that fails *)
(* is not repeated.  An agent that registers is sent its list, too; its    *)
(* scheduler lives and dies with the connection.                           *)
(*                                                                         *)
(* Reading, changing and writing the configuration is one step here: the   *)
(* changes that get lost between them are those of ConfigStore.            *)
(***************************************************************************)
EXTENDS Naturals, FiniteSets

CONSTANTS
    Nodes,         \* the managed nodes
    Tasks,
    MaxCalls,      \* requests under way when the operator asks for the next
    MaxSteps       \* presses, connections and losses of them

NoTask == [enabled |-> FALSE, nodes |-> {}, text |-> "none"]
TaskRecords == [enabled : BOOLEAN, nodes : (SUBSET Nodes) \ {{}}, text : {"old", "typed"}] \cup {NoTask}
Configs == [Tasks -> TaskRecords]

VARIABLES
    server,        \* cfg.CronTasks
    held,          \* what each agent runs
    loaded,        \* the agents that are registered
    silent,        \* those of them that nothing sent reaches: silent, or the socket is broken
    missed,        \* history: those that hold an older list, the last not having reached them
    list,          \* tasks, those of the page
    open, editing, \* modalOpen, editingTask: which and whether it was on, or None
    draft,         \* the form: the text and the nodes
    typed,         \* nodeFilter: the nodes it leaves
    busy,          \* loading, saving
    calls,
    crossed,       \* the server sent two agents' lists at a time
    steps
vars == <<server, held, loaded, silent, missed, list, open, editing, draft, typed, busy, calls, crossed, steps>>
form == <<open, editing, draft, typed>>
agents == <<held, loaded, silent, missed>>

None == "none"
Calls == [kind : {"load", "save", "delete", "toggle", "register"},
          task : Tasks \cup {None}, sent : TaskRecords, node : SUBSET Nodes,
          at : {"sent", "applied", "read", "pushed", "reload"}, specs : Configs]

TypeOK ==
    /\ server \in Configs /\ held \in [Nodes -> SUBSET (Tasks \X {"old", "typed"})] /\ loaded \subseteq Nodes
    /\ silent \subseteq loaded /\ missed \subseteq loaded
    /\ list \in Configs /\ open \in BOOLEAN /\ editing \in [id : Tasks \cup {None}, enabled : BOOLEAN]
    /\ draft \in [text : {"", "old", "typed"}, nodes : SUBSET Nodes] /\ typed \subseteq Nodes
    /\ busy \subseteq {"load", "save"} /\ calls \subseteq Calls /\ crossed \in BOOLEAN /\ steps \in 0..MaxSteps

-----------------------------------------------------------------------------
(* What an agent is to run: the tasks that are on and name its node.       *)
(* AllSpecs is a mutant: those that are off as well.                       *)
AllSpecs(config, n) == {<<t, config[t].text>> : t \in {u \in Tasks : n \in config[u].nodes}}
Specs(config, n) == {<<t, config[t].text>> : t \in {u \in Tasks : config[u].enabled /\ n \in config[u].nodes}}

(* What the configuration says, of every task on its own.                  *)
Due(n) == {<<t, server[t].text>> : t \in {u \in Tasks : server[u].enabled /\ n \in server[u].nodes}}

Changing == {"save", "delete", "toggle"}
Call(kind, t, sent) ==
    [kind |-> kind, task |-> t, sent |-> sent, node |-> Nodes, at |-> "sent",
     specs |-> [u \in Tasks |-> NoTask]]
Fetch == Call("load", None, NoTask)
Step == steps < MaxSteps /\ steps' = steps + 1
Free == Cardinality(calls) < MaxCalls
Listed == {t \in Tasks : list[t] # NoTask}
FirstNode == {n \in Nodes : n = CHOOSE m \in Nodes : TRUE}    \* if there is one

Init ==
    /\ server \in {c \in Configs : \A t \in Tasks : c[t].text \in {"none", "old"}}
    /\ loaded \in SUBSET Nodes /\ held = [n \in Nodes |-> IF n \in loaded THEN Due(n) ELSE {}]
    /\ silent = {} /\ missed = {}
    /\ list = [t \in Tasks |-> NoTask] /\ open = FALSE /\ editing = [id |-> None, enabled |-> FALSE]
    /\ draft = [text |-> "", nodes |-> {}] /\ typed = Nodes
    /\ busy = {"load"} /\ calls = {Fetch} /\ crossed = FALSE /\ steps = 0

-----------------------------------------------------------------------------
(* The server                                                              *)

(* A task that is saved under a name that is not there any more is there   *)
(* again; a new one is on, and one that is not keeps what the page sent.   *)
SaveCronTask(c) ==
    \E t \in Tasks : /\ IF c.task = None THEN server[t] = NoTask ELSE t = c.task
                     /\ server' = [server EXCEPT ![t] =
                            [c.sent EXCEPT !.enabled = c.task = None \/ c.sent.enabled]]
DeleteCronTask(c) == server[c.task] # NoTask /\ server' = [server EXCEPT ![c.task] = NoTask]
ToggleCronTask(c) == server[c.task] # NoTask /\ server' = [server EXCEPT ![c.task].enabled = ~@]

(* Two lists under way to the agents at the same time may arrive in the    *)
(* other order.                                                            *)
Sending(c) == \E d \in calls \ {c} : d.at \in {"applied", "read"} /\ d.kind # "load"

Change(c) ==
    /\ c \in calls /\ c.at = "sent"
    /\ \/ c.kind = "save" /\ SaveCronTask(c)
       \/ c.kind = "delete" /\ DeleteCronTask(c)
       \/ c.kind = "toggle" /\ ToggleCronTask(c)
    /\ crossed' = (crossed \/ Sending(c))
Apply(c) ==
    /\ Change(c) /\ calls' = (calls \ {c}) \cup {[c EXCEPT !.at = "applied"]}
    /\ UNCHANGED <<agents, list, form, busy, steps>>
Ends(c) == calls' = calls \ {c} /\ busy' = (IF c.kind = "save" THEN busy \ {"save"} ELSE busy)
(* The configuration in memory is changed by then, and the file cannot be  *)
(* written: no agent is sent anything.                                     *)
NotSaved(c) ==
    /\ Change(c) /\ Ends(c) /\ missed' = loaded
    /\ UNCHANGED <<held, loaded, silent, list, form, steps>>
ReadsConfig(c) ==
    /\ c \in calls /\ c.at = "applied" /\ c.kind # "load"
    /\ calls' = (calls \ {c}) \cup {[c EXCEPT !.at = "read", !.specs = server]}
    /\ UNCHANGED <<server, agents, list, form, busy, crossed, steps>>
SyncCronTasksToAgents(c) ==
    /\ c \in calls /\ c.at = "read"
    /\ LET reached == c.node \cap (loaded \ silent)
       IN  /\ held' = [n \in Nodes |-> IF n \in reached THEN Specs(c.specs, n) ELSE held[n]]
           /\ missed' = (missed \cup (c.node \cap loaded)) \ reached
    /\ calls' = (IF c.kind = "register" THEN calls \ {c} ELSE (calls \ {c}) \cup {[c EXCEPT !.at = "pushed"]})
    /\ UNCHANGED <<server, loaded, silent, list, form, busy, crossed, steps>>

OnRegister(n) ==
    /\ Step /\ n \notin loaded /\ loaded' = loaded \cup {n} /\ Free
    /\ calls' = calls \cup {[Call("register", None, NoTask) EXCEPT !.node = {n}, !.at = "applied"]}
    /\ crossed' = (crossed \/ Sending(Fetch))
    /\ UNCHANGED <<server, held, silent, missed, list, form, busy>>
Disconnects(n) ==
    /\ Step /\ n \in loaded /\ loaded' = loaded \ {n} /\ held' = [held EXCEPT ![n] = {}]
    /\ silent' = silent \ {n} /\ missed' = missed \ {n}
    /\ UNCHANGED <<server, list, form, busy, calls, crossed>>
FallsSilent(n) ==
    /\ Step /\ n \in loaded \ silent /\ silent' = silent \cup {n}
    /\ UNCHANGED <<server, held, loaded, missed, list, form, busy, calls, crossed>>
(* A heartbeat: nothing is sent again.                                     *)
RecordHeartbeat(n) ==
    /\ n \in silent /\ silent' = silent \ {n}
    /\ UNCHANGED <<server, held, loaded, missed, list, form, busy, calls, crossed, steps>>

-----------------------------------------------------------------------------
(* The page                                                                *)

FetchTasks ==
    /\ Step /\ "load" \notin busy /\ Free /\ ~open
    /\ busy' = busy \cup {"load"} /\ calls' = calls \cup {Fetch}
    /\ UNCHANGED <<server, agents, list, form, crossed>>
(* The list is fetched: alone, or as the end of a change.  A fetch that    *)
(* fails leaves the list.                                                  *)
FetchArrives(c) ==
    /\ c \in calls /\ (c.kind = "load" \/ c.at = "reload")
    /\ list' \in {server, list} /\ calls' = calls \ {c}
    /\ busy' = busy \ (IF c.kind = "save" THEN {"load", "save"} ELSE {"load"})
    /\ UNCHANGED <<server, agents, form, crossed, steps>>

OpenCreateModal ==
    /\ Step /\ ~open /\ open' = TRUE /\ editing' = [id |-> None, enabled |-> FALSE]
    /\ draft' = [text |-> "", nodes |-> FirstNode] /\ typed' = Nodes
    /\ UNCHANGED <<server, agents, list, busy, calls, crossed>>
OpenEditModal(t) ==
    /\ Step /\ ~open /\ t \in Listed /\ open' = TRUE
    /\ editing' = [id |-> t, enabled |-> list[t].enabled]
    /\ draft' = [text |-> list[t].text, nodes |-> list[t].nodes] /\ typed' = Nodes
    /\ UNCHANGED <<server, agents, list, busy, calls, crossed>>
CloseModal ==
    /\ open /\ "save" \notin busy /\ open' = FALSE
    /\ UNCHANGED <<server, agents, list, editing, draft, typed, busy, calls, crossed, steps>>

EditForm ==
    /\ open /\ draft.text # "typed" /\ draft' = [draft EXCEPT !.text = "typed"]
    /\ UNCHANGED <<server, agents, list, open, editing, typed, busy, calls, crossed, steps>>
FilterNodes(left) ==
    /\ open /\ left # typed /\ typed' = left
    /\ UNCHANGED <<server, agents, list, open, editing, draft, busy, calls, crossed, steps>>
SelectNodes(nodes) ==
    /\ open /\ nodes # draft.nodes /\ draft' = [draft EXCEPT !.nodes = nodes]
    /\ UNCHANGED <<server, agents, list, open, editing, typed, busy, calls, crossed, steps>>
ToggleNodeSelection(n) ==
    n \in typed /\ SelectNodes(IF n \in draft.nodes THEN draft.nodes \ {n} ELSE draft.nodes \cup {n})
SelectFiltered == SelectNodes(draft.nodes \cup typed)
ClearFiltered == SelectNodes(draft.nodes \ typed)

(* The form says whether a task is on as it was when the form was opened.  *)
HandleSave ==
    /\ Step /\ open /\ "save" \notin busy /\ Free /\ draft.text # "" /\ draft.nodes # {}
    /\ busy' = busy \cup {"save"}
    /\ calls' = calls \cup {Call("save", editing.id,
                                 [enabled |-> editing.id = None \/ editing.enabled,
                                  nodes |-> draft.nodes, text |-> draft.text])}
    /\ UNCHANGED <<server, agents, list, form, crossed>>
HandleDelete(t) ==
    /\ Step /\ ~open /\ t \in Listed /\ Free /\ calls' = calls \cup {Call("delete", t, NoTask)}
    /\ UNCHANGED <<server, agents, list, form, busy, crossed>>
HandleToggle(t) ==
    /\ Step /\ ~open /\ t \in Listed /\ Free /\ calls' = calls \cup {Call("toggle", t, NoTask)}
    /\ UNCHANGED <<server, agents, list, form, busy, crossed>>
(* A change is answered: the form closes, and the list is fetched.         *)
Arrives(c) ==
    /\ c \in calls /\ c.at = "pushed"
    /\ open' = (IF c.kind = "save" THEN FALSE ELSE open)
    /\ busy' = busy \cup {"load"} /\ calls' = (calls \ {c}) \cup {[c EXCEPT !.at = "reload"]}
    /\ UNCHANGED <<server, agents, list, editing, draft, typed, crossed, steps>>
(* It is refused, or the answer is lost.                                   *)
Fails(c) ==
    /\ c \in calls /\ c.kind \in Changing /\ c.at \in {"sent", "pushed"} /\ Ends(c)
    /\ UNCHANGED <<server, agents, list, form, crossed, steps>>

-----------------------------------------------------------------------------
Next ==
    \/ (\E c \in calls : Apply(c)) \/ (\E c \in calls : ReadsConfig(c)) \/ (\E c \in calls : SyncCronTasksToAgents(c))
    \/ (\E n \in Nodes : OnRegister(n)) \/ (\E n \in Nodes : Disconnects(n)) \/ (\E n \in Nodes : FallsSilent(n))
    \/ (\E n \in Nodes : RecordHeartbeat(n))
    \/ FetchTasks \/ (\E c \in calls : FetchArrives(c))
    \/ OpenCreateModal \/ (\E t \in Tasks : OpenEditModal(t)) \/ CloseModal
    \/ EditForm \/ (\E left \in SUBSET Nodes : FilterNodes(left)) \/ (\E n \in Nodes : ToggleNodeSelection(n))
    \/ SelectFiltered \/ ClearFiltered
    \/ HandleSave \/ (\E t \in Tasks : HandleDelete(t)) \/ (\E t \in Tasks : HandleToggle(t))
    \/ (\E c \in calls : Arrives(c)) \/ (\E c \in calls : Fails(c)) \/ (\E c \in calls : NotSaved(c))

Spec == Init /\ [][Next]_vars

-----------------------------------------------------------------------------
(* A registered agent runs what the configuration says, through losses of  *)
(* the connection, silences and changes made meanwhile, once the server is *)
(* done sending, as long as no two lists were under way at a time, and     *)
(* unless the last list did not reach it, or the last change was not saved *)
(* and none was sent: it then runs an old one until the next change or the *)
(* end of its connection.                                                  *)
AgentsCurrent ==
    crossed \/ (\E c \in calls : c.at \in {"applied", "read"})
        \/ \A n \in loaded \ missed : held[n] = Due(n)

(* A button is held only while its request is under way.  The list is      *)
(* fetched by several, the first of which to be answered frees the button. *)
NoDeadButton ==
    /\ "load" \in busy => \E c \in calls : c.kind = "load" \/ c.at = "reload"
    /\ "save" \in busy => \E c \in calls : c.kind = "save"
=============================================================================
