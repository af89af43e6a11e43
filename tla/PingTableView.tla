---------------------------- MODULE PingTableView ----------------------------
(***************************************************************************)
(* The tab of the ping table in the browser (PingTableTab.tsx): one run of *)
(* the type chosen is shown, the newest or one out of the history.  While  *)
(* the run shown is running, a stream and a poll keep it up to date; runs  *)
(* once read are kept.  The server runs one table at a time and answers a  *)
(* request for another one with that (ping_table.go).                      *)
(***************************************************************************)
EXTENDS Naturals, FiniteSets

CONSTANTS
    Runs,          \* 1..n: the runs, in the order they are started
    MaxCalls,      \* requests under way when the operator asks for the next
    MaxSteps       \* how often the operator presses a button

Types == {"e2e", "link"}
NoTask == [id |-> 0, status |-> "none"]

VARIABLES
    server,        \* every run's type and status, and currentPingTable, 0 for nil
    list,          \* historyList
    held,          \* taskCacheRef: the status of each run it has, or "none"
    shown,         \* currentTask
    tab,           \* latencyType
    open,          \* the menu of the history, or the export of the table
    busy,          \* loading, actionLoading
    calls,         \* requests under way, and what was answered
    crossed,       \* requests of the operator overlapped, a run was not shown, or a switch failed
    steps
vars == <<server, list, held, shown, tab, open, busy, calls, crossed, steps>>

Statuses == {"none", "running", "completed", "cancelled"}
Servers == [runs : [Runs -> [type : Types, status : Statuses \cup {"deleted"}]], current : Runs \cup {0}]
NoAnswer == [runs |-> <<>>, current |-> 0]

TypeOK ==
    /\ server \in Servers /\ list \subseteq Runs /\ held \in [Runs -> Statuses] /\ tab \in Types
    /\ shown \in [id : Runs \cup {0}, status : Statuses] /\ open \in {"none", "history", "export"}
    /\ busy \subseteq {"load", "action"} /\ crossed \in BOOLEAN /\ steps \in 0..MaxSteps
    /\ \A c \in calls : /\ c.arg \in Runs \cup {0} /\ c.type \in Types
                        /\ c.got \in Servers \cup {NoAnswer}
                        /\ c.kind \in {"init", "initTask", "prefetch", "poll", "run", "cancel", "current",
                                       "type", "task", "history", "delete", "next"}

-----------------------------------------------------------------------------
Running(s) == s.current # 0 /\ s.runs[s.current].status = "running"
GetPingTableHistory(s) == {r \in Runs : s.runs[r].status \in {"running", "completed", "cancelled"}}
Task(s, r) == IF r = 0 THEN NoTask ELSE [id |-> r, status |-> s.runs[r].status]
TypeOf(r) == server.runs[r].type

(* The newest run of a type in a list.                                     *)
Newest(runs, t) ==
    LET found == {r \in runs : TypeOf(r) = t}
    IN  IF found = {} THEN 0 ELSE CHOOSE r \in found : \A q \in found : q <= r

(* The entries of the menu are of the type chosen.                         *)
FilteredHistory == {r \in list : TypeOf(r) = tab}
IsRunning == shown.status = "running"

Call(kind, arg) ==
    [kind |-> kind, arg |-> arg, type |-> "e2e", got |-> NoAnswer, list |-> {}, shown |-> 0]
OfType(kind, t) == [Call(kind, 0) EXCEPT !.type = t]
Cached(task) == [held EXCEPT ![task.id] = task.status]
Show(task) == shown' = task /\ held' = Cached(task)
Kept(r) == [id |-> r, status |-> held[r]]
History == Call("history", 0)

(* A request of the operator; Overlaps says that another was under way,    *)
(* or that the server has a run other than the one shown.                  *)
Overlaps == \/ \E c \in calls : c.kind \notin {"history", "prefetch"}
            \/ Running(server) /\ server.current # shown.id
Asks(c) == calls' = calls \cup {c} /\ crossed' = (crossed \/ Overlaps)
Free == Cardinality(calls) < MaxCalls
Step == steps < MaxSteps /\ steps' = steps + 1

Init ==
    /\ \E n \in Runs \cup {0}, types \in [Runs -> Types], last \in {"completed", "running"} : \E current \in {0, n} :
           /\ \A r \in Runs : r > n => types[r] = "e2e"
           /\ last = "running" => current = n /\ n # 0
           /\ server = [runs |-> [r \in Runs |-> [type |-> types[r],
                                                 status |-> IF r < n THEN "completed"
                                                            ELSE IF r = n THEN last ELSE "none"]],
                        current |-> current]
    /\ list = {} /\ held = [r \in Runs |-> "none"] /\ shown = NoTask /\ tab = "e2e" /\ open = "none"
    /\ busy = {"load"} /\ calls = {Call("init", 0)} /\ crossed = FALSE /\ steps = 0

-----------------------------------------------------------------------------
(* The server                                                              *)

RunPingTable(t) ==
    IF Running(server) THEN server' = server
    ELSE \E r \in Runs :
            /\ server.runs[r].status = "none" /\ \A q \in Runs : q < r => server.runs[q].status # "none"
            /\ server' = [server EXCEPT !.runs[r] = [type |-> t, status |-> "running"], !.current = r]
CancelPingTable ==
    server' = IF Running(server) THEN [server EXCEPT !.runs[server.current].status = "cancelled"] ELSE server
DeletePingTableTask(r) ==
    server' = [server EXCEPT !.runs[r].status = "deleted",
                             !.current = IF server.current = r THEN 0 ELSE server.current]

(* A request reaches the server, and the answer is on its way back.        *)
Serve(c) ==
    /\ c \in calls /\ c.got = NoAnswer
    /\ c.arg \in Runs /\ c.kind # "poll" => server.runs[c.arg].status # "deleted"
    /\ CASE c.kind = "run" -> RunPingTable(c.type)
         [] c.kind = "cancel" -> CancelPingTable
         [] c.kind = "delete" -> DeletePingTableTask(c.arg)
         [] OTHER -> server' = server
    /\ calls' = (calls \ {c}) \cup {[c EXCEPT !.got = server']}
    /\ UNCHANGED <<list, held, shown, tab, open, busy, crossed, steps>>

RunEnds ==
    /\ Running(server)
    /\ server' = [server EXCEPT !.runs[server.current].status = "completed"]
    /\ UNCHANGED <<list, held, shown, tab, open, busy, calls, crossed, steps>>

Arrived(kind, c) == c \in calls /\ c.kind = kind /\ c.got # NoAnswer
Done(c) == calls' = calls \ {c}
DoneThen(c, next) == calls' = (calls \ {c}) \cup next

-----------------------------------------------------------------------------
(* Each of the two answers may have failed: nothing is taken for it.       *)
Histories(answer) == {GetPingTableHistory(answer), {}}
Actives(answer) == {Task(answer, answer.current), NoTask}

(* The tab is opened: the run under way, else the newest of the first      *)
(* type, else what there is; and that of the other type is read ahead.     *)
Prefetch(history, t) ==
    LET other == Newest(history, CHOOSE o \in Types : o # t)
    IN  IF other = 0 \/ held'[other] # "none" THEN {} ELSE {Call("prefetch", other)}

InitArrives(c) ==
    /\ Arrived("init", c)
    /\ \E history \in Histories(c.got), active \in Actives(c.got) :
        LET latest == IF Newest(history, "e2e") # 0 THEN Newest(history, "e2e") ELSE Newest(history, "link")
        IN  /\ list' = history
            /\ \/ /\ active.id # 0 /\ (active.status = "running" \/ Newest(history, "e2e") = 0)
                  /\ tab' = TypeOf(active.id) /\ Show(active) /\ busy' = busy \ {"load"}
                  /\ DoneThen(c, Prefetch(history, tab'))
               \/ /\ ~(active.id # 0 /\ (active.status = "running" \/ Newest(history, "e2e") = 0))
                  /\ latest # 0 /\ tab' = TypeOf(latest) /\ DoneThen(c, {Call("initTask", latest)})
                  /\ UNCHANGED <<held, shown, busy>>
               \/ /\ active.id = 0 /\ latest = 0 /\ busy' = busy \ {"load"} /\ Done(c)
                  /\ UNCHANGED <<held, shown, tab>>
    /\ UNCHANGED <<server, open, crossed, steps>>
InitTaskArrives(c) ==
    /\ Arrived("initTask", c) /\ Show(Task(c.got, c.arg)) /\ busy' = busy \ {"load"}
    /\ DoneThen(c, Prefetch(list, TypeOf(c.arg)))
    /\ UNCHANGED <<server, list, tab, open, crossed, steps>>
PrefetchArrives(c) ==
    /\ Arrived("prefetch", c) /\ held' = Cached(Task(c.got, c.arg)) /\ Done(c)
    /\ UNCHANGED <<server, list, shown, tab, open, busy, crossed, steps>>

(* The stream says what the run of the server has come to; the poll asks   *)
(* for it, and shows the answer if it is of the run that was shown.        *)
StreamArrives ==
    /\ IsRunning /\ server.current # 0
    /\ held' = Cached(Task(server, server.current))
    /\ shown' = IF shown.id = server.current THEN Task(server, server.current) ELSE shown
    /\ UNCHANGED <<server, list, tab, open, busy, calls, crossed, steps>>
Poll ==
    /\ IsRunning /\ Free /\ calls' = calls \cup {Call("poll", shown.id)}
    /\ UNCHANGED <<server, list, held, shown, tab, open, busy, crossed, steps>>
PollArrives(c) ==
    /\ Arrived("poll", c) /\ Done(c)
    /\ IF c.got.current = c.arg THEN Show(Task(c.got, c.arg)) ELSE UNCHANGED <<held, shown>>
    /\ crossed' = (crossed \/ shown.id # c.arg)
    /\ UNCHANGED <<server, list, tab, open, busy, steps>>

-----------------------------------------------------------------------------
(* The buttons                                                             *)

HandleRun ==
    /\ Step /\ ~IsRunning /\ "action" \notin busy /\ Free /\ open = "none"
    /\ Asks(OfType("run", tab)) /\ busy' = busy \cup {"action"}
    /\ UNCHANGED <<server, list, held, shown, tab, open>>
RunArrives(c) ==
    /\ Arrived("run", c) /\ Show(Task(c.got, c.got.current)) /\ busy' = busy \ {"action"}
    /\ DoneThen(c, {History})
    /\ crossed' = (crossed \/ TypeOf(c.got.current) # c.type)
    /\ UNCHANGED <<server, list, tab, open, steps>>

HandleCancel ==
    /\ Step /\ IsRunning /\ "action" \notin busy /\ Free /\ open = "none"
    /\ Asks(Call("cancel", 0)) /\ busy' = busy \cup {"action"}
    /\ UNCHANGED <<server, list, held, shown, tab, open>>
CancelArrives(c) ==
    /\ Arrived("cancel", c) /\ DoneThen(c, {Call("current", 0)})
    /\ UNCHANGED <<server, list, held, shown, tab, open, busy, crossed, steps>>
CancelledArrives(c) ==
    /\ Arrived("current", c) /\ busy' = busy \ {"action"} /\ DoneThen(c, {History})
    /\ IF c.got.current # 0 THEN Show(Task(c.got, c.got.current)) ELSE UNCHANGED <<held, shown>>
    /\ crossed' = (crossed \/ shown.id # c.got.current)
    /\ UNCHANGED <<server, list, tab, open, steps>>

(* The other type: its newest run, at once when it is kept.                *)
HandleTypeChange(t) ==
    /\ Step /\ ~IsRunning /\ t # tab /\ tab' = t /\ open = "none"
    /\ IF Newest(list, t) # 0 /\ held[Newest(list, t)] # "none"
       THEN /\ shown' = Kept(Newest(list, t)) /\ crossed' = (crossed \/ Overlaps)
            /\ UNCHANGED <<busy, calls>>
       ELSE Free /\ Asks(OfType("type", t)) /\ busy' = busy \cup {"load"} /\ shown' = shown
    /\ UNCHANGED <<server, list, held, open>>
TypeArrives(c) ==
    /\ Arrived("type", c)
    /\ \E history \in Histories(c.got), active \in Actives(c.got) :
        LET latest == Newest(history, c.type)
            runs == active.status = "running" /\ TypeOf(active.id) = c.type
        IN  /\ list' = history
            /\ \/ runs /\ Show(active) /\ busy' = busy \ {"load"} /\ Done(c)
               \/ /\ ~runs /\ latest = 0
                  /\ shown' = NoTask /\ held' = held /\ busy' = busy \ {"load"} /\ Done(c)
               \/ /\ ~runs /\ latest # 0 /\ held[latest] # "none"
                  /\ shown' = Kept(latest) /\ held' = held /\ busy' = busy \ {"load"} /\ Done(c)
               \/ /\ ~runs /\ latest # 0 /\ held[latest] = "none" /\ DoneThen(c, {Call("task", latest)})
                  /\ UNCHANGED <<held, shown, busy>>
    /\ UNCHANGED <<server, tab, open, crossed, steps>>

(* The menu of the history is read anew when it opens.                     *)
OpenHistory ==
    /\ Step /\ open = "none" /\ Free /\ open' = "history" /\ calls' = calls \cup {History}
    /\ UNCHANGED <<server, list, held, shown, tab, busy, crossed>>
CloseHistory ==
    /\ open = "history" /\ open' = "none"
    /\ UNCHANGED <<server, list, held, shown, tab, busy, calls, crossed, steps>>
LoadHistoryArrives(c) ==
    /\ Arrived("history", c) /\ list' = GetPingTableHistory(c.got) /\ Done(c)
    /\ UNCHANGED <<server, held, shown, tab, open, busy, crossed, steps>>

HandleSelectHistoryItem(r) ==
    /\ Step /\ open = "history" /\ r \in FilteredHistory /\ open' = "none"
    /\ IF held[r] # "none"
       THEN shown' = Kept(r) /\ crossed' = (crossed \/ Overlaps) /\ UNCHANGED <<busy, calls>>
       ELSE Free /\ Asks(Call("task", r)) /\ busy' = busy \cup {"load"} /\ shown' = shown
    /\ UNCHANGED <<server, list, held, tab>>
TaskArrives(c) ==
    /\ Arrived("task", c) /\ Show(Task(c.got, c.arg)) /\ busy' = busy \ {"load"} /\ Done(c)
    /\ UNCHANGED <<server, list, tab, open, crossed, steps>>

(* A run is deleted: the list and the run shown are those of the moment    *)
(* the button was pressed, and the next of the type takes its place.       *)
HandleDeleteHistoryItem(r) ==
    /\ Step /\ open = "history" /\ r \in FilteredHistory /\ Free
    /\ Asks([Call("delete", r) EXCEPT !.list = list, !.shown = shown.id])
    /\ UNCHANGED <<server, list, held, shown, tab, open, busy>>
DeleteArrives(c) ==
    LET next == Newest(c.list \ {c.arg}, TypeOf(c.arg))
        dropped == [held EXCEPT ![c.arg] = "none"]
    IN  /\ Arrived("delete", c) /\ list' = c.list \ {c.arg} /\ held' = dropped
        /\ \/ c.shown # c.arg /\ shown' = shown /\ Done(c)
           \/ c.shown = c.arg /\ next = 0 /\ shown' = NoTask /\ Done(c)
           \/ /\ c.shown = c.arg /\ next # 0 /\ dropped[next] # "none"
              /\ shown' = [id |-> next, status |-> dropped[next]] /\ Done(c)
           \/ /\ c.shown = c.arg /\ next # 0 /\ dropped[next] = "none" /\ shown' = shown
              /\ DoneThen(c, {Call("next", next)})
        /\ UNCHANGED <<server, tab, open, busy, crossed, steps>>
NextArrives(c) ==
    /\ Arrived("next", c) /\ Show(Task(c.got, c.arg)) /\ Done(c)
    /\ UNCHANGED <<server, list, tab, open, busy, crossed, steps>>

OpenExport ==
    /\ Step /\ open = "none" /\ shown.id # 0 /\ open' = "export"
    /\ UNCHANGED <<server, list, held, shown, tab, busy, calls, crossed>>
CloseExport ==
    /\ open = "export" /\ open' = "none"
    /\ UNCHANGED <<server, list, held, shown, tab, busy, calls, crossed, steps>>

(* A request fails: the flag it raised is lowered, the rest stays.         *)
Fails(c) ==
    /\ c \in calls /\ c.got = NoAnswer /\ c.kind \notin {"init", "type"} /\ Done(c)
    /\ busy' = busy \ (CASE c.kind \in {"initTask", "task"} -> {"load"}
                         [] c.kind \in {"run", "cancel", "current"} -> {"action"}
                         [] OTHER -> {})
    /\ crossed' = (crossed \/ c.kind = "task")
    /\ UNCHANGED <<server, list, held, shown, tab, open, steps>>

-----------------------------------------------------------------------------
Next ==
    \/ (\E c \in calls : Serve(c)) \/ RunEnds
    \/ (\E c \in calls : InitArrives(c)) \/ (\E c \in calls : InitTaskArrives(c))
    \/ (\E c \in calls : PrefetchArrives(c))
    \/ StreamArrives \/ Poll \/ (\E c \in calls : PollArrives(c))
    \/ HandleRun \/ (\E c \in calls : RunArrives(c))
    \/ HandleCancel \/ (\E c \in calls : CancelArrives(c)) \/ (\E c \in calls : CancelledArrives(c))
    \/ (\E t \in Types : HandleTypeChange(t)) \/ (\E c \in calls : TypeArrives(c))
    \/ OpenHistory \/ CloseHistory \/ (\E c \in calls : LoadHistoryArrives(c))
    \/ (\E r \in Runs : HandleSelectHistoryItem(r)) \/ (\E c \in calls : TaskArrives(c))
    \/ (\E r \in Runs : HandleDeleteHistoryItem(r)) \/ (\E c \in calls : DeleteArrives(c))
    \/ (\E c \in calls : NextArrives(c))
    \/ OpenExport \/ CloseExport
    \/ (\E c \in calls : Fails(c))

Spec == Init /\ [][Next]_vars

-----------------------------------------------------------------------------
(* The table is of the type said above it: through every switch, choice    *)
(* and deletion, as long as the requests of the operator do not overlap,   *)
(* none is made during a run that is not the one shown, and none fails     *)
(* that was to fetch the table of the other type.                          *)
TypeOfTable == crossed \/ busy # {} \/ shown.id = 0 \/ TypeOf(shown.id) = tab

(* A button is held and a wait is shown only while a request is under way. *)
NoDeadButton ==
    /\ "load" \in busy => \E c \in calls : c.kind \in {"init", "initTask", "type", "task"}
    /\ "action" \in busy => \E c \in calls : c.kind \in {"run", "cancel", "current"}
=============================================================================
