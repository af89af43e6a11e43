------------------------------ MODULE EventsView ------------------------------
(***************************************************************************)
(* The page of the events (EventsPage.tsx) and the number of those unread, *)
(* which every page shows (MeshContext.tsx).  The list is fetched for the  *)
(* filters set; reading, deleting and clearing change it in place once the *)
(* server has done so and said so.  The number comes with every new event  *)
(* and is asked for after every change.                                    *)
(***************************************************************************)
EXTENDS Naturals, FiniteSets

CONSTANTS
    Events,
    Offline,       \* those that say that a node went away; the others are of another type
    Found,         \* those a search finds
    MaxCalls,      \* requests under way when the operator asks for the next
    MaxSteps       \* events, presses, polls

Types == {"all", "node_offline", "cron_task_failure"}

VARIABLES
    server,        \* of every event: not yet, unread, read, or gone
    list,          \* events
    mode,          \* selectedType, unreadOnly
    typed,         \* a search is made
    open,          \* clearDialogOpen
    newest,        \* unreadEventsCount
    busy,          \* loading, refreshing, clearing
    calls,
    crossed,       \* history: requests crossed, or an answer that mattered to the list was lost
    steps
vars == <<server, list, mode, typed, open, newest, busy, calls, crossed, steps>>

Listings == [Events -> {"none", "unread", "read"}]
Filters == [type : Types, unread : BOOLEAN]
TypeOK ==
    /\ server \in [Events -> {"none", "unread", "read", "gone"}] /\ list \in Listings /\ mode \in Filters
    /\ typed \in BOOLEAN /\ open \in BOOLEAN /\ newest \in 0..Cardinality(Events)
    /\ busy \subseteq {"load", "refresh", "clear"} /\ crossed \in BOOLEAN /\ steps \in 0..MaxSteps
    /\ \A c \in calls : c.kind \in {"load", "count", "read", "readAll", "delete", "clear"} /\ c.mode \in Filters

-----------------------------------------------------------------------------
OfType(e, type) == type = "all" \/ (type = "node_offline" <=> e \in Offline)
Unread == {e \in Events : server[e] = "unread"}

(* The events of a filter, as the server has them.                         *)
GetEvents(filter) ==
    {e \in Events : /\ server[e] = "unread" \/ (server[e] = "read" /\ ~filter.unread)
                    /\ OfType(e, filter.type)}
Listing(events) == [e \in Events |-> IF e \in events THEN server[e] ELSE "none"]
FilteredEvents == {e \in Events : list[e] # "none" /\ (typed => e \in Found)}

NoAnswer == [list |-> [e \in Events |-> "none"], count |-> 0]
Call(kind, e) == [kind |-> kind, event |-> e, mode |-> mode, served |-> FALSE, got |-> NoAnswer]
AnEvent == CHOOSE e \in Events : TRUE
Fetch(filter) == [Call("load", AnEvent) EXCEPT !.mode = filter]
Count == Call("count", AnEvent)
Step == steps < MaxSteps /\ steps' = steps + 1
Free == Cardinality(calls) < MaxCalls
Asks(c) == calls' = calls \cup {c} /\ crossed' = (crossed \/ \E d \in calls : d.kind # "count")

Init ==
    /\ server \in [Events -> {"none", "unread", "read"}] /\ list = [e \in Events |-> "none"]
    /\ mode = [type |-> "all", unread |-> FALSE] /\ typed = FALSE /\ open = FALSE /\ newest = 0
    /\ busy = {"load"} /\ calls = {Fetch(mode), Count} /\ crossed = FALSE /\ steps = 0

-----------------------------------------------------------------------------
(* The server: a change first, and then what is answered.                  *)
Changed(c) ==
    CASE c.kind = "read" -> [server EXCEPT ![c.event] = IF @ = "unread" THEN "read" ELSE @]
      [] c.kind = "readAll" -> [e \in Events |-> IF server[e] = "unread" THEN "read" ELSE server[e]]
      [] c.kind = "delete" -> [server EXCEPT ![c.event] = "gone"]
      [] c.kind = "clear" -> [e \in Events |-> IF server[e] = "none" THEN "none" ELSE "gone"]
      [] OTHER -> server
Serve(c) ==
    /\ c \in calls /\ ~c.served /\ server' = Changed(c)
    /\ calls' = (calls \ {c}) \cup {[c EXCEPT !.served = TRUE,
                     !.got = [list |-> Listing(GetEvents(c.mode)), count |-> Cardinality(Unread)]]}
    /\ UNCHANGED <<list, mode, typed, open, newest, busy, crossed, steps>>

(* A new event is sent to every page with the number of those unread.      *)
BroadcastEventCreated(e) ==
    /\ Step /\ server[e] = "none" /\ server' = [server EXCEPT ![e] = "unread"]
    /\ newest' = Cardinality(Unread) + 1
    /\ UNCHANGED <<list, mode, typed, open, busy, calls, crossed>>
RefreshUnreadEventsCount ==
    /\ Step /\ Free /\ calls' = calls \cup {Count}
    /\ UNCHANGED <<server, list, mode, typed, open, newest, busy, crossed>>
CountArrives(c) ==
    /\ c \in calls /\ c.kind = "count" /\ c.served /\ newest' = c.got.count /\ calls' = calls \ {c}
    /\ UNCHANGED <<server, list, mode, typed, open, busy, crossed, steps>>

-----------------------------------------------------------------------------
(* The page                                                                *)

Arrived(kind, c) == c \in calls /\ c.kind = kind /\ c.served
Counts(c) == calls' = (calls \ {c}) \cup {Count}

FetchArrives(c) ==
    /\ Arrived("load", c) /\ list' = c.got.list /\ Counts(c) /\ busy' = busy \ {"load", "refresh"}
    /\ UNCHANGED <<server, mode, typed, open, newest, crossed, steps>>
Sets(filter) ==
    /\ Step /\ ~open /\ Free /\ mode' = filter /\ Asks(Fetch(filter)) /\ busy' = busy \cup {"load"}
    /\ UNCHANGED <<server, list, typed, open, newest>>
SelectType(t) ==
    /\ mode.type # "all" \/ t # "all"
    /\ Sets([mode EXCEPT !.type = IF t = mode.type THEN "all" ELSE t])
ToggleUnreadOnly == Sets([mode EXCEPT !.unread = ~@])
HandleRefresh ==
    /\ Step /\ ~open /\ "refresh" \notin busy /\ Free /\ Asks(Fetch(mode)) /\ busy' = busy \cup {"refresh"}
    /\ UNCHANGED <<server, list, mode, typed, open, newest>>
EditSearch ==
    /\ typed' = ~typed
    /\ UNCHANGED <<server, list, mode, open, newest, busy, calls, crossed, steps>>

Press(c) ==
    /\ Step /\ Free /\ Asks(c)
    /\ UNCHANGED <<server, list, mode, typed, open, newest>>
HandleMarkAsRead(e) ==
    ~open /\ e \in FilteredEvents /\ list[e] = "unread" /\ Press(Call("read", e)) /\ busy' = busy
MarkArrives(c) ==
    /\ Arrived("read", c) /\ Counts(c)
    /\ list' = [list EXCEPT ![c.event] = IF @ = "none" THEN @ ELSE "read"]
    /\ UNCHANGED <<server, mode, typed, open, newest, busy, crossed, steps>>
HandleMarkAllRead == ~open /\ newest > 0 /\ Press(Call("readAll", AnEvent)) /\ busy' = busy
MarkAllArrives(c) ==
    /\ Arrived("readAll", c) /\ Counts(c)
    /\ list' = [e \in Events |-> IF list[e] = "none" THEN "none" ELSE "read"]
    /\ UNCHANGED <<server, mode, typed, open, newest, busy, crossed, steps>>
HandleDeleteEvent(e) == ~open /\ e \in FilteredEvents /\ Press(Call("delete", e)) /\ busy' = busy
DeleteArrives(c) ==
    /\ Arrived("delete", c) /\ Counts(c) /\ list' = [list EXCEPT ![c.event] = "none"]
    /\ UNCHANGED <<server, mode, typed, open, newest, busy, crossed, steps>>

(* The dialog to clear all closes by its other button at any time.         *)
SetClearDialogOpen ==
    /\ open \/ \E e \in Events : list[e] # "none"
    /\ open' = ~open
    /\ UNCHANGED <<server, list, mode, typed, newest, busy, calls, crossed, steps>>
HandleClearAll ==
    open /\ "clear" \notin busy /\ Press(Call("clear", AnEvent)) /\ busy' = busy \cup {"clear"}
ClearArrives(c) ==
    /\ Arrived("clear", c) /\ Counts(c) /\ list' = [e \in Events |-> "none"] /\ open' = FALSE
    /\ busy' = busy \ {"clear"}
    /\ UNCHANGED <<server, mode, typed, newest, crossed, steps>>
(* A request fails before the server has done it, or its answer is lost.   *)
Fails(c) ==
    /\ c \in calls /\ calls' = calls \ {c}
    /\ busy' = busy \ (IF c.kind = "load" THEN {"load", "refresh"}
                       ELSE IF c.kind = "clear" THEN {"clear"} ELSE {})
    /\ crossed' = (crossed \/ c.kind = "load" \/ (c.served /\ c.kind \in {"delete", "clear"}))
    /\ UNCHANGED <<server, list, mode, typed, open, newest, steps>>

-----------------------------------------------------------------------------
Next ==
    \/ (\E c \in calls : Serve(c)) \/ (\E e \in Events : BroadcastEventCreated(e))
    \/ RefreshUnreadEventsCount \/ (\E c \in calls : CountArrives(c))
    \/ (\E c \in calls : FetchArrives(c)) \/ (\E t \in Types : SelectType(t)) \/ ToggleUnreadOnly
    \/ HandleRefresh \/ EditSearch
    \/ (\E e \in Events : HandleMarkAsRead(e)) \/ (\E c \in calls : MarkArrives(c))
    \/ HandleMarkAllRead \/ (\E c \in calls : MarkAllArrives(c))
    \/ (\E e \in Events : HandleDeleteEvent(e)) \/ (\E c \in calls : DeleteArrives(c))
    \/ SetClearDialogOpen \/ HandleClearAll \/ (\E c \in calls : ClearArrives(c))
    \/ (\E c \in calls : Fails(c))

Spec == Init /\ [][Next]_vars

-----------------------------------------------------------------------------
(* The list is of the filters set, and has nothing that was deleted: once  *)
(* the answers are there, whatever was pressed since, as long as requests  *)
(* do not overlap and none for the list fails.                             *)
ListOfFilters ==
    crossed \/ (\E c \in calls : c.kind # "count")
        \/ \A e \in Events : list[e] # "none" => OfType(e, mode.type) /\ server[e] \in {"unread", "read"}

(* A button is held, and a wait shown, only while a request is under way.  *)
NoDeadButton ==
    /\ busy \cap {"load", "refresh"} # {} => \E c \in calls : c.kind = "load"
    /\ "clear" \in busy => \E c \in calls : c.kind = "clear"
=============================================================================
