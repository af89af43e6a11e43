---------------------------- MODULE NodeMonitor ----------------------------
(***************************************************************************)
(* The monitor of the nodes' connections (internal/telegram/bot.go): a     *)
(* loop that looks every 10 seconds at which agents are connected and      *)
(* makes an event of a change it has seen DebounceCount times in a row.    *)
(* Beside it, a request changes the settings of the bot, holding the       *)
(* manager's lock and the bot's while Telegram answers; the monitor needs  *)
(* both locks.  Telegram is taken to answer, a record in the database to   *)
(* succeed, and a restart may come at any time.                            *)
(***************************************************************************)
EXTENDS Naturals

CONSTANTS
    Names,         \* names of nodes
    DebounceCount, \* checks a change must be seen in
    None

VARIABLES
    exists,          \* the managed nodes of the configuration
    connected,       \* the nodes with an agent connection
    monitorRunning,
    monitorInitDone,
    grace,           \* is the monitor in its first 90 seconds
    nodeStates,      \* what the monitor knows of each node
    step,            \* where the monitor's loop is
    seen,            \* of the nodes of this check: are they connected
    events,          \* nodes with an event that is not recorded yet
    update,          \* where the goroutine that starts or reloads the bot is
    settings,        \* the settings it brings, until it is done
    managerMu,       \* does it hold the manager's lock
    botMu,           \* does it hold the bot's lock
    told,            \* history: what was last taken as known of a node, or reported
    news             \* history: how many of its last checks saw it otherwise (capped)

world == <<exists, connected>>
monitor == <<monitorRunning, monitorInitDone, grace, nodeStates>>
loop == <<step, seen, events>>
bot == <<update, settings, managerMu, botMu>>
history == <<told, news>>
vars == <<world, monitor, loop, bot, history>>

States == [notified : BOOLEAN, pending : BOOLEAN, count : 0..(DebounceCount - 1)]
Settings == [enabled : BOOLEAN, secret : BOOLEAN]
NoSettings == [enabled |-> FALSE, secret |-> FALSE]

TypeOK ==
    /\ exists \subseteq Names
    /\ connected \subseteq Names
    /\ {monitorRunning, monitorInitDone, grace, managerMu, botMu} \subseteq BOOLEAN
    /\ nodeStates \in [Names -> States \cup {None}]
    /\ step \in {"wait", "fetch", "check", "record", "notify", "publish"}
    /\ DOMAIN seen \subseteq Names
    /\ seen \in [DOMAIN seen -> BOOLEAN]
    /\ events \subseteq DOMAIN seen
    /\ update \in {"idle", "start", "api", "webhook"}
    /\ settings \in Settings
    /\ told \in [Names -> BOOLEAN \cup {None}]
    /\ news \in [Names -> 0..DebounceCount]

(* A mutant: the secret is left to the bot to make.                        *)
Unchanged(new) == new

(* A missing secret is made before the settings reach the bot.             *)
Completed(new) == [new EXCEPT !.secret = TRUE]

(* What NewManager brings to the bot.                                      *)
FirstSettings == {IF new.enabled THEN Completed(new) ELSE new : new \in Settings}
Unknown == [n \in Names |-> None]
NoNews == [n \in Names |-> 0]
Nobody == [n \in {} |-> FALSE]

Init ==
    /\ exists \in SUBSET Names
    /\ connected = {}
    /\ monitorRunning = FALSE
    /\ monitorInitDone = FALSE
    /\ grace = FALSE
    /\ nodeStates = Unknown
    /\ step = "wait"
    /\ seen = Nobody
    /\ events = {}
    /\ update = "start"
    /\ settings \in FirstSettings
    /\ managerMu = FALSE
    /\ botMu = FALSE
    /\ told = Unknown
    /\ news = NoNews

(***************************************************************************)
(* The nodes.  The server listens once the manager is made: until then the *)
(* goroutine that starts the bot is the only one.                          *)
(***************************************************************************)
ChangeNodes(n) ==
    /\ update = "idle"
    /\ exists' \in {exists \cup {n}, exists \ {n}}
    /\ UNCHANGED <<connected, monitor, loop, bot, history>>

ChangeConnection(n) ==
    /\ update = "idle" \/ managerMu
    /\ connected' \in {connected \cup {n}, connected \ {n}}
    /\ UNCHANGED <<exists, monitor, loop, bot, history>>

(***************************************************************************)
(* The loop.                                                               *)
(***************************************************************************)
Tick ==
    /\ monitorRunning
    /\ step = "wait"
    /\ step' = "fetch"
    /\ UNCHANGED <<world, monitor, seen, events, bot, history>>

(* GetFleetLiveStatus copies the nodes under the manager's lock, and looks *)
(* at their connections.                                                   *)
Fetch ==
    /\ step = "fetch"
    /\ ~managerMu
    /\ seen' = [n \in exists |-> n \in connected]
    /\ step' = "check"
    /\ UNCHANGED <<world, monitor, events, bot, history>>

Baseline(online) == [notified |-> online, pending |-> online, count |-> 0]

Count(known, online) == IF online = known.pending THEN known.count + 1 ELSE 1

(* A mutant: off by one.                                                   *)
ConfirmsLate(known, online) ==
    online # known.notified /\ Count(known, online) > DebounceCount

Confirms(known, online) ==
    online # known.notified /\ Count(known, online) >= DebounceCount

(* A mutant: a change that was taken back is not forgotten.                *)
ObserveAll(known, online) ==
    IF Confirms(known, online) THEN Baseline(online)
    ELSE IF online = known.notified THEN known
    ELSE [notified |-> known.notified, pending |-> online, count |-> Count(known, online)]

Observe(known, online) ==
    IF online = known.notified \/ Confirms(known, online)
    THEN Baseline(online)
    ELSE [notified |-> known.notified, pending |-> online, count |-> Count(known, online)]

(* The nodes of this check the monitor knows, and the others, which it     *)
(* meets for the first time; the first check only meets nodes.             *)
Known == {n \in DOMAIN seen : monitorInitDone /\ nodeStates[n] # None}
Met == DOMAIN seen \ Known

Confirmed == {n \in Known : Confirms(nodeStates[n], seen[n])}

(* While the server has just started, a node that comes back is no news.   *)
Suppressed == {n \in Confirmed : seen[n] /\ grace}

NextEvent ==
    IF events' = {}
    THEN step' = "wait" /\ seen' = Nobody
    ELSE step' = "record" /\ UNCHANGED seen

Check ==
    /\ step = "check"
    /\ ~botMu
    /\ nodeStates' = [n \in Names |->
                        IF n \in Met THEN Baseline(seen[n])
                        ELSE IF n \in Known THEN Observe(nodeStates[n], seen[n])
                        ELSE nodeStates[n]]
    /\ monitorInitDone' = TRUE
    /\ events' = Confirmed \ Suppressed
    /\ NextEvent
    /\ told' = [n \in Names |->
                    IF n \in Met /\ told[n] = None THEN seen[n]
                    ELSE IF n \in Suppressed THEN TRUE ELSE told[n]]
    /\ news' = [n \in Names |->
                    IF n \notin DOMAIN seen THEN news[n]
                    ELSE IF seen[n] = told'[n] THEN 0
                    ELSE IF news[n] < DebounceCount THEN news[n] + 1 ELSE news[n]]
    /\ UNCHANGED <<world, monitorRunning, grace, bot>>

(* RecordEvent, for one event after the other.                             *)
Record(n) ==
    /\ step = "record"
    /\ n \in events
    /\ events' = events \ {n}
    /\ told' = [told EXCEPT ![n] = seen[n]]
    /\ news' = [news EXCEPT ![n] = 0]
    /\ step' = "notify"
    /\ UNCHANGED <<world, monitor, seen, bot>>

NotifyEvent ==
    /\ step = "notify"
    /\ ~botMu
    /\ step' = "publish"
    /\ UNCHANGED <<world, monitor, seen, events, bot, history>>

Publish ==
    /\ step = "publish"
    /\ ~managerMu
    /\ UNCHANGED <<world, monitor, events, bot, history>>
    /\ NextEvent

EndGrace ==
    /\ grace
    /\ grace' = FALSE
    /\ UNCHANGED <<world, monitorRunning, monitorInitDone, nodeStates, loop, bot, history>>

(***************************************************************************)
(* The goroutine that brings new settings to the bot.                      *)
(***************************************************************************)
UpdateIntegrationsSettings(new) ==
    /\ update = "idle"
    /\ managerMu' = TRUE
    /\ settings' = Completed(new)
    /\ update' = "start"
    /\ UNCHANGED <<world, monitor, loop, botMu, history>>

(* A mutant: the monitor is restarted.                                     *)
RestartMonitor ==
    /\ monitorRunning' = TRUE
    /\ monitorInitDone' = FALSE
    /\ grace' = TRUE
    /\ nodeStates' = Unknown

(* startMonitorUnlocked.                                                   *)
StartMonitor ==
    /\ monitorRunning' = TRUE
    /\ IF monitorRunning
       THEN UNCHANGED <<monitorInitDone, grace, nodeStates>>
       ELSE /\ monitorInitDone' = FALSE
            /\ grace' = TRUE
            /\ nodeStates' = Unknown

Return ==
    /\ update' = "idle"
    /\ botMu' = FALSE
    /\ managerMu' = FALSE
    /\ settings' = NoSettings

Start ==
    /\ update = "start"
    /\ IF settings.enabled
       THEN /\ update' = "api"
            /\ botMu' = TRUE
            /\ UNCHANGED <<monitor, settings, managerMu>>
       ELSE StartMonitor /\ Return
    /\ UNCHANGED <<world, loop, history>>

(* NewBotAPI; if Telegram refuses the token, the monitor is not started.   *)
InitBot ==
    /\ update = "api"
    /\ \/ Return
       \/ update' = "webhook" /\ UNCHANGED <<settings, managerMu, botMu>>
    /\ UNCHANGED <<world, monitor, loop, history>>

(* The webhook of a server with a URL needs a secret: a new one is saved   *)
(* under the manager's lock, which a caller that holds it already cannot   *)
(* take.                                                                   *)
NeedsManagerMu == update = "webhook" /\ ~settings.secret
InitWebhook ==
    /\ update = "webhook"
    /\ NeedsManagerMu => ~managerMu
    /\ StartMonitor
    /\ Return
    /\ UNCHANGED <<world, loop, history>>

(* The server stops and starts again.                                      *)
Restart ==
    /\ connected' = {}
    /\ monitorRunning' = FALSE
    /\ monitorInitDone' = FALSE
    /\ grace' = FALSE
    /\ nodeStates' = Unknown
    /\ step' = "wait"
    /\ seen' = Nobody
    /\ events' = {}
    /\ update' = "start"
    /\ settings' \in FirstSettings
    /\ managerMu' = FALSE
    /\ botMu' = FALSE
    /\ told' = Unknown
    /\ news' = NoNews
    /\ UNCHANGED exists

Loop == Fetch \/ Check \/ (\E n \in Names : Record(n)) \/ NotifyEvent \/ Publish
Updater == Start \/ InitBot \/ InitWebhook

Next ==
    \/ \E n \in Names : ChangeNodes(n) \/ ChangeConnection(n)
    \/ Tick
    \/ Loop
    \/ EndGrace
    \/ \E new \in Settings : UpdateIntegrationsSettings(new)
    \/ Updater
    \/ Restart

(* The ticker ticks and Telegram answers.  Go's RWMutex lets a waiting     *)
(* reader in after each writer and a waiting writer after the readers      *)
(* before it, so a goroutine gets a lock that is released again and again. *)
Fairness == WF_vars(Tick) /\ SF_vars(Loop) /\ WF_vars(Updater)

Spec == Init /\ [][Next]_vars /\ Fairness

(***************************************************************************)
(* Properties.                                                             *)
(***************************************************************************)

(* An event says the opposite of what was last known or reported of its    *)
(* node, and as many checks in a row have seen it as the debounce count    *)
(* asks for; also when the node disappears from the configuration and      *)
(* comes back, or the bot is reloaded in between.                          *)
OnlyStableChanges == \A n \in events : told[n] # seen[n] /\ news[n] = DebounceCount

(* The goroutine that brings the settings never waits for a lock it holds  *)
(* itself, on none of the ways into the bot; so it gives both locks back.  *)
NoSelfDeadlock == ~(NeedsManagerMu /\ managerMu)

(* A node that was known to be online and whose agent stays away is        *)
(* reported, unless the node is removed or the server is restarted; also   *)
(* while the settings are changed over and over.                           *)
OutageIsReported(n) ==
    (told[n] = TRUE /\ n \notin connected)
        ~> (told[n] # TRUE \/ n \in connected \/ n \notin exists)
=============================================================================
