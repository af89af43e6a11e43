---------------------------- MODULE Fleet_proofs ----------------------------
(* Proofs about the agents' connections and about the monitor of the nodes, *)
(* for every set of names and connections and every debounce count.         *)
EXTENDS Fleet, TLAPS

USE NoneAssumption

Open(c) == status[c] \in {"registered", "reading"}

(***************************************************************************)
(* The types alone are not inductive: RemoveNode closes whatever the hub   *)
(* has registered, so that every registered connection must have its name. *)
(* It has one while it is open, and until its close has unregistered it.   *)
(***************************************************************************)
Held ==
    \A n \in Names : connections[n] # None =>
        /\ name[connections[n]] = n
        /\ \/ Open(connections[n]) /\ closing[connections[n]] = "no"
           \/ closing[connections[n]] \in {"asked", "shut"}
Fresh == \A c \in Conns : status[c] = "known" => closing[c] = "no"
RegistryInv == TypeOK /\ Held /\ Fresh

LEMMA ConnectionKeepsRegistry ==
    ASSUME RegistryInv, NEW c \in Conns, Connection(c)
    PROVE  RegistryInv'
<1> USE DEF RegistryInv, TypeOK
<1>1. ASSUME NEW n \in Names, FindNodeByAgentToken(c, n) PROVE RegistryInv'
  <2>1. TypeOK'
    BY <1>1 DEF FindNodeByAgentToken, config, hub
  <2>2. Held' /\ Fresh'
    BY <1>1 DEF FindNodeByAgentToken, Held, Fresh, Open, config, hub
  <2> QED BY <2>1, <2>2
<1>2. CASE UpgradeFails(c)
  <2>1. TypeOK'
    BY <1>2 DEF UpgradeFails, Fresh, config, hub
  <2>2. Held' /\ Fresh'
    BY <1>2 DEF UpgradeFails, Held, Fresh, Open, config, hub
  <2> QED BY <2>1, <2>2
<1>3. CASE Register(c)
  <2>1. /\ status[c] = "known" /\ name[c] \in Names
        /\ status' = [status EXCEPT ![c] = "registered"]
        /\ connections' = [connections EXCEPT ![name[c]] = c]
        /\ UNCHANGED <<mode, hasToken, uninstall, name, sawAgent, inHand, telemetry>>
    BY <1>3 DEF Register, config
  <2>2. \/ UNCHANGED closing
        \/ /\ connections[name[c]] \in Conns \ {c}
           /\ closing' = [closing EXCEPT ![connections[name[c]]] = IF @ = "no" THEN "asked" ELSE @]
    BY <1>3, <2>1 DEF Register, AskClose
  <2>3. TypeOK'
    <3>1. closing' \in [Conns -> {"no", "asked", "shut", "closed"}]
      BY <2>2
    <3>2. \A d \in Conns : status'[d] # "none" \/ closing'[d] # "no" => name'[d] \in Names
      BY <2>1, <2>2 DEF Held, Open
    <3> QED BY <2>1, <3>1, <3>2
  <2>4. Held'
    BY <2>1, <2>2 DEF Held, Fresh, Open
  <2>5. Fresh'
    BY <2>1, <2>2 DEF Fresh, Held, Open
  <2> QED BY <2>3, <2>4, <2>5
<1>4. CASE StartReading(c)
  <2>1. TypeOK'
    BY <1>4 DEF StartReading, hub
  <2>2. Held' /\ Fresh'
    BY <1>4 DEF StartReading, Held, Fresh, Open, hub
  <2> QED BY <2>1, <2>2
<1>5. CASE Read(c)
  BY <1>5 DEF Read, Held, Fresh, Open, config, hub
<1>6. CASE UpdateTelemetry(c)
  BY <1>6 DEF UpdateTelemetry, Held, Fresh, Open, config
<1>7. CASE ReadFails(c)
  <2>1. TypeOK'
    BY <1>7 DEF ReadFails, AskClose, config, hub
  <2>2. /\ UNCHANGED <<name, connections>>
        /\ status[c] = "reading" /\ status' = [status EXCEPT ![c] = "none"]
        /\ closing' = [closing EXCEPT ![c] = IF @ = "no" THEN "asked" ELSE @]
    BY <1>7 DEF ReadFails, AskClose, hub
  <2>3. Held'
    BY <2>2 DEF Held, Open
  <2>4. Fresh'
    BY <2>2 DEF Fresh
  <2> QED BY <2>1, <2>3, <2>4
<1>8. CASE ShutSocket(c)
  BY <1>8 DEF ShutSocket, Held, Fresh, Open, config, handler, hub
<1>9. CASE Unregister(c)
  <2>1. TypeOK'
    BY <1>9 DEF Unregister, config, handler
  <2>2. Held' /\ Fresh'
    BY <1>9 DEF Unregister, Held, Fresh, Open, config, handler
  <2> QED BY <2>1, <2>2
<1>10. CASE Forget(c)
  BY <1>10 DEF Forget, Held, Fresh, Open, config, hub
<1> QED
  BY <1>1, <1>2, <1>3, <1>4, <1>5, <1>6, <1>7, <1>8, <1>9, <1>10 DEF Connection

LEMMA ManagerKeepsRegistry ==
    ASSUME RegistryInv, Manager
    PROVE  RegistryInv'
<1> USE DEF RegistryInv, TypeOK
<1>1. PICK n \in Names : \/ AddNode(n) \/ GenerateAgentToken(n) \/ UninstallAgent(n)
                         \/ DeleteNode(n) \/ \E m \in Names : RenameNode(n, m)
                         \/ RemoveNode(n)
  BY DEF Manager
<1>2. CASE AddNode(n) \/ GenerateAgentToken(n) \/ UninstallAgent(n) \/ DeleteNode(n)
  <2>1. mode' \in [Names -> {"agent", "ssh", "gone"}] /\ hasToken' \in [Names -> BOOLEAN]
        /\ uninstall' \in [Names -> {"no", "revoked", "done"}]
    BY <1>2 DEF AddNode, GenerateAgentToken, UninstallAgent, DeleteNode
  <2>2. UNCHANGED <<handler, closing, hub>>
    BY <1>2 DEF AddNode, GenerateAgentToken, UninstallAgent, DeleteNode
  <2> QED BY <2>1, <2>2 DEF Held, Fresh, Open, handler, hub
<1>3. ASSUME NEW m \in Names, RenameNode(n, m) PROVE RegistryInv'
  <2>1. mode' \in [Names -> {"agent", "ssh", "gone"}] /\ hasToken' \in [Names -> BOOLEAN]
        /\ uninstall' \in [Names -> {"no", "revoked", "done"}]
    BY <1>3 DEF RenameNode
  <2> QED BY <1>3, <2>1 DEF RenameNode, Held, Fresh, Open, handler, hub
<1>4. CASE RemoveNode(n)
  <2>1. /\ UNCHANGED <<mode, hasToken, status, name, sawAgent, inHand>>
        /\ uninstall' = [uninstall EXCEPT ![n] = "done"]
        /\ connections' = [connections EXCEPT ![n] = None]
        /\ telemetry' = [telemetry EXCEPT ![n] = FALSE]
    BY <1>4 DEF RemoveNode, handler
  <2>2. \/ UNCHANGED closing
        \/ /\ connections[n] \in Conns
           /\ closing' = [closing EXCEPT ![connections[n]] = IF @ = "no" THEN "asked" ELSE @]
    BY <1>4 DEF RemoveNode, AskClose
  <2>3. closing' \in [Conns -> {"no", "asked", "shut", "closed"}]
    BY <2>2
  <2>4. \A d \in Conns : status'[d] # "none" \/ closing'[d] # "no" => name'[d] \in Names
    BY <2>1, <2>2 DEF Held
  <2>5. TypeOK'
    BY <2>1, <2>3, <2>4
  <2>6. Held' /\ Fresh'
    BY <2>1, <2>2 DEF Held, Fresh, Open
  <2> QED BY <2>5, <2>6
<1> QED BY <1>1, <1>2, <1>3, <1>4

(* Every reachable state has its type, however often connections are       *)
(* replaced, fail, are removed and come back.                              *)
THEOREM RegistryTyped == Spec => []TypeOK
<1>1. Init => RegistryInv
  BY DEF Init, RegistryInv, TypeOK, Held, Fresh
<1>2. RegistryInv /\ [Next]_vars => RegistryInv'
  <2>1. RegistryInv /\ UNCHANGED vars => RegistryInv'
    BY DEF vars, config, handler, hub, RegistryInv, TypeOK, Held, Fresh, Open
  <2> QED BY <2>1, ConnectionKeepsRegistry, ManagerKeepsRegistry DEF Next
<1>3. RegistryInv => TypeOK
  BY DEF RegistryInv
<1> QED BY <1>1, <1>2, <1>3, PTL DEF Spec

-----------------------------------------------------------------------------
(* A replaced connection's close never unregisters its successor: what is  *)
(* open and not being closed is what the hub dispatches commands to.       *)
THEOREM OpenStaysRegistered == Spec => []OpenIsRegistered
<1>1. Init => OpenIsRegistered
  BY DEF Init, OpenIsRegistered
<1>2. TypeOK /\ OpenIsRegistered /\ [Next]_vars => OpenIsRegistered'
  <2> SUFFICES ASSUME TypeOK, OpenIsRegistered, [Next]_vars PROVE OpenIsRegistered'
    OBVIOUS
  <2> USE DEF TypeOK, OpenIsRegistered
  <2>1. ASSUME NEW c \in Conns, Connection(c) PROVE OpenIsRegistered'
    <3>1. ASSUME NEW n \in Names, FindNodeByAgentToken(c, n) PROVE OpenIsRegistered'
      BY <3>1 DEF FindNodeByAgentToken, hub
    <3>2. CASE UpgradeFails(c)
      BY <3>2 DEF UpgradeFails, hub
    <3>3. CASE Register(c)
      BY <3>3 DEF Register, AskClose
    <3>4. CASE StartReading(c)
      BY <3>4 DEF StartReading, hub
    <3>5. CASE Read(c)
      BY <3>5 DEF Read, hub
    <3>6. CASE UpdateTelemetry(c)
      BY <3>6 DEF UpdateTelemetry
    <3>7. CASE ReadFails(c)
      BY <3>7 DEF ReadFails, AskClose, hub
    <3>8. CASE ShutSocket(c)
      BY <3>8 DEF ShutSocket, handler, hub
    <3>9. CASE Unregister(c)
      BY <3>9 DEF Unregister, handler
    <3>10. CASE Forget(c)
      BY <3>10 DEF Forget, hub
    <3> QED
      BY <2>1, <3>1, <3>2, <3>3, <3>4, <3>5, <3>6, <3>7, <3>8, <3>9, <3>10 DEF Connection
  <2>2. CASE Manager
    <3>1. PICK n \in Names : \/ RemoveNode(n)
                             \/ UNCHANGED <<status, name, closing, connections>>
      BY <2>2
         DEF Manager, AddNode, GenerateAgentToken, UninstallAgent, DeleteNode, RenameNode,
                  handler, hub
    <3>2. CASE RemoveNode(n)
      BY <3>2 DEF RemoveNode, AskClose, handler
    <3> QED BY <3>1, <3>2
  <2>3. CASE UNCHANGED vars
    BY <2>3 DEF vars, handler, hub
  <2> QED BY <2>1, <2>2, <2>3 DEF Next
<1> QED BY <1>1, <1>2, RegistryTyped, PTL DEF Spec

-----------------------------------------------------------------------------

(***************************************************************************)
(* The monitor.  Every step of the fleet is one of its own, or leaves what *)
(* it has as it is: its invariants are proved of its own steps.            *)
(***************************************************************************)
USE DebounceAssumption, NoStateAssumption

(* A state that has not been kept comes out as one that may be kept.       *)
LEMMA ObservedIsState ==
    ASSUME NEW known \in NM!States, NEW online \in BOOLEAN
    PROVE  NM!Observe(known, online) \in NM!States
<1>1. CASE online = known.notified \/ NM!Confirms(known, online)
    BY <1>1 DEF NM!Observe, NM!Baseline, NM!States
<1>2. CASE ~(online = known.notified \/ NM!Confirms(known, online))
    <2>1. NM!Count(known, online) \in 0..(DebounceCount - 1)
        BY <1>2 DEF NM!Confirms, NM!Count, NM!States
    <2>2. QED
        BY <1>2, <2>1 DEF NM!Observe, NM!States
<1>3. QED
    BY <1>1, <1>2

LEMMA BaselineIsState ==
    ASSUME NEW online \in BOOLEAN
    PROVE  NM!Baseline(online) \in NM!States
BY DEF NM!Baseline, NM!States

(* The settings the bot is started with, and those it has when idle.       *)
LEMMA SettingsTyped ==
    /\ NM!FirstSettings \subseteq NM!Settings
    /\ NM!NoSettings \in NM!Settings
    /\ \A new \in NM!Settings : NM!Completed(new) \in NM!Settings
<1>1. \A new \in NM!Settings : NM!Completed(new) \in NM!Settings
    BY DEF NM!Completed, NM!Settings
<1>2. NM!NoSettings \in NM!Settings
    BY DEF NM!NoSettings, NM!Settings
<1>3. QED
    BY <1>1, <1>2 DEF NM!FirstSettings

(* No node is being checked.                                               *)
LEMMA NobodyTyped ==
    DOMAIN NM!Nobody = {} /\ NM!Nobody \in [DOMAIN NM!Nobody -> BOOLEAN]
BY DEF NM!Nobody

(* The types are inductive with this: the events of a check are recorded   *)
(* before the next one.                                                    *)
TypeInv == NM!TypeOK /\ (step \in {"wait", "fetch", "check"} => events = {})

LEMMA TypesInit ==
    ASSUME NM!Init
    PROVE  TypeInv
<1>1. nodeStates \in [Names -> NM!States \cup {None}] /\ told \in [Names -> BOOLEAN \cup {None}]
    BY DEF NM!Init, NM!Unknown
<1>2. news \in [Names -> 0..DebounceCount]
    BY DEF NM!Init, NM!NoNews
<1>3. settings \in NM!Settings
    BY SettingsTyped DEF NM!Init
<1>4. /\ DOMAIN seen \subseteq Names
      /\ seen \in [DOMAIN seen -> BOOLEAN]
      /\ events \subseteq DOMAIN seen
    BY NobodyTyped DEF NM!Init
<1>5. QED
    BY <1>1, <1>2, <1>3, <1>4 DEF NM!Init, NM!TypeOK, TypeInv

LEMMA MonitorStarted ==
    ASSUME NM!TypeOK, NM!StartMonitor
    PROVE  /\ {monitorRunning', monitorInitDone', grace'} \subseteq BOOLEAN
           /\ nodeStates' \in [Names -> NM!States \cup {None}]
BY DEF NM!TypeOK, NM!StartMonitor, NM!Unknown

LEMMA TypesStep ==
    ASSUME TypeInv, [NM!Next]_(NM!vars)
    PROVE  TypeInv'
<1> USE DEF NM!TypeOK, TypeInv
<1>1. ASSUME NEW n \in Names, NM!ChangeNodes(n) PROVE TypeInv'
    BY <1>1 DEF NM!ChangeNodes, NM!monitor, NM!loop, NM!bot, NM!history
<1>2. ASSUME NEW n \in Names, NM!ChangeConnection(n) PROVE TypeInv'
    BY <1>2 DEF NM!ChangeConnection, NM!monitor, NM!loop, NM!bot, NM!history
<1>3. CASE NM!Tick
    BY <1>3 DEF NM!Tick, NM!world, NM!monitor, NM!bot, NM!history
<1>4. CASE NM!Fetch
    <2>1. DOMAIN seen' = exists /\ seen' \in [exists -> BOOLEAN]
        BY <1>4 DEF NM!Fetch
    <2>2. events = {}
        BY <1>4 DEF NM!Fetch
    <2>3. QED
        BY <1>4, <2>1, <2>2 DEF NM!Fetch, NM!world, NM!monitor, NM!bot, NM!history
<1>5. CASE NM!Check
    <2>1. nodeStates' \in [Names -> NM!States \cup {None}]
        <3> SUFFICES ASSUME NEW n \in Names
                     PROVE  (IF n \in NM!Met THEN NM!Baseline(seen[n])
                             ELSE IF n \in NM!Known THEN NM!Observe(nodeStates[n], seen[n])
                             ELSE nodeStates[n]) \in NM!States \cup {None}
            BY <1>5 DEF NM!Check
        <3>1. CASE n \in NM!Met
            <4>1. seen[n] \in BOOLEAN
                BY <3>1 DEF NM!Met
            <4>2. QED
                BY <3>1, <4>1, BaselineIsState
        <3>2. CASE n \in NM!Known
            <4>1. seen[n] \in BOOLEAN /\ nodeStates[n] \in NM!States
                BY <3>2 DEF NM!Known
            <4>2. n \notin NM!Met
                BY <3>2 DEF NM!Met
            <4>3. QED
                BY <3>2, <4>1, <4>2, ObservedIsState
        <3>3. CASE n \notin NM!Met /\ n \notin NM!Known
            BY <3>3
        <3>4. QED
            BY <3>1, <3>2, <3>3
    <2>2. told' \in [Names -> BOOLEAN \cup {None}]
        BY <1>5 DEF NM!Check, NM!Met
    <2>3. news' \in [Names -> 0..DebounceCount]
        <3> SUFFICES ASSUME NEW n \in Names
                     PROVE  (IF n \notin DOMAIN seen THEN news[n]
                             ELSE IF seen[n] = told'[n] THEN 0
                             ELSE IF news[n] < DebounceCount THEN news[n] + 1
                             ELSE news[n]) \in 0..DebounceCount
            BY <1>5 DEF NM!Check
        <3>1. news[n] \in 0..DebounceCount
            OBVIOUS
        <3>2. QED
            BY <3>1
    <2>4. /\ DOMAIN seen' \subseteq Names
          /\ seen' \in [DOMAIN seen' -> BOOLEAN]
          /\ events' \subseteq DOMAIN seen'
          /\ step' \in {"wait", "record"}
          /\ step' = "wait" => events' = {}
        <3>1. events' \subseteq DOMAIN seen
            BY <1>5 DEF NM!Check, NM!Confirmed, NM!Known
        <3>2. CASE events' = {}
            BY <1>5, <3>2 DEF NM!Check, NM!NextEvent, NM!Nobody
        <3>3. CASE events' # {}
            BY <1>5, <3>1, <3>3 DEF NM!Check, NM!NextEvent
        <3>4. QED
            BY <3>2, <3>3
    <2>5. QED
        BY <1>5, <2>1, <2>2, <2>3, <2>4 DEF NM!Check, NM!world, NM!bot
<1>6. ASSUME NEW n \in Names, NM!Record(n) PROVE TypeInv'
    BY <1>6 DEF NM!Record, NM!world, NM!monitor, NM!bot
<1>7. CASE NM!NotifyEvent
    BY <1>7 DEF NM!NotifyEvent, NM!world, NM!monitor, NM!bot, NM!history
<1>8. CASE NM!Publish
    <2>1. CASE events' = {}
        BY <1>8, <2>1, NobodyTyped
           DEF NM!Publish, NM!NextEvent, NM!world, NM!monitor, NM!bot, NM!history
    <2>2. CASE events' # {}
        BY <1>8, <2>2 DEF NM!Publish, NM!NextEvent, NM!world, NM!monitor, NM!bot, NM!history
    <2>3. QED
        BY <2>1, <2>2
<1>9. CASE NM!EndGrace
    BY <1>9 DEF NM!EndGrace, NM!world, NM!loop, NM!bot, NM!history
<1>10. ASSUME NEW new \in NM!Settings, NM!UpdateIntegrationsSettings(new) PROVE TypeInv'
    BY <1>10
       DEF NM!UpdateIntegrationsSettings, NM!Completed, NM!Settings, NM!world, NM!monitor, NM!loop, NM!history
<1>11. CASE NM!Start
    <2>1. CASE settings.enabled
        BY <1>11, <2>1 DEF NM!Start, NM!world, NM!monitor, NM!loop, NM!history
    <2>2. CASE ~settings.enabled
        <3>1. NM!StartMonitor /\ NM!Return /\ UNCHANGED <<NM!world, NM!loop, NM!history>>
            BY <1>11, <2>2 DEF NM!Start
        <3>2. settings' \in NM!Settings /\ update' = "idle" /\ ~managerMu' /\ ~botMu'
            BY <3>1, SettingsTyped DEF NM!Return
        <3>3. QED
            BY <3>1, <3>2, MonitorStarted DEF NM!Return, NM!world, NM!loop, NM!history
    <2>3. QED
        BY <2>1, <2>2
<1>12. CASE NM!InitBot
    BY <1>12, SettingsTyped
       DEF NM!InitBot, NM!Return, NM!world, NM!monitor, NM!loop, NM!history
<1>13. CASE NM!InitWebhook
    BY <1>13, SettingsTyped, MonitorStarted
       DEF NM!InitWebhook, NM!Return, NM!world, NM!loop, NM!history
<1>14. CASE NM!Restart
    <2>1. /\ nodeStates' \in [Names -> NM!States \cup {None}]
          /\ told' \in [Names -> BOOLEAN \cup {None}]
        BY <1>14 DEF NM!Restart, NM!Unknown
    <2>2. news' \in [Names -> 0..DebounceCount]
        BY <1>14 DEF NM!Restart, NM!NoNews
    <2>3. /\ DOMAIN seen' \subseteq Names
          /\ seen' \in [DOMAIN seen' -> BOOLEAN]
          /\ events' \subseteq DOMAIN seen'
        BY <1>14, NobodyTyped DEF NM!Restart
    <2>4. QED
        BY <1>14, <2>1, <2>2, <2>3, SettingsTyped DEF NM!Restart
<1>15. CASE UNCHANGED NM!vars
    BY <1>15 DEF NM!vars, NM!world, NM!monitor, NM!loop, NM!bot, NM!history
<1>16. QED
    BY <1>1, <1>2, <1>3, <1>4, <1>5, <1>6, <1>7, <1>8, <1>9, <1>10, <1>11, <1>12, <1>13,
       <1>14, <1>15 DEF NM!Next, NM!Loop, NM!Updater

-----------------------------------------------------------------------------
(***************************************************************************)
(* OnlyStableChanges.  Between two checks, what the monitor has confirmed  *)
(* of a node is what was last known or reported of it, and the change it   *)
(* is counting was seen at least that often; while events wait to be       *)
(* recorded, their nodes' changes are confirmed already.  The monitor      *)
(* knows a node just when something was taken as known of it, which a      *)
(* reload of the bot does not change, as it does not restart the monitor.  *)
(***************************************************************************)
Agrees(n) ==
    IF n \in events
    THEN told[n] # seen[n] /\ news[n] = DebounceCount /\ nodeStates[n] = NM!Baseline(seen[n])
    ELSE told[n] = nodeStates[n].notified /\ nodeStates[n].count =< news[n]

NewsInv ==
    /\ \A n \in Names : IF nodeStates[n] = None THEN told[n] = None /\ n \notin events
                                               ELSE told[n] # None /\ Agrees(n)
    /\ step # "wait" => monitorRunning
    /\ monitorInitDone => monitorRunning
    /\ ~monitorInitDone => nodeStates = NM!Unknown

(* How a count goes on beside the number of checks that saw the change.    *)
LEMMA CountGoesOn ==
    ASSUME NEW known \in NM!States, NEW online \in BOOLEAN,
           online # known.notified, NEW k \in 0..DebounceCount, known.count =< k,
           NEW next, next = IF k < DebounceCount THEN k + 1 ELSE k
    PROVE  IF NM!Confirms(known, online)
           THEN next = DebounceCount
           ELSE /\ NM!Observe(known, online).notified = known.notified
                /\ NM!Observe(known, online).count =< next
<1>1. NM!Count(known, online) =< next
    BY DEF NM!Count, NM!States
<1>2. CASE NM!Confirms(known, online)
    <2>1. NM!Count(known, online) >= DebounceCount /\ next =< DebounceCount
        BY <1>2 DEF NM!Confirms
    <2>2. NM!Count(known, online) \in Nat /\ next \in Nat
        BY DEF NM!Count, NM!States
    <2>3. QED
        BY <1>1, <1>2, <2>1, <2>2
<1>3. CASE ~NM!Confirms(known, online)
    BY <1>1, <1>3 DEF NM!Observe
<1>4. QED
    BY <1>2, <1>3

LEMMA NewsInit ==
    ASSUME NM!Init
    PROVE  NewsInv
BY DEF NM!Init, NewsInv, NM!Unknown

(* A check of a node the monitor knows, and of one it meets.               *)
LEMMA NewsCheck ==
    ASSUME TypeInv, NewsInv, NM!Check
    PROVE  NewsInv'
<1> USE DEF NM!TypeOK, TypeInv
<1>1. events = {} /\ monitorRunning /\ monitorRunning' /\ monitorInitDone'
    BY DEF NM!Check, NewsInv
<1>2. events' \subseteq NM!Known /\ events' = NM!Confirmed \ NM!Suppressed
    BY DEF NM!Check, NM!Confirmed
<1>3. ASSUME NEW n \in events' PROVE seen'[n] = seen[n]
    BY <1>3 DEF NM!Check, NM!NextEvent
<1>4. ASSUME NEW n \in Names
      PROVE  IF nodeStates'[n] = None THEN told'[n] = None /\ n \notin events'
                                     ELSE told'[n] # None /\ Agrees(n)'
    <2>1. CASE n \notin DOMAIN seen
        <3>1. n \notin NM!Met /\ n \notin NM!Known /\ n \notin events'
            BY <1>2, <2>1 DEF NM!Met, NM!Known
        <3>2. /\ nodeStates'[n] = nodeStates[n]
              /\ told'[n] = told[n]
              /\ news'[n] = news[n]
            BY <1>2, <2>1, <3>1 DEF NM!Check, NM!Suppressed, NM!Confirmed
        <3>3. QED
            BY <1>1, <3>1, <3>2 DEF NewsInv, Agrees
    <2>2. CASE n \in NM!Met
        <3>1. nodeStates[n] = None /\ told[n] = None
            BY <2>2 DEF NM!Met, NM!Known, NewsInv, NM!Unknown
        <3>2. n \notin NM!Known /\ n \notin events' /\ n \notin NM!Suppressed
            BY <1>2, <2>2 DEF NM!Met, NM!Suppressed, NM!Confirmed
        <3>3. n \in DOMAIN seen /\ seen[n] \in BOOLEAN
            BY <2>2 DEF NM!Met
        <3>4. /\ nodeStates'[n] = NM!Baseline(seen[n])
              /\ told'[n] = seen[n]
              /\ news'[n] = 0
            BY <2>2, <3>1, <3>3 DEF NM!Check
        <3>5. NM!Baseline(seen[n]) # None /\ seen[n] # None
            BY <3>3, BaselineIsState
        <3>6. QED
            BY <3>2, <3>4, <3>5 DEF Agrees, NM!Baseline
    <2>3. CASE n \in NM!Known
        <3> DEFINE known == nodeStates[n]
                   next == IF news[n] < DebounceCount THEN news[n] + 1 ELSE news[n]
        <3>1. n \notin NM!Met /\ n \in DOMAIN seen /\ seen[n] \in BOOLEAN /\ known \in NM!States
            BY <2>3 DEF NM!Met, NM!Known
        <3>2. told[n] = known.notified /\ known.count =< news[n]
            BY <1>1, <2>3 DEF NM!Known, NewsInv, Agrees
        <3>3. known.notified \in BOOLEAN /\ news[n] \in 0..DebounceCount
            BY <3>1 DEF NM!States
        <3>4. nodeStates'[n] = NM!Observe(known, seen[n]) /\ nodeStates'[n] # None
            BY <2>3, <3>1, ObservedIsState DEF NM!Check
        <3>5. n \in NM!Confirmed <=> NM!Confirms(known, seen[n])
            BY <2>3 DEF NM!Confirmed
        <3>6. told'[n] = IF n \in NM!Suppressed THEN TRUE ELSE told[n]
            BY <3>1 DEF NM!Check
        <3>7. news'[n] = IF seen[n] = told'[n] THEN 0 ELSE next
            BY <3>1 DEF NM!Check
        <3>8. CASE seen[n] = known.notified
            <4>1. n \notin NM!Confirmed
                BY <3>5, <3>8 DEF NM!Confirms
            <4>2. n \notin NM!Suppressed /\ n \notin events'
                BY <1>2, <4>1 DEF NM!Suppressed
            <4>3. nodeStates'[n] = NM!Baseline(seen[n])
                BY <3>4, <3>8 DEF NM!Observe
            <4>4. told'[n] = seen[n] /\ news'[n] = 0
                BY <3>2, <3>6, <3>7, <3>8, <4>2
            <4>5. QED
                BY <3>1, <3>4, <4>2, <4>3, <4>4 DEF Agrees, NM!Baseline
        <3>9. CASE seen[n] # known.notified /\ n \notin NM!Confirmed
            <4>1. n \notin NM!Suppressed /\ n \notin events'
                BY <1>2, <3>9 DEF NM!Suppressed
            <4>2. told'[n] = known.notified /\ news'[n] = next
                BY <3>2, <3>6, <3>7, <3>9, <4>1
            <4>3. /\ NM!Observe(known, seen[n]).notified = known.notified
                  /\ NM!Observe(known, seen[n]).count =< next
                BY <3>1, <3>2, <3>3, <3>5, <3>9, CountGoesOn
            <4>4. QED
                BY <3>3, <3>4, <4>1, <4>2, <4>3 DEF Agrees
        <3>10. CASE seen[n] # known.notified /\ n \in NM!Suppressed
            <4>1. n \notin events' /\ n \in NM!Confirmed
                BY <1>2, <3>10 DEF NM!Suppressed
            <4>2. nodeStates'[n] = NM!Baseline(seen[n])
                BY <3>4, <3>5, <4>1 DEF NM!Observe
            <4>3. told'[n] = seen[n]
                BY <3>1, <3>6, <3>10 DEF NM!Suppressed
            <4>4. news'[n] = 0
                BY <3>7, <4>3
            <4>5. QED
                BY <3>1, <3>4, <4>1, <4>2, <4>3, <4>4 DEF Agrees, NM!Baseline
        <3>11. CASE seen[n] # known.notified /\ n \in events'
            <4>1. n \in NM!Confirmed /\ n \notin NM!Suppressed
                BY <1>2, <3>11
            <4>2. nodeStates'[n] = NM!Baseline(seen[n])
                BY <3>4, <3>5, <4>1 DEF NM!Observe
            <4>3. told'[n] = known.notified /\ news'[n] = next
                BY <3>2, <3>6, <3>7, <3>11, <4>1
            <4>4. next = DebounceCount
                BY <3>1, <3>2, <3>3, <3>5, <3>11, <4>1, CountGoesOn
            <4>5. seen'[n] = seen[n]
                BY <1>3, <3>11
            <4>6. QED
                BY <3>3, <3>4, <3>11, <4>2, <4>3, <4>4, <4>5 DEF Agrees
        <3>12. QED
            BY <1>2, <3>8, <3>9, <3>10, <3>11
    <2>4. QED
        BY <2>1, <2>2, <2>3 DEF NM!Met
<1>5. QED
    BY <1>1, <1>4 DEF NewsInv

(* The steps of the updater reset the monitor only by starting it.         *)
LEMMA NewsStart ==
    ASSUME NewsInv, TypeInv, NM!StartMonitor, UNCHANGED <<NM!loop, NM!history>>
    PROVE  NewsInv'
<1>1. CASE monitorRunning
    <2>1. UNCHANGED <<NM!monitor, NM!loop, NM!history>>
        BY <1>1 DEF NM!StartMonitor, NM!monitor
    <2>2. QED
        BY <2>1 DEF NewsInv, Agrees, NM!monitor, NM!loop, NM!history
<1>2. CASE ~monitorRunning
    <2>1. nodeStates = NM!Unknown /\ nodeStates' = NM!Unknown /\ monitorRunning'
        BY <1>2 DEF NewsInv, NM!StartMonitor
    <2>2. \A n \in Names : nodeStates[n] = None
        BY <2>1 DEF NM!Unknown
    <2>3. QED
        BY <2>1, <2>2 DEF NewsInv, NM!loop, NM!history
<1>3. QED
    BY <1>1, <1>2

LEMMA NewsStep ==
    ASSUME TypeInv, NewsInv, [NM!Next]_(NM!vars)
    PROVE  NewsInv'
<1>1. ASSUME UNCHANGED <<NM!monitor, NM!loop, NM!history>> PROVE NewsInv'
    BY <1>1 DEF NewsInv, Agrees, NM!monitor, NM!loop, NM!history
<1>2. ASSUME NEW n \in Names, NM!ChangeNodes(n) \/ NM!ChangeConnection(n) PROVE NewsInv'
    BY <1>1, <1>2 DEF NM!ChangeNodes, NM!ChangeConnection
<1>3. CASE NM!Tick
    BY <1>3 DEF NM!Tick, NewsInv, Agrees, NM!monitor, NM!history
<1>4. CASE NM!Fetch
    <2>1. events = {} /\ events' = {}
        BY <1>4 DEF NM!Fetch, TypeInv
    <2>2. QED
        BY <1>4, <2>1 DEF NM!Fetch, NewsInv, Agrees, NM!monitor, NM!history
<1>5. CASE NM!Check
    BY <1>5, NewsCheck
<1>6. ASSUME NEW n \in Names, NM!Record(n) PROVE NewsInv'
    <2>1. /\ UNCHANGED <<nodeStates, seen, monitorRunning, monitorInitDone>>
          /\ events' = events \ {n}
          /\ n \in events
        BY <1>6 DEF NM!Record, NM!monitor
    <2>2. ASSUME NEW m \in Names
          PROVE  IF nodeStates'[m] = None THEN told'[m] = None /\ m \notin events'
                                         ELSE told'[m] # None /\ Agrees(m)'
        <3>1. CASE m = n
            <4>1. /\ nodeStates[n] # None
                  /\ nodeStates[n] = NM!Baseline(seen[n])
                BY <2>1 DEF NewsInv, Agrees
            <4>2. told'[n] = seen[n] /\ news'[n] = 0
                BY <1>6 DEF NM!Record, TypeInv, NM!TypeOK
            <4>3. seen[n] \in BOOLEAN
                BY <2>1 DEF TypeInv, NM!TypeOK
            <4>4. QED
                BY <2>1, <3>1, <4>1, <4>2, <4>3 DEF Agrees, NM!Baseline
        <3>2. CASE m # n
            <4>1. told'[m] = told[m] /\ news'[m] = news[m]
                BY <1>6, <3>2 DEF NM!Record, TypeInv, NM!TypeOK
            <4>2. QED
                BY <2>1, <3>2, <4>1 DEF NewsInv, Agrees
        <3>3. QED
            BY <3>1, <3>2
    <2>3. QED
        BY <1>6, <2>1, <2>2 DEF NewsInv, NM!Record
<1>7. CASE NM!NotifyEvent
    BY <1>7 DEF NM!NotifyEvent, NewsInv, Agrees, NM!monitor, NM!history
<1>8. CASE NM!Publish
    <2>1. CASE events' = {}
        BY <1>8, <2>1 DEF NM!Publish, NM!NextEvent, NewsInv, Agrees, NM!monitor, NM!history
    <2>2. CASE events' # {}
        BY <1>8, <2>2 DEF NM!Publish, NM!NextEvent, NewsInv, Agrees, NM!monitor, NM!history
    <2>3. QED
        BY <2>1, <2>2
<1>9. CASE NM!EndGrace
    BY <1>9 DEF NM!EndGrace, NewsInv, Agrees, NM!loop, NM!history
<1>10. ASSUME NEW new \in NM!Settings, NM!UpdateIntegrationsSettings(new) PROVE NewsInv'
    BY <1>1, <1>10 DEF NM!UpdateIntegrationsSettings
<1>11. CASE NM!Start
    BY <1>1, <1>11, NewsStart DEF NM!Start
<1>12. CASE NM!InitBot
    BY <1>1, <1>12 DEF NM!InitBot
<1>13. CASE NM!InitWebhook
    BY <1>13, NewsStart DEF NM!InitWebhook
<1>14. CASE NM!Restart
    BY <1>14 DEF NM!Restart, NewsInv, NM!Unknown
<1>15. CASE UNCHANGED NM!vars
    BY <1>1, <1>15 DEF NM!vars
<1>16. QED
    BY <1>2, <1>3, <1>4, <1>5, <1>6, <1>7, <1>8, <1>9, <1>10, <1>11, <1>12, <1>13, <1>14,
       <1>15 DEF NM!Next, NM!Loop, NM!Updater

-----------------------------------------------------------------------------
(***************************************************************************)
(* NoSelfDeadlock.  A goroutine that has the manager's lock brings settings *)
(* to the bot that were completed before, until it returns and unlocks.    *)
(***************************************************************************)
LockInv == managerMu => update # "idle" /\ settings.secret

LEMMA LockStep ==
    ASSUME TypeInv, LockInv, [NM!Next]_(NM!vars)
    PROVE  LockInv'
<1> USE DEF LockInv, TypeInv, NM!TypeOK
<1>1. CASE UNCHANGED NM!bot
    BY <1>1 DEF NM!bot
<1>2. ASSUME NEW new \in NM!Settings, NM!UpdateIntegrationsSettings(new) PROVE LockInv'
    BY <1>2 DEF NM!UpdateIntegrationsSettings, NM!Completed, NM!Settings
<1>3. CASE NM!Start
    BY <1>3 DEF NM!Start, NM!Return
<1>4. CASE NM!InitBot
    BY <1>4 DEF NM!InitBot, NM!Return
<1>5. CASE NM!InitWebhook
    BY <1>5 DEF NM!InitWebhook, NM!Return
<1>6. CASE NM!Restart
    BY <1>6 DEF NM!Restart
<1>7. QED
    BY <1>1, <1>2, <1>3, <1>4, <1>5, <1>6
       DEF NM!Next, NM!Loop, NM!Updater, NM!ChangeNodes, NM!ChangeConnection, NM!Tick,
           NM!Fetch, NM!Check, NM!Record, NM!NotifyEvent, NM!Publish, NM!EndGrace, NM!vars

-----------------------------------------------------------------------------
MonitorInv == TypeInv /\ NewsInv /\ LockInv

LEMMA MonitorInit == InitFleet => MonitorInv
BY TypesInit, NewsInit DEF InitFleet, MonitorInv, LockInv, NM!Init

(* A step of the fleet is one of the monitor, or changes nothing it has.   *)
LEMMA FleetStep ==
    ASSUME [NextFleet]_allVars
    PROVE  [NM!Next]_(NM!vars)
BY DEF NextFleet, OnlyHub, OnlyMonitor, allVars, monitorVars,
       NM!vars, NM!world, NM!monitor, NM!loop, NM!bot, NM!history

LEMMA MonitorInvariant == SpecFleet => []MonitorInv
<1>1. MonitorInv /\ [NextFleet]_allVars => MonitorInv'
    BY FleetStep, TypesStep, NewsStep, LockStep DEF MonitorInv
<1>2. QED
    BY MonitorInit, <1>1, PTL DEF SpecFleet

(* What the monitor keeps is of its type, with any number of nodes; a      *)
(* change that is counted has not reached the debounce count.              *)
THEOREM MonitorTyped == SpecFleet => []MonitorTypeOK
<1>1. MonitorInv => MonitorTypeOK
    BY DEF MonitorInv, TypeInv, MonitorTypeOK
<1>2. QED
    BY MonitorInvariant, <1>1, PTL

(* With any number of nodes and any debounce count, an event is made only  *)
(* of a change that the last DebounceCount checks of its node have all     *)
(* seen, and that was not known before.                                    *)
THEOREM ChangesAreStable == SpecFleet => []OnlyStableChanges
<1>1. MonitorInv => OnlyStableChanges
    <2> SUFFICES ASSUME TypeInv, NewsInv, NEW n \in events
                 PROVE  told[n] # seen[n] /\ news[n] = DebounceCount
        BY DEF MonitorInv, OnlyStableChanges, NM!OnlyStableChanges
    <2>1. n \in Names
        BY DEF TypeInv, NM!TypeOK
    <2>2. QED
        BY <2>1 DEF NewsInv, Agrees
<1>2. QED
    BY MonitorInvariant, <1>1, PTL

(* The goroutine that reloads the bot never waits for the manager's lock   *)
(* that its own caller holds.                                              *)
THEOREM ReloadsGoOn == SpecFleet => []NoSelfDeadlock
<1>1. MonitorInv => NoSelfDeadlock
    BY DEF MonitorInv, LockInv, NoSelfDeadlock, NM!NoSelfDeadlock, NM!NeedsManagerMu
<1>2. QED
    BY MonitorInvariant, <1>1, PTL
=============================================================================
