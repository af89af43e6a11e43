------------------------------ MODULE AgentHub ------------------------------
(***************************************************************************)
(* The registry of agent connections (internal/agent: hub.go, conn.go)     *)
(* with what creates, replaces and removes its entries: the WebSocket      *)
(* handler, one goroutine per connection that authenticates, registers and *)
(* then reads; the goroutines that close connections; and the manager's    *)
(* operations on agent tokens and nodes.                                   *)
(***************************************************************************)
EXTENDS Naturals, FiniteSets

CONSTANTS
    Names,     \* node names
    Conns,     \* connection objects; one is used again once it is closed
    None

ASSUME NoneAssumption == None \notin Names \cup Conns

VARIABLES
    mode,         \* config: "agent" or "ssh", or "gone" when there is no such node
    hasToken,     \* config: does the node have an agent token
    uninstall,    \* UninstallAgent of each node: "no", "revoked", "done"
    status,       \* where the handler of each connection is
    name,         \* the node a connection authenticated as
    sawAgent,     \* was that node in agent mode when its token was looked up
    inHand,       \* is the reader holding a telemetry report it has not yet stored
    closing,      \* how far Close has got with each connection
    connections,  \* hub: the active connection of each name
    telemetry     \* hub: is a telemetry report cached

config == <<mode, hasToken, uninstall>>
handler == <<status, name, sawAgent, inHand>>
hub == <<connections, telemetry>>
vars == <<config, handler, closing, hub>>

TypeOK ==
    /\ mode \in [Names -> {"agent", "ssh", "gone"}]
    /\ hasToken \in [Names -> BOOLEAN]
    /\ uninstall \in [Names -> {"no", "revoked", "done"}]
    /\ status \in [Conns -> {"none", "known", "registered", "reading"}]
    /\ name \in [Conns -> Names \cup {None}]
    /\ \A c \in Conns : status[c] # "none" \/ closing[c] # "no" => name[c] \in Names
    /\ sawAgent \in [Conns -> BOOLEAN]
    /\ inHand \in [Conns -> BOOLEAN]
    /\ closing \in [Conns -> {"no", "asked", "shut", "closed"}]
    /\ connections \in [Names -> Conns \cup {None}]
    /\ telemetry \in [Names -> BOOLEAN]

Init ==
    /\ mode \in [Names -> {"ssh", "gone"}]
    /\ hasToken = [n \in Names |-> FALSE]
    /\ uninstall = [n \in Names |-> "no"]
    /\ status = [c \in Conns |-> "none"]
    /\ name = [c \in Conns |-> None]
    /\ sawAgent = [c \in Conns |-> FALSE]
    /\ inHand = [c \in Conns |-> FALSE]
    /\ closing = [c \in Conns |-> "no"]
    /\ connections = [n \in Names |-> None]
    /\ telemetry = [n \in Names |-> FALSE]

(***************************************************************************)
(* handleAgentWebSocket.                                                   *)
(***************************************************************************)

(* FindNodeByAgentToken returns a copy of the node.                        *)
FindNodeByAgentToken(c, n) ==
    /\ status[c] = "none"
    /\ closing[c] = "no"
    /\ hasToken[n]
    /\ status' = [status EXCEPT ![c] = "known"]
    /\ name' = [name EXCEPT ![c] = n]
    /\ sawAgent' = [sawAgent EXCEPT ![c] = mode[n] = "agent"]
    /\ UNCHANGED <<config, inHand, closing, hub>>

UpgradeFails(c) ==
    /\ status[c] = "known"
    /\ status' = [status EXCEPT ![c] = "none"]
    /\ name' = [name EXCEPT ![c] = None]
    /\ UNCHANGED <<config, sawAgent, inHand, closing, hub>>

(* Close runs once: asking again for a close under way changes nothing.    *)
AskClose(c) == closing' = [closing EXCEPT ![c] = IF @ = "no" THEN "asked" ELSE @]

(* A mutant: the replaced connection stays open.                           *)
RegisterOnly(c) ==
    /\ status[c] = "known"
    /\ status' = [status EXCEPT ![c] = "registered"]
    /\ connections' = [connections EXCEPT ![name[c]] = c]
    /\ UNCHANGED <<config, name, sawAgent, inHand, closing, telemetry>>

Register(c) ==
    LET old == connections[name[c]] IN
    /\ status[c] = "known"
    /\ status' = [status EXCEPT ![c] = "registered"]
    /\ IF old \notin {None, c} THEN AskClose(old) ELSE UNCHANGED closing
    /\ connections' = [connections EXCEPT ![name[c]] = c]
    /\ UNCHANGED <<config, name, sawAgent, inHand, telemetry>>

(* SetNodeMode, when the copy of the node was not in agent mode.           *)
StartReading(c) ==
    /\ status[c] = "registered"
    /\ status' = [status EXCEPT ![c] = "reading"]
    /\ mode' = IF sawAgent[c] \/ mode[name[c]] = "gone" THEN mode
               ELSE [mode EXCEPT ![name[c]] = "agent"]
    /\ UNCHANGED <<hasToken, uninstall, name, sawAgent, inHand, closing, hub>>

(* ReadLoop reads a telemetry report, and stores it.  (Heartbeats only set *)
(* the time of the last sign of life; commands and answers are AgentSync.) *)
Read(c) ==
    /\ status[c] = "reading"
    /\ closing[c] \in {"no", "asked"}
    /\ ~inHand[c]
    /\ inHand' = [inHand EXCEPT ![c] = TRUE]
    /\ UNCHANGED <<config, status, name, sawAgent, closing, hub>>

UpdateTelemetry(c) ==
    /\ inHand[c]
    /\ telemetry' = [telemetry EXCEPT ![name[c]] = TRUE]
    /\ inHand' = [inHand EXCEPT ![c] = FALSE]
    /\ UNCHANGED <<config, status, name, sawAgent, closing, connections>>

(* A mutant: the name is gone before Close can unregister it.              *)
ReadFailsNameless(c) ==
    /\ status[c] = "reading"
    /\ ~inHand[c]
    /\ status' = [status EXCEPT ![c] = "none"]
    /\ name' = [name EXCEPT ![c] = None]
    /\ AskClose(c)
    /\ UNCHANGED <<config, sawAgent, inHand, hub>>

(* Reading fails: the peer went away, 60 seconds passed in silence, or the *)
(* socket was shut.  The deferred Close follows.                           *)
ReadFails(c) ==
    /\ status[c] = "reading"
    /\ ~inHand[c]
    /\ status' = [status EXCEPT ![c] = "none"]
    /\ AskClose(c)
    /\ UNCHANGED <<config, name, sawAgent, inHand, hub>>

(***************************************************************************)
(* Close: shut the socket, Unregister, fail the pending commands.          *)
(***************************************************************************)
ShutSocket(c) ==
    /\ closing[c] = "asked"
    /\ closing' = [closing EXCEPT ![c] = "shut"]
    /\ UNCHANGED <<config, handler, hub>>

(* A mutant: whatever connection is registered is removed.                 *)
UnregisterName(c) ==
    /\ closing[c] = "shut"
    /\ closing' = [closing EXCEPT ![c] = "closed"]
    /\ connections' = [connections EXCEPT ![name[c]] = None]
    /\ UNCHANGED <<config, handler, telemetry>>

Unregister(c) ==
    /\ closing[c] = "shut"
    /\ closing' = [closing EXCEPT ![c] = "closed"]
    /\ connections' = IF connections[name[c]] = c
                      THEN [connections EXCEPT ![name[c]] = None] ELSE connections
    /\ UNCHANGED <<config, handler, telemetry>>

(* The object is garbage once its handler has returned too.                *)
Forget(c) ==
    /\ closing[c] = "closed"
    /\ status[c] = "none"
    /\ closing' = [closing EXCEPT ![c] = "no"]
    /\ name' = [name EXCEPT ![c] = None]
    /\ UNCHANGED <<config, status, sawAgent, inHand, hub>>

(***************************************************************************)
(* The manager.                                                            *)
(***************************************************************************)
AddNode(n) ==
    /\ mode[n] = "gone"
    /\ mode' = [mode EXCEPT ![n] = "ssh"]
    /\ UNCHANGED <<hasToken, uninstall, handler, closing, hub>>

(* A new token does not end connections that came with the old one.        *)
GenerateAgentToken(n) ==
    /\ mode[n] # "gone"
    /\ mode' = [mode EXCEPT ![n] = "agent"]
    /\ hasToken' = [hasToken EXCEPT ![n] = TRUE]
    /\ uninstall' = [uninstall EXCEPT ![n] = "no"]
    /\ UNCHANGED <<handler, closing, hub>>

(* UninstallAgent clears the node's agent settings under the manager's     *)
(* lock, and then has the hub remove the node.                             *)
UninstallAgent(n) ==
    /\ mode[n] # "gone"
    /\ mode' = [mode EXCEPT ![n] = "ssh"]
    /\ hasToken' = [hasToken EXCEPT ![n] = FALSE]
    /\ uninstall' = [uninstall EXCEPT ![n] = "revoked"]
    /\ UNCHANGED <<handler, closing, hub>>

RemoveNode(n) ==
    /\ uninstall[n] = "revoked"
    /\ uninstall' = [uninstall EXCEPT ![n] = "done"]
    /\ IF connections[n] # None THEN AskClose(connections[n]) ELSE UNCHANGED closing
    /\ connections' = [connections EXCEPT ![n] = None]
    /\ telemetry' = [telemetry EXCEPT ![n] = FALSE]
    /\ UNCHANGED <<mode, hasToken, handler>>

(* DeleteNode and RenameNode leave the hub alone.                          *)
DeleteNode(n) ==
    /\ mode[n] # "gone"
    /\ mode' = [mode EXCEPT ![n] = "gone"]
    /\ hasToken' = [hasToken EXCEPT ![n] = FALSE]
    /\ uninstall' = [uninstall EXCEPT ![n] = "no"]
    /\ UNCHANGED <<handler, closing, hub>>

RenameNode(n, m) ==
    /\ mode[n] # "gone" /\ mode[m] = "gone"
    /\ mode' = [mode EXCEPT ![m] = mode[n], ![n] = "gone"]
    /\ hasToken' = [hasToken EXCEPT ![m] = hasToken[n], ![n] = FALSE]
    /\ uninstall' = [uninstall EXCEPT ![n] = "no"]
    /\ UNCHANGED <<handler, closing, hub>>

Connection(c) ==
    \/ \E n \in Names : FindNodeByAgentToken(c, n)
    \/ UpgradeFails(c)
    \/ Register(c)
    \/ StartReading(c)
    \/ Read(c)
    \/ UpdateTelemetry(c)
    \/ ReadFails(c)
    \/ ShutSocket(c)
    \/ Unregister(c)
    \/ Forget(c)

Manager ==
    \E n \in Names :
        \/ AddNode(n)
        \/ GenerateAgentToken(n)
        \/ UninstallAgent(n)
        \/ RemoveNode(n)
        \/ DeleteNode(n)
        \/ \E m \in Names : RenameNode(n, m)

Next == Manager \/ \E c \in Conns : Connection(c)

(* Every goroutine goes on: a handler that has found its node registers    *)
(* and reads or gives up, messages read are handled, a reader whose socket *)
(* was shut notices, and a close that was asked for is carried out.        *)
Fairness ==
    \A c \in Conns :
        /\ WF_vars(Register(c) \/ StartReading(c))
        /\ WF_vars(UpdateTelemetry(c))
        /\ WF_vars(closing[c] \in {"shut", "closed"} /\ ReadFails(c))
        /\ WF_vars(ShutSocket(c) \/ Unregister(c))

Spec == Init /\ [][Next]_vars /\ Fairness

-----------------------------------------------------------------------------
(* The close of a connection that was replaced never takes its successor   *)
(* out of the registry, in whatever order the goroutines run: a connection *)
(* that is being read, and that nothing is closing, is the one the hub     *)
(* dispatches commands to.                                                 *)
OpenIsRegistered ==
    \A c \in Conns :
        status[c] \in {"registered", "reading"} /\ closing[c] = "no" => connections[name[c]] = c

(* And a connection that was replaced or removed ends: its socket is shut  *)
(* and its reader returns, so that at most one agent is left per name.     *)
ReplacedEnds ==
    \A c \in Conns :
        (status[c] = "reading" /\ connections[name[c]] # c) ~> (status[c] = "none")

(* "UninstallAgent removes the agent configuration and records for a node  *)
(* from the easy42 backend, closes any active agent connection": once it   *)
(* has returned, and until a new token is made, the node is an SSH node    *)
(* of which the hub has neither a connection nor telemetry.                *)
UninstalledStaysOut ==
    \A n \in Names :
        uninstall[n] = "done" => mode[n] = "ssh" /\ connections[n] = None /\ ~telemetry[n]
=============================================================================
