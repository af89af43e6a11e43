----------------------------- MODULE MeshClient -----------------------------
(***************************************************************************)
(* One browser page of the web client (context/MeshContext.tsx) and the    *)
(* server's hub of such pages (internal/server/ws.go): how the page comes  *)
(* to know the topology and the state of the key vault.  The page asks for *)
(* everything with loadData, and is told over a WebSocket when to ask      *)
(* again.  Requests are answered, and answers arrive, in any order.        *)
(*                                                                         *)
(* The topology is its version.  The drawers, which loadData closes when   *)
(* their node or link is gone, and the counter of unread events, which a   *)
(* poll repairs every 6 s, are left out.  "budget" bounds the changes and  *)
(* faults of a behaviour.                                                  *)
(***************************************************************************)
EXTENDS Integers, Sequences, FiniteSets

CONSTANTS
    MaxVersion,   \* the last version of the topology
    Budgets,      \* how many changes, vault turns, breaks and user actions there may be
    LoadIds,      \* the loads that may be under way at a time
    LoadsFail     \* whether a load may fail

ASSUME VersionAssumption == MaxVersion \in Nat

Versions == 0..MaxVersion

VARIABLES
    version,        \* the version of the topology on the server
    unlocked,       \* the state of the vault
    notices,        \* what was changed and not yet given to the hub
    queue,          \* the hub's broadcast channel
    registered,     \* this page's connection at the hub
    greeted,        \* whether the connection was greeted and its pumps run
    wire,           \* messages on their way to the page, in order
    budget
server == <<version, unlocked, notices, queue, registered, greeted, wire, budget>>

VARIABLES
    authenticated,  \* "checking", "no" or "yes"
    isUnlocked,     \* what the page shows of the vault
    nodes,          \* the version of the topology the page shows
    loads,          \* the loads under way
    timer,          \* whether the reload is debounced (reloadDebounceTimer)
    isReloading,    \* isReloadingRef
    pendingReload,  \* pendingReloadRef
    socket,         \* "off", "connecting", "open" or "waiting" to reconnect
    requests,       \* the unlock, lock and status requests under way
    asked           \* history: a load was started since the last change
page == <<authenticated, isUnlocked, nodes, loads, timer, isReloading,
          pendingReload, socket, requests, asked>>
vars == <<server, page>>

NoLoad == [on |-> FALSE, got |-> -1, debounced |-> FALSE]
Started(debounced) == [on |-> TRUE, got |-> -1, debounced |-> debounced]
Message(type, value) == [type |-> type, unlocked |-> value]
Messages == [type : {"cluster_updated", "vault_state_changed", "connected"}, unlocked : BOOLEAN]
NoRequest == [at |-> "none", value |-> FALSE]

TypeOK ==
    /\ version \in Versions /\ unlocked \in BOOLEAN /\ notices \subseteq Messages
    /\ queue \in Seq(Messages) /\ wire \in Seq(Messages)
    /\ registered \in {"no", "queued", "yes"} /\ greeted \in BOOLEAN
    /\ authenticated \in {"checking", "no", "yes"} /\ isUnlocked \in BOOLEAN
    /\ nodes \in Versions \cup {-1}
    /\ loads \in [LoadIds -> [on : BOOLEAN, got : Versions \cup {-1}, debounced : BOOLEAN]]
    /\ timer \in BOOLEAN /\ isReloading \in BOOLEAN /\ pendingReload \in BOOLEAN
    /\ socket \in {"off", "connecting", "open", "waiting"}
    /\ requests \in [{"status", "unlock", "lock", "logout", "login"} ->
                        [at : {"none", "sent", "answered"}, value : BOOLEAN]]
    /\ asked \in BOOLEAN

Init ==
    /\ version = 0 /\ unlocked \in BOOLEAN /\ notices = {} /\ queue = <<>>
    /\ registered = "no" /\ greeted = FALSE /\ wire = <<>> /\ budget \in Budgets
    /\ authenticated = "checking" /\ isUnlocked = FALSE /\ nodes = -1
    /\ loads = [l \in LoadIds |-> NoLoad]
    /\ timer = FALSE /\ isReloading = FALSE /\ pendingReload = FALSE
    /\ socket = "off" /\ asked = FALSE
    /\ requests = [[r \in {"status", "unlock", "lock", "logout", "login"} |-> NoRequest]
                       EXCEPT !["status"].at = "sent"]

Spend(what) == budget[what] > 0 /\ budget' = [budget EXCEPT ![what] = @ - 1]

-----------------------------------------------------------------------------
(* The server                                                              *)

(* A change of the topology; the store then calls its listeners.           *)
Change ==
    /\ Spend("changes") /\ version + 1 \in Versions
    /\ version' = version + 1
    /\ notices' = notices \cup {Message("cluster_updated", FALSE)}
    /\ asked' = FALSE
    /\ UNCHANGED <<unlocked, queue, registered, greeted, wire, authenticated, isUnlocked, nodes,
                   loads, timer, isReloading, pendingReload, socket, requests>>

(* unlockVaultAndNotify and lockVaultAndNotify: the vault turns, and       *)
(* afterwards the pages are told, with no lock held over the two.          *)
Turn(to) ==
    /\ unlocked' = to
    /\ notices' = notices \cup {Message("vault_state_changed", to)}

TurnElsewhere ==
    /\ Spend("turns")
    /\ Turn(~unlocked)
    /\ UNCHANGED <<version, queue, registered, greeted, wire, page>>

Broadcast(m) ==
    /\ m \in notices
    /\ notices' = notices \ {m} /\ queue' = Append(queue, m)
    /\ UNCHANGED <<version, unlocked, registered, greeted, wire, budget, page>>

(* run(): the hub takes registrations and broadcasts in any order.         *)
Register ==
    /\ registered = "queued" /\ registered' = "yes"
    /\ UNCHANGED <<version, unlocked, notices, queue, greeted, wire, budget, page>>

Dispatch ==
    /\ queue # <<>> /\ queue' = Tail(queue)
    /\ wire' = IF registered = "yes" THEN Append(wire, Head(queue)) ELSE wire
    /\ UNCHANGED <<version, unlocked, notices, registered, greeted, budget, page>>

(* handleClientWebSocket: the registration is queued, then the vault is    *)
(* read for the greeting, which is written before the pumps start.         *)
Upgrade ==
    /\ socket = "connecting" /\ registered = "no"
    /\ registered' = "queued" /\ greeted' = FALSE
    /\ UNCHANGED <<version, unlocked, notices, queue, wire, budget, page>>

Greet ==
    /\ registered # "no" /\ ~greeted /\ greeted' = TRUE
    /\ wire' = <<Message("connected", unlocked)>> \o wire
    /\ UNCHANGED <<version, unlocked, notices, queue, registered, budget, page>>

-----------------------------------------------------------------------------
(* The page: loads                                                         *)

Free == {l \in LoadIds : ~loads[l].on}

(* loadData, on behalf of the debounced reload or of anything else.        *)
LoadData(debounced) ==
    \E l \in Free : loads' = [loads EXCEPT ![l] = Started(debounced)] /\ asked' = TRUE

ServerAnswers(l) ==
    /\ loads[l].on /\ loads[l].got = -1
    /\ loads' = [loads EXCEPT ![l].got = version]
    /\ UNCHANGED <<server, authenticated, isUnlocked, nodes, timer, isReloading,
                   pendingReload, socket, requests, asked>>

(* What follows a load: the debounced one is done, and loads once more if  *)
(* a reload came due meanwhile; that one is not marked as reloading.       *)
Finally(l) ==
    IF loads[l].debounced
    THEN /\ isReloading' = FALSE /\ pendingReload' = FALSE
         /\ loads' = [loads EXCEPT ![l] = IF pendingReload THEN Started(FALSE) ELSE NoLoad]
         /\ asked' = (asked \/ pendingReload)
    ELSE /\ loads' = [loads EXCEPT ![l] = NoLoad]
         /\ UNCHANGED <<isReloading, pendingReload, asked>>

(* The answers are shown, whatever is shown already.                       *)
LoadArrives(l) ==
    /\ loads[l].on /\ loads[l].got # -1
    /\ nodes' = loads[l].got
    /\ Finally(l)
    /\ UNCHANGED <<server, authenticated, isUnlocked, timer, socket, requests>>

LoadFails(l) ==
    /\ LoadsFail /\ loads[l].on
    /\ Finally(l)
    /\ UNCHANGED <<server, authenticated, isUnlocked, nodes, timer, socket, requests>>

(* A mutant: a reload starts while another is under way.                   *)
DebounceEndsAnyway ==
    /\ timer /\ timer' = FALSE /\ registered # "queued"
    /\ isReloading' = TRUE /\ LoadData(TRUE)
    /\ UNCHANGED <<server, authenticated, isUnlocked, nodes, pendingReload, socket, requests>>

(* scheduleReload's timer.  It outlasts a logout.                          *)
DebounceEnds ==
    /\ timer /\ timer' = FALSE
    \* registering takes less than the timer's 100 ms
    /\ registered # "queued"
    /\ \/ isReloading /\ pendingReload' = TRUE /\ UNCHANGED <<isReloading, loads, asked>>
       \/ ~isReloading /\ isReloading' = TRUE /\ LoadData(TRUE) /\ UNCHANGED pendingReload
    /\ UNCHANGED <<server, authenticated, isUnlocked, nodes, socket, requests>>

-----------------------------------------------------------------------------
(* The page: its WebSocket                                                 *)

(* A mutant: what changed while there was no connection is not asked for.  *)
SocketOpensQuietly ==
    /\ socket = "connecting" /\ registered # "no"
    /\ socket' = "open"
    /\ UNCHANGED <<server, authenticated, isUnlocked, nodes, loads, timer, isReloading,
                   pendingReload, requests, asked>>

(* Open, the page loads: it missed what was told while it was not.         *)
SocketOpens ==
    /\ socket = "connecting" /\ registered # "no"
    /\ socket' = "open" /\ timer' = TRUE
    /\ UNCHANGED <<server, authenticated, isUnlocked, nodes, loads, isReloading,
                   pendingReload, requests, asked>>

OnMessage ==
    /\ socket = "open" /\ wire # <<>> /\ greeted
    /\ wire' = Tail(wire)
    /\ IF Head(wire).type = "cluster_updated"
       THEN timer' = TRUE /\ UNCHANGED isUnlocked
       ELSE isUnlocked' = Head(wire).unlocked /\ UNCHANGED timer
    /\ UNCHANGED <<version, unlocked, notices, queue, registered, greeted, budget, authenticated,
                   nodes, loads, isReloading, pendingReload, socket, requests, asked>>

(* The connection breaks, and what was on its way is lost; the page tries  *)
(* again after a delay.                                                    *)
OnClose ==
    /\ Spend("breaks") /\ socket \in {"connecting", "open"}
    /\ socket' = "waiting" /\ registered' = "no" /\ wire' = <<>> /\ greeted' = FALSE
    /\ UNCHANGED <<version, unlocked, notices, queue, authenticated, isUnlocked, nodes,
                   loads, timer, isReloading, pendingReload, requests, asked>>

Reconnect ==
    /\ socket = "waiting" /\ socket' = "connecting"
    /\ UNCHANGED <<server, authenticated, isUnlocked, nodes, loads, timer,
                   isReloading, pendingReload, requests, asked>>

-----------------------------------------------------------------------------
(* The page: session and vault                                             *)

ServerAnswer(r) == requests[r].at = "sent" /\ requests' = [requests EXCEPT ![r] = [at |-> "answered", value |-> unlocked']]
Arrived(r) == requests[r].at = "answered" /\ requests' = [requests EXCEPT ![r] = NoRequest]

(* The status of the session; the server unlocks the vault at a login and  *)
(* locks it at a logout.                                                   *)
HandleAuthStatus ==
    /\ UNCHANGED <<unlocked, notices>>
    /\ ServerAnswer("status")
HandleUnlock(r) == r \in {"unlock", "login"} /\ Turn(TRUE) /\ ServerAnswer(r)
HandleLock(r) == r \in {"lock", "logout"} /\ Turn(FALSE) /\ ServerAnswer(r)
HandleSession ==
    /\ HandleAuthStatus \/ (\E r \in DOMAIN requests : HandleUnlock(r) \/ HandleLock(r))
    /\ UNCHANGED <<version, queue, registered, greeted, wire, budget, authenticated, isUnlocked,
                   nodes, loads, timer, isReloading, pendingReload, socket, asked>>

(* authenticated turns true: its effects load everything and connect.      *)
CheckAuth ==
    /\ authenticated = "checking" /\ Arrived("status")
    /\ authenticated' = "yes" /\ isUnlocked' = requests["status"].value
    /\ LoadData(FALSE) /\ socket' = "connecting"
    /\ UNCHANGED <<server, nodes, timer, isReloading, pendingReload>>

(* The status request fails, or there is no session.                       *)
NotAuthenticated ==
    /\ authenticated = "checking"
    /\ authenticated' = "no" /\ isUnlocked' = FALSE
    /\ requests' = [requests EXCEPT !["status"] = NoRequest]
    /\ UNCHANGED <<server, nodes, loads, timer, isReloading, pendingReload, socket,
                   asked>>

(* A button of the login page, the unlock dialog or the top bar.           *)
Submit(r) ==
    /\ Spend("clicks") /\ requests[r] = NoRequest
    /\ CASE r = "login" -> authenticated = "no"
         [] r = "unlock" -> authenticated = "yes" /\ ~isUnlocked
         [] r = "lock" -> authenticated = "yes" /\ isUnlocked
         [] r = "logout" -> authenticated = "yes"
         [] OTHER -> FALSE
    /\ requests' = [requests EXCEPT ![r].at = "sent"]
    /\ UNCHANGED <<version, unlocked, notices, queue, registered, greeted, wire, authenticated,
                   isUnlocked, nodes, loads, timer, isReloading, pendingReload,
                   socket, asked>>

(* The login page loads everything, and so does the effect.                *)
OnLoginSuccess ==
    /\ Arrived("login") /\ authenticated = "no"
    /\ authenticated' = "yes" /\ socket' = "connecting"
    /\ \E l, k \in Free : l # k /\ loads' = [loads EXCEPT ![l] = Started(FALSE), ![k] = Started(FALSE)]
    /\ asked' = TRUE
    /\ UNCHANGED <<server, isUnlocked, nodes, timer, isReloading, pendingReload>>

OnUnlocked ==
    /\ Arrived("unlock")
    /\ isUnlocked' = TRUE /\ LoadData(FALSE)
    /\ UNCHANGED <<server, authenticated, nodes, timer, isReloading, pendingReload,
                   socket>>

OnLocked ==
    /\ Arrived("lock")
    /\ isUnlocked' = FALSE
    /\ UNCHANGED <<server, authenticated, nodes, loads, timer, isReloading,
                   pendingReload, socket, asked>>

(* The effect that connected cleans up after itself.                       *)
HandleLogout ==
    /\ Arrived("logout")
    /\ authenticated' = "no" /\ isUnlocked' = FALSE
    /\ socket' = "off" /\ registered' = "no" /\ wire' = <<>> /\ greeted' = FALSE
    /\ UNCHANGED <<version, unlocked, notices, queue, budget, nodes, loads, timer,
                   isReloading, pendingReload, asked>>

-----------------------------------------------------------------------------
Next ==
    \/ Change \/ TurnElsewhere \/ Register \/ Dispatch \/ Upgrade \/ Greet
    \/ \E m \in Messages : Broadcast(m)
    \/ \E l \in LoadIds : ServerAnswers(l) \/ LoadArrives(l) \/ LoadFails(l)
    \/ DebounceEnds \/ SocketOpens \/ OnMessage \/ OnClose \/ Reconnect
    \/ HandleSession \/ CheckAuth \/ NotAuthenticated
    \/ \E r \in DOMAIN requests : Submit(r)
    \/ OnLoginSuccess \/ OnUnlocked \/ OnLocked \/ HandleLogout

Spec == Init /\ [][Next]_vars

-----------------------------------------------------------------------------
(* Nothing is under way: no message, no timer, no load, no request, on a   *)
(* page that is logged in and connected.                                   *)
Quiet ==
    /\ authenticated = "yes" /\ socket = "open" /\ registered = "yes" /\ greeted
    /\ notices = {} /\ queue = <<>> /\ wire = <<>> /\ ~timer
    /\ \A l \in LoadIds : ~loads[l].on
    /\ \A r \in DOMAIN requests : requests[r].at = "none"

(* Debouncing, reconnecting and the two flags of scheduleReload never lose *)
(* a change: when all is quiet, a load was started after the last one.     *)
NoChangeMissed == Quiet => asked

(* A reload that came due during another is never forgotten: the load that *)
(* will start it is still under way, and there is one such load only.      *)
PendingIsServed ==
    /\ pendingReload => isReloading
    /\ isReloading => \E l \in LoadIds : loads[l].on /\ loads[l].debounced
    /\ \A l, k \in LoadIds : loads[l].debounced /\ loads[k].debounced => l = k

(* MeshContext.tsx:477: "Real-time WebSocket connection to keep frontend   *)
(* state in sync with backend and other instances": when all is quiet the  *)
(* page shows the topology of the server.  False: answers of two loads     *)
(* that overlap arrive in any order, and a load that fails is not repeated.*)
TopologyInSync == Quiet => nodes = version

(* ws.go:278: pages are told of the vault "so their UI stays in sync".     *)
(* False: the answer to a request, or the news of another turn, may be     *)
(* older than what the page was told before.                               *)
VaultInSync == Quiet => isUnlocked = unlocked
=============================================================================
