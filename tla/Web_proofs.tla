----------------------------- MODULE Web_proofs -----------------------------
(* Theorems about the web client: of the page's copy of the topology, for   *)
(* every number of versions and of loads; and of its screens, whose         *)
(* invariants WebDialogs_proofs and WebPages_proofs show, put together.     *)
EXTENDS Web, WebDialogs_proofs, WebPages_proofs

USE VersionAssumption

-----------------------------------------------------------------------------
(***************************************************************************)
(* MeshClient: the flags of scheduleReload. A load that says it is the     *)
(* debounced one is under way and marked so by isReloading.                *)
(***************************************************************************)
Asks == {"status", "unlock", "lock", "logout", "login"}
Load == [on : BOOLEAN, got : Versions \cup {-1}, debounced : BOOLEAN]

Marked == \A l \in LoadIds : loads[l].debounced => loads[l].on /\ isReloading
FlagsInv == TypeOK /\ PendingIsServed /\ Marked

LEMMA LoadDataKeepsFlags ==
    ASSUME FlagsInv, LoadData(FALSE), UNCHANGED <<isReloading, pendingReload>>
    PROVE  PendingIsServed' /\ Marked' /\ loads' \in [LoadIds -> Load]
BY DEF FlagsInv, TypeOK, PendingIsServed, Marked, LoadData, Free, Started, Load

LEMMA FinallyKeepsFlags ==
    ASSUME FlagsInv, NEW l \in LoadIds, loads[l].on, Finally(l)
    PROVE  /\ PendingIsServed' /\ Marked' /\ loads' \in [LoadIds -> Load]
           /\ isReloading' \in BOOLEAN /\ pendingReload' \in BOOLEAN /\ asked' \in BOOLEAN
<1> USE DEF FlagsInv, TypeOK, PendingIsServed, Marked, Load
<1>1. CASE loads[l].debounced
  <2>1. /\ isReloading' = FALSE /\ pendingReload' = FALSE /\ asked' = (asked \/ pendingReload)
        /\ loads' = [loads EXCEPT ![l] = IF pendingReload THEN Started(FALSE) ELSE NoLoad]
    BY <1>1 DEF Finally
  <2>2. loads' \in [LoadIds -> Load]
    BY <2>1 DEF Started, NoLoad
  <2>3. \A k \in LoadIds : ~loads'[k].debounced
    BY <1>1, <2>1 DEF Started, NoLoad
  <2> QED BY <2>1, <2>2, <2>3
<1>2. CASE ~loads[l].debounced
  <2>1. loads' = [loads EXCEPT ![l] = NoLoad] /\ UNCHANGED <<isReloading, pendingReload, asked>>
    BY <1>2 DEF Finally
  <2>2. loads' \in [LoadIds -> Load]
    BY <2>1 DEF NoLoad
  <2>3. \A k \in LoadIds : IF k = l THEN ~loads'[k].debounced ELSE loads'[k] = loads[k]
    BY <2>1 DEF NoLoad
  <2>4. PendingIsServed' /\ Marked'
    BY <1>2, <2>1, <2>3
  <2> QED BY <2>1, <2>2, <2>4
<1> QED BY <1>1, <1>2

(* The steps of the server and of the socket leave the loads alone.        *)
ServerSteps == Change \/ TurnElsewhere \/ Register \/ Dispatch \/ Upgrade \/ Greet
                 \/ (\E m \in Messages : Broadcast(m)) \/ HandleSession
SocketSteps == SocketOpens \/ OnMessage \/ OnClose \/ Reconnect \/ NotAuthenticated
                 \/ (\E r \in DOMAIN requests : Submit(r)) \/ OnLocked \/ HandleLogout
PageSteps == (\E l \in LoadIds : ServerAnswers(l) \/ LoadArrives(l) \/ LoadFails(l))
                 \/ DebounceEnds \/ CheckAuth \/ OnLoginSuccess \/ OnUnlocked

LEMMA MessageTyped ==
    ASSUME NEW t \in {"cluster_updated", "vault_state_changed", "connected"}, NEW b \in BOOLEAN
    PROVE  Message(t, b) \in Messages
BY DEF Message, Messages

LEMMA EmptyTyped == <<>> \in Seq(Messages)
OBVIOUS

LEMMA ServerTypes ==
    ASSUME TypeOK, ServerSteps
    PROVE  TypeOK'
<1>1. CASE Change
  <2>1. version' \in Versions /\ asked' = FALSE
    BY <1>1 DEF Change
  <2>2. notices' = notices \cup {Message("cluster_updated", FALSE)}
    BY <1>1 DEF Change
  <2>3. Message("cluster_updated", FALSE) \in Messages
    BY MessageTyped
  <2>4. UNCHANGED <<unlocked, queue, registered, greeted, wire, authenticated, isUnlocked, nodes,
                    loads, timer, isReloading, pendingReload, socket, requests>>
    BY <1>1 DEF Change
  <2>5. notices' \subseteq Messages /\ asked' \in BOOLEAN
    BY <2>1, <2>2, <2>3 DEF TypeOK
  <2> QED BY <2>1, <2>4, <2>5 DEF TypeOK
<1> USE DEF TypeOK
<1>2. CASE TurnElsewhere
  <2>1. Message("vault_state_changed", ~unlocked) \in Messages
    BY MessageTyped
  <2> QED BY <1>2, <2>1 DEF TurnElsewhere, Turn, page
<1>3. CASE Register
  BY <1>3 DEF Register, page
<1>8. CASE Upgrade
  BY <1>8 DEF Upgrade, page
<1>4. CASE Dispatch
  <2>1. Tail(queue) \in Seq(Messages) /\ Head(queue) \in Messages
    BY <1>4 DEF Dispatch
  <2>2. wire' \in Seq(Messages)
    BY <1>4, <2>1 DEF Dispatch
  <2> QED BY <1>4, <2>1, <2>2 DEF Dispatch, page
<1>5. CASE Greet
  <2>1. Message("connected", unlocked) \in Messages
    BY MessageTyped
  <2>2. wire' \in Seq(Messages)
    BY <1>5, <2>1 DEF Greet
  <2> QED BY <1>5, <2>2 DEF Greet, page
<1>6. CASE \E m \in Messages : Broadcast(m)
  BY <1>6 DEF Broadcast, page
<1>7. CASE HandleSession
  <2>1. unlocked' \in BOOLEAN /\ notices' \subseteq Messages
    BY <1>7, MessageTyped
       DEF HandleSession, HandleAuthStatus, HandleUnlock, HandleLock, Turn
  <2>2. PICK r \in Asks : requests' = [requests EXCEPT ![r] = [at |-> "answered", value |-> unlocked']]
    BY <1>7 DEF HandleSession, HandleAuthStatus, HandleUnlock, HandleLock, ServerAnswer, Asks
  <2>3. requests' \in [Asks -> [at : {"none", "sent", "answered"}, value : BOOLEAN]]
    BY <2>1, <2>2 DEF Asks
  <2> QED BY <1>7, <2>1, <2>3 DEF HandleSession, Asks
<1> QED BY <1>1, <1>2, <1>3, <1>4, <1>5, <1>6, <1>7, <1>8 DEF ServerSteps

LEMMA ServerLeavesFlags ==
    ASSUME ServerSteps
    PROVE  UNCHANGED <<loads, isReloading, pendingReload>>
BY DEF ServerSteps, Change, TurnElsewhere, Register, Dispatch, Upgrade, Greet, Broadcast,
       HandleSession, page

LEMMA SocketTypes ==
    ASSUME TypeOK, SocketSteps
    PROVE  TypeOK' /\ UNCHANGED <<loads, isReloading, pendingReload>>
<1> USE DEF TypeOK
<1>1. CASE SocketOpens
  BY <1>1 DEF SocketOpens, server
<1>8. CASE Reconnect
  BY <1>8 DEF Reconnect, server
<1>2. CASE OnMessage
  <2>1. wire' \in Seq(Messages) /\ Head(wire) \in Messages
    BY <1>2 DEF OnMessage
  <2>2. timer' \in BOOLEAN /\ isUnlocked' \in BOOLEAN
    BY <1>2, <2>1 DEF OnMessage, Messages
  <2> QED BY <1>2, <2>1, <2>2 DEF OnMessage
<1>3. CASE OnClose
  BY <1>3, EmptyTyped DEF OnClose
<1>4. CASE NotAuthenticated
  BY <1>4 DEF NotAuthenticated, NoRequest, server
<1>5. CASE \E r \in DOMAIN requests : Submit(r)
  BY <1>5 DEF Submit
<1>6. CASE OnLocked
  <2>1. requests' \in [Asks -> [at : {"none", "sent", "answered"}, value : BOOLEAN]]
    BY <1>6 DEF OnLocked, Arrived, NoRequest, Asks
  <2>2. isUnlocked' = FALSE
        /\ UNCHANGED <<server, authenticated, nodes, loads, timer, isReloading, pendingReload,
                       socket, asked>>
    BY <1>6 DEF OnLocked
  <2>3. UNCHANGED <<version, unlocked, notices, queue, registered, greeted, wire>>
    BY <2>2 DEF server
  <2>4. isUnlocked' \in BOOLEAN
    BY <2>2
  <2> QED BY <2>1, <2>2, <2>3, <2>4 DEF Asks
<1>7. CASE HandleLogout
  <2>1. requests' \in [Asks -> [at : {"none", "sent", "answered"}, value : BOOLEAN]]
    BY <1>7 DEF HandleLogout, Arrived, NoRequest, Asks
  <2>2. /\ authenticated' = "no" /\ isUnlocked' = FALSE
        /\ socket' = "off" /\ registered' = "no" /\ wire' = <<>> /\ greeted' = FALSE
        /\ UNCHANGED <<version, unlocked, notices, queue, nodes, loads, timer,
                       isReloading, pendingReload, asked>>
    BY <1>7 DEF HandleLogout
  <2> QED BY <2>1, <2>2, EmptyTyped DEF Asks
<1> QED BY <1>1, <1>2, <1>3, <1>4, <1>5, <1>6, <1>7, <1>8 DEF SocketSteps

LEMMA PageKeepsFlags ==
    ASSUME FlagsInv, PageSteps
    PROVE  FlagsInv'
<1>1. ASSUME NEW l \in LoadIds, ServerAnswers(l) PROVE FlagsInv'
  <2>1. loads' = [loads EXCEPT ![l].got = version] /\ UNCHANGED <<isReloading, pendingReload>>
    BY <1>1 DEF ServerAnswers
  <2>4. UNCHANGED <<server, authenticated, isUnlocked, nodes, timer, isReloading, pendingReload,
                    socket, requests, asked>>
    BY <1>1 DEF ServerAnswers
  <2>6. version \in Versions /\ loads \in [LoadIds -> Load]
    BY DEF FlagsInv, TypeOK, Load
  <2>5. loads' \in [LoadIds -> Load]
    BY <2>1, <2>6 DEF Load
  <2>2. TypeOK'
    BY <2>4, <2>5 DEF FlagsInv, TypeOK, Load, server
  <2>3. PendingIsServed' /\ Marked'
    BY <2>1 DEF FlagsInv, TypeOK, PendingIsServed, Marked
  <2> QED BY <2>2, <2>3 DEF FlagsInv
<1>2. ASSUME NEW l \in LoadIds, LoadArrives(l) \/ LoadFails(l) PROVE FlagsInv'
  <2>1. loads[l].on /\ Finally(l)
    BY <1>2 DEF LoadArrives, LoadFails
  <2>2. /\ PendingIsServed' /\ Marked' /\ loads' \in [LoadIds -> Load]
        /\ isReloading' \in BOOLEAN /\ pendingReload' \in BOOLEAN /\ asked' \in BOOLEAN
    BY <2>1, FinallyKeepsFlags
  <2>3. nodes' \in Versions \cup {-1}
    BY <1>2 DEF FlagsInv, TypeOK, LoadArrives, LoadFails
  <2>4. UNCHANGED <<server, authenticated, isUnlocked, timer, socket, requests>>
    BY <1>2 DEF LoadArrives, LoadFails
  <2> QED BY <2>2, <2>3, <2>4 DEF FlagsInv, TypeOK, Load, server
<1>3. CASE DebounceEnds
  <2>1. CASE isReloading
    BY <1>3, <2>1 DEF DebounceEnds, FlagsInv, TypeOK, PendingIsServed, Marked, server
  <2>2. CASE ~isReloading
    <3>1. PICK l \in Free : loads' = [loads EXCEPT ![l] = Started(TRUE)]
      BY <1>3, <2>2 DEF DebounceEnds, LoadData
    <3>2. loads' \in [LoadIds -> Load]
      BY <3>1 DEF FlagsInv, TypeOK, Started, Free, Load
    <3>3. /\ isReloading' = TRUE /\ asked' = TRUE /\ timer' = FALSE
          /\ UNCHANGED <<server, authenticated, isUnlocked, nodes, socket, requests, pendingReload>>
      BY <1>3, <2>2 DEF DebounceEnds, LoadData
    <3>4. PendingIsServed' /\ Marked'
      BY <2>2, <3>1, <3>3 DEF FlagsInv, TypeOK, PendingIsServed, Marked, Started, Free
    <3> QED BY <3>2, <3>3, <3>4 DEF FlagsInv, TypeOK, Load, server
  <2> QED BY <2>1, <2>2 DEF FlagsInv, TypeOK
<1>4. CASE CheckAuth \/ OnUnlocked
  <2>1. LoadData(FALSE) /\ UNCHANGED <<server, nodes, timer, isReloading, pendingReload>>
    BY <1>4 DEF CheckAuth, OnUnlocked
  <2>2. PendingIsServed' /\ Marked' /\ loads' \in [LoadIds -> Load] /\ asked' = TRUE
    BY <2>1, LoadDataKeepsFlags DEF LoadData
  <2>3. PICK r \in Asks : requests' = [requests EXCEPT ![r] = NoRequest]
    BY <1>4 DEF CheckAuth, OnUnlocked, Arrived, Asks
  <2>4. requests' \in [Asks -> [at : {"none", "sent", "answered"}, value : BOOLEAN]]
    BY <2>3 DEF FlagsInv, TypeOK, NoRequest, Asks
  <2>5. /\ authenticated' \in {"checking", "no", "yes"} /\ isUnlocked' \in BOOLEAN
        /\ socket' \in {"off", "connecting", "open", "waiting"}
    BY <1>4 DEF CheckAuth, OnUnlocked, FlagsInv, TypeOK
  <2> QED BY <2>1, <2>2, <2>4, <2>5 DEF FlagsInv, TypeOK, Load, Asks, server
<1>5. CASE OnLoginSuccess
  <2>1. PICK l \in Free, k \in Free :
           l # k /\ loads' = [loads EXCEPT ![l] = Started(FALSE), ![k] = Started(FALSE)]
    BY <1>5 DEF OnLoginSuccess
  <2>2. UNCHANGED <<isReloading, pendingReload>>
    BY <1>5 DEF OnLoginSuccess
  <2>3. PendingIsServed' /\ Marked' /\ loads' \in [LoadIds -> Load]
    BY <2>1, <2>2 DEF FlagsInv, TypeOK, PendingIsServed, Marked, Free, Started, Load
  <2>4. requests' \in [Asks -> [at : {"none", "sent", "answered"}, value : BOOLEAN]]
    BY <1>5 DEF OnLoginSuccess, Arrived, FlagsInv, TypeOK, NoRequest, Asks
  <2> QED BY <1>5, <2>2, <2>3, <2>4 DEF OnLoginSuccess, FlagsInv, TypeOK, Load, Asks, server
<1> QED BY <1>1, <1>2, <1>3, <1>4, <1>5 DEF PageSteps

LEMMA NextCases ==
    ASSUME Next
    PROVE  ServerSteps \/ SocketSteps \/ PageSteps
BY DEF Next, ServerSteps, SocketSteps, PageSteps

LEMMA FlagsStep ==
    ASSUME FlagsInv, [Next]_vars
    PROVE  FlagsInv'
<1>1. CASE ServerSteps
  BY <1>1, ServerTypes, ServerLeavesFlags DEF FlagsInv, PendingIsServed, Marked
<1>2. CASE SocketSteps
  BY <1>2, SocketTypes DEF FlagsInv, PendingIsServed, Marked
<1>3. CASE PageSteps
  BY <1>3, PageKeepsFlags
<1>4. CASE UNCHANGED vars
  BY <1>4 DEF vars, server, page, FlagsInv, TypeOK, PendingIsServed, Marked
<1> QED BY <1>1, <1>2, <1>3, <1>4, NextCases

LEMMA FlagsInit ==
    ASSUME Init
    PROVE  FlagsInv
<1>1. TypeOK
  <2>1. version \in Versions /\ loads \in [LoadIds -> Load]
    BY DEF Init, Versions, NoLoad, Load
  <2>2. requests \in [Asks -> [at : {"none", "sent", "answered"}, value : BOOLEAN]]
    BY DEF Init, NoRequest, Asks
  <2> QED BY <2>1, <2>2, EmptyTyped DEF Init, TypeOK, Load, Asks
<1>2. PendingIsServed /\ Marked
  BY DEF Init, PendingIsServed, Marked, NoLoad
<1> QED BY <1>1, <1>2 DEF FlagsInv

(* The types of the page and of the hub.                                   *)
THEOREM MeshTyped == Spec => []TypeOK
<1>1. Spec => []FlagsInv
  BY FlagsInit, FlagsStep, PTL DEF Spec
<1> QED BY <1>1, PTL DEF FlagsInv

(* scheduleReload in MeshContext.tsx: a reload that comes due during       *)
(* another is made after it, and there is never a second debounced load.   *)
THEOREM PendingReloadsAreServed == Spec => []PendingIsServed
<1>1. Spec => []FlagsInv
  BY FlagsInit, FlagsStep, PTL DEF Spec
<1> QED BY <1>1, PTL DEF FlagsInv

-----------------------------------------------------------------------------
(***************************************************************************)
(* That no change is missed needs to follow each to the page: while no     *)
(* load was started since, its news is with the store, with the hub, on    *)
(* its way, in the timer or in the flag of a load under way.  The hub      *)
(* drops it only of a page that has yet to open its socket or whose timer, *)
(* set when it opened, still runs.                                         *)
(***************************************************************************)
Tells(s) == \E i \in 1..Len(s) : s[i].type = "cluster_updated"
Joined ==
    /\ socket = "open" => registered # "no"
    /\ socket = "open" /\ registered = "queued" => timer
Coming ==
    \/ asked \/ timer \/ pendingReload
    \/ authenticated # "yes" \/ socket # "open"
    \/ \E m \in notices : m.type = "cluster_updated"
    \/ Tells(queue) \/ Tells(wire)
ComingInv == FlagsInv /\ Joined /\ Coming

LEMMA TellsAppended ==
    ASSUME NEW s \in Seq(Messages), NEW m \in Messages,
           Tells(s) \/ m.type = "cluster_updated"
    PROVE  Tells(Append(s, m))
<1>1. CASE m.type = "cluster_updated"
  <2>1. Append(s, m)[Len(s) + 1] = m /\ Len(Append(s, m)) = Len(s) + 1
    OBVIOUS
  <2> QED BY <1>1, <2>1 DEF Tells
<1>2. CASE Tells(s)
  <2>1. PICK i \in 1..Len(s) : s[i].type = "cluster_updated"
    BY <1>2 DEF Tells
  <2>2. Append(s, m)[i] = s[i] /\ i \in 1..Len(Append(s, m))
    OBVIOUS
  <2> QED BY <2>1, <2>2 DEF Tells
<1> QED BY <1>1, <1>2

LEMMA TellsTail ==
    ASSUME NEW s \in Seq(Messages), s # <<>>, Tells(s)
    PROVE  Head(s).type = "cluster_updated" \/ Tells(Tail(s))
<1>1. PICK i \in 1..Len(s) : s[i].type = "cluster_updated"
  BY DEF Tells
<1>2. CASE i = 1
  BY <1>1, <1>2
<1>3. CASE i # 1
  <2>1. i - 1 \in 1..Len(Tail(s)) /\ Tail(s)[i - 1] = s[i]
    BY <1>3
  <2> QED BY <1>1, <2>1 DEF Tells
<1> QED BY <1>2, <1>3

LEMMA TellsGreeted ==
    ASSUME NEW s \in Seq(Messages), NEW m \in Messages, Tells(s)
    PROVE  Tells(<<m>> \o s)
<1>1. PICK i \in 1..Len(s) : s[i].type = "cluster_updated"
  BY DEF Tells
<1>2. i + 1 \in 1..Len(<<m>> \o s) /\ (<<m>> \o s)[i + 1] = s[i]
  OBVIOUS
<1> QED BY <1>1, <1>2 DEF Tells

LEMMA ServerKeepsComing ==
    ASSUME ComingInv, ServerSteps
    PROVE  Joined' /\ Coming'
<1> USE DEF ComingInv, FlagsInv
<1>1. CASE Change
  <2>1. Message("cluster_updated", FALSE) \in notices' /\ UNCHANGED <<socket, registered, timer>>
    BY <1>1 DEF Change
  <2>2. Message("cluster_updated", FALSE).type = "cluster_updated"
    BY DEF Message
  <2> QED BY <2>1, <2>2 DEF Joined, Coming
<1>2. CASE TurnElsewhere
  <2>1. notices \subseteq notices' /\ UNCHANGED <<queue, registered, wire, page>>
    BY <1>2 DEF TurnElsewhere, Turn
  <2> QED BY <2>1 DEF page, Joined, Coming, Tells
<1>3. CASE Register
  BY <1>3 DEF Register, page, Joined, Coming, Tells
<1>4. CASE Upgrade
  <2>1. UNCHANGED <<notices, queue, wire, page>> /\ registered' = "queued" /\ socket = "connecting"
    BY <1>4 DEF Upgrade
  <2> QED BY <2>1 DEF page, Joined, Coming
<1>5. CASE Dispatch
  <2>1. /\ queue # <<>> /\ queue' = Tail(queue)
        /\ wire' = IF registered = "yes" THEN Append(wire, Head(queue)) ELSE wire
        /\ UNCHANGED <<notices, registered, page>>
    BY <1>5 DEF Dispatch
  <2>2. Joined'
    BY <2>1 DEF Joined, page
  <2>3. queue \in Seq(Messages) /\ wire \in Seq(Messages) /\ Head(queue) \in Messages
    BY <2>1 DEF TypeOK
  <2>4. registered = "yes" \/ timer \/ socket # "open"
    BY DEF Joined, TypeOK
  <2>5. registered = "yes" /\ Tells(queue) => Tells(queue') \/ Tells(wire')
    BY <2>1, <2>3, TellsTail, TellsAppended
  <2>6. Tells(wire) => Tells(wire')
    BY <2>1, <2>3, TellsAppended
  <2>7. UNCHANGED <<asked, timer, pendingReload, authenticated, socket, notices>>
    BY <2>1 DEF page
  <2>8. Coming'
    BY <2>4, <2>5, <2>6, <2>7 DEF Coming
  <2> QED BY <2>2, <2>8
<1>6. CASE Greet
  <2>1. wire' = <<Message("connected", unlocked)>> \o wire
        /\ UNCHANGED <<notices, queue, registered, page>>
    BY <1>6 DEF Greet
  <2>2. wire \in Seq(Messages) /\ Message("connected", unlocked) \in Messages
    BY MessageTyped DEF TypeOK
  <2>3. Tells(wire) => Tells(wire')
    BY <2>1, <2>2, TellsGreeted
  <2>4. UNCHANGED <<asked, timer, pendingReload, authenticated, socket, notices, queue, registered>>
    BY <2>1 DEF page
  <2> QED BY <2>3, <2>4 DEF Joined, Coming
<1>7. ASSUME NEW m \in Messages, Broadcast(m) PROVE Joined' /\ Coming'
  <2>1. /\ m \in notices /\ notices' = notices \ {m} /\ queue' = Append(queue, m)
        /\ UNCHANGED <<registered, wire, page>>
    BY <1>7 DEF Broadcast
  <2>2. m.type = "cluster_updated" \/ Tells(queue) => Tells(queue')
    BY <2>1, TellsAppended DEF TypeOK
  <2>3. UNCHANGED <<asked, timer, pendingReload, authenticated, socket, wire, registered>>
    BY <2>1 DEF page
  <2> QED BY <2>1, <2>2, <2>3 DEF Joined, Coming
<1>8. CASE HandleSession
  <2>1. notices \subseteq notices'
    BY <1>8 DEF HandleSession, HandleAuthStatus, HandleUnlock, HandleLock, Turn
  <2>2. UNCHANGED <<asked, timer, pendingReload, authenticated, socket, queue, wire, registered>>
    BY <1>8 DEF HandleSession
  <2> QED BY <2>1, <2>2 DEF Joined, Coming
<1> QED BY <1>1, <1>2, <1>3, <1>4, <1>5, <1>6, <1>7, <1>8 DEF ServerSteps

LEMMA SocketKeepsComing ==
    ASSUME ComingInv, SocketSteps
    PROVE  Joined' /\ Coming'
<1> USE DEF ComingInv, FlagsInv
<1>1. CASE SocketOpens
  <2>1. registered # "no" /\ timer' = TRUE /\ UNCHANGED server
    BY <1>1 DEF SocketOpens
  <2> QED BY <2>1 DEF server, Joined, Coming
<1>2. CASE OnMessage
  <2>1. /\ wire # <<>> /\ wire' = Tail(wire)
        /\ Head(wire).type = "cluster_updated" => timer'
        /\ timer => timer'
    BY <1>2 DEF OnMessage
  <2>2. UNCHANGED <<notices, queue, registered, socket, authenticated, asked, pendingReload>>
    BY <1>2 DEF OnMessage
  <2>3. Tells(wire) => timer' \/ Tells(wire')
    BY <2>1, TellsTail DEF TypeOK
  <2> QED BY <2>1, <2>2, <2>3 DEF Joined, Coming
<1>3. CASE OnClose
  BY <1>3 DEF OnClose, Joined, Coming
<1>4. CASE Reconnect
  BY <1>4 DEF Reconnect, Joined, Coming
<1>5. CASE NotAuthenticated
  <2>1. authenticated' = "no" /\ UNCHANGED <<registered, socket, timer>>
    BY <1>5 DEF NotAuthenticated, server
  <2> QED BY <2>1 DEF Joined, Coming
<1>6. CASE \E r \in DOMAIN requests : Submit(r)
  <2>1. UNCHANGED <<notices, queue, registered, wire, authenticated, timer, pendingReload, socket, asked>>
    BY <1>6 DEF Submit
  <2> QED BY <2>1 DEF Joined, Coming, Tells
<1>7. CASE OnLocked
  <2>1. UNCHANGED <<notices, queue, registered, wire, authenticated, timer, pendingReload, socket, asked>>
    BY <1>7 DEF OnLocked, server
  <2> QED BY <2>1 DEF Joined, Coming, Tells
<1>8. CASE HandleLogout
  <2>1. authenticated' = "no" /\ socket' = "off"
    BY <1>8 DEF HandleLogout
  <2> QED BY <2>1 DEF Joined, Coming
<1> QED BY <1>1, <1>2, <1>3, <1>4, <1>5, <1>6, <1>7, <1>8 DEF SocketSteps

(* A load that starts answers for every change; one that ends starts the   *)
(* reload that came due meanwhile.                                         *)
LEMMA PageKeepsComing ==
    ASSUME ComingInv, PageSteps
    PROVE  Joined' /\ Coming'
<1> USE DEF ComingInv, FlagsInv
<1>1. ASSUME NEW l \in LoadIds, ServerAnswers(l) PROVE Joined' /\ Coming'
  <2>1. UNCHANGED <<notices, queue, registered, wire, authenticated, timer, pendingReload, socket, asked>>
    BY <1>1 DEF ServerAnswers, server
  <2> QED BY <2>1 DEF Joined, Coming, Tells
<1>2. ASSUME NEW l \in LoadIds, LoadArrives(l) \/ LoadFails(l) PROVE Joined' /\ Coming'
  <2>1. Finally(l) /\ UNCHANGED <<server, authenticated, timer, socket>>
    BY <1>2 DEF LoadArrives, LoadFails
  <2>2. \/ asked' = (asked \/ pendingReload)
        \/ UNCHANGED <<pendingReload, asked>>
    BY <2>1 DEF Finally
  <2>3. UNCHANGED <<notices, queue, registered, wire, authenticated, timer, socket>>
    BY <2>1 DEF server
  <2>4. asked \/ pendingReload => asked' \/ pendingReload'
    BY <2>2
  <2> QED BY <2>3, <2>4 DEF Joined, Coming, Tells
<1>3. CASE DebounceEnds
  <2>1. registered # "queued" /\ UNCHANGED <<server, socket>>
    BY <1>3 DEF DebounceEnds
  <2>2. pendingReload' = TRUE \/ asked' = TRUE
    BY <1>3 DEF DebounceEnds, LoadData
  <2> QED BY <2>1, <2>2 DEF server, Joined, Coming
<1>4. CASE CheckAuth \/ OnLoginSuccess
  <2>1. asked' = TRUE /\ socket' = "connecting"
    BY <1>4 DEF CheckAuth, OnLoginSuccess, LoadData
  <2> QED BY <2>1 DEF Joined, Coming
<1>5. CASE OnUnlocked
  <2>1. asked' = TRUE /\ UNCHANGED <<server, timer, socket>>
    BY <1>5 DEF OnUnlocked, LoadData
  <2> QED BY <2>1 DEF server, Joined, Coming
<1> QED BY <1>1, <1>2, <1>3, <1>4, <1>5 DEF PageSteps

LEMMA ComingStep ==
    ASSUME ComingInv, [Next]_vars
    PROVE  ComingInv'
<1>1. FlagsInv'
  BY FlagsStep DEF ComingInv
<1>2. Joined' /\ Coming'
  <2>1. CASE ServerSteps
    BY <2>1, ServerKeepsComing
  <2>2. CASE SocketSteps
    BY <2>2, SocketKeepsComing
  <2>3. CASE PageSteps
    BY <2>3, PageKeepsComing
  <2>4. CASE UNCHANGED vars
    BY <2>4 DEF vars, server, page, ComingInv, Joined, Coming, Tells
  <2> QED BY <2>1, <2>2, <2>3, <2>4, NextCases
<1> QED BY <1>1, <1>2 DEF ComingInv

(* Debouncing, reconnecting, the flags of scheduleReload and the hub never *)
(* lose a change: when all is quiet, a load was started after the last.    *)
THEOREM ChangesAreLoaded == Spec => []NoChangeMissed
<1>1. Init => ComingInv
  BY FlagsInit DEF Init, ComingInv, Joined, Coming
<1>2. ComingInv => NoChangeMissed
  BY DEF ComingInv, FlagsInv, TypeOK, PendingIsServed, Coming, Tells, NoChangeMissed, Quiet
<1> QED BY <1>1, <1>2, ComingStep, PTL DEF Spec

-----------------------------------------------------------------------------
(***************************************************************************)
(* The screens. A behaviour stays on the screen it begins on, so that what *)
(* a screen keeps is kept by the whole.                                    *)
(***************************************************************************)
(* The screen stays what it is.                                            *)
LEMMA ScreenStays == ASSUME [NextWeb]_allVars PROVE screen' = screen
BY DEF NextWeb, On, allVars

(* What happens on the other screens leaves the copy alone.                *)
LEMMA CopyStays == ASSUME [NextWeb]_allVars PROVE [Next]_vars
BY DEF NextWeb, On, allVars

(* A step of the client is one of the screen that is open.                 *)
LEMMA SyncScreen ==
    ASSUME screen = "sync", [NextWeb]_allVars PROVE Sync!Next \/ UNCHANGED Sync!vars
BY DEF NextWeb, On, allVars, places, Sync!vars
LEMMA TokensScreen ==
    ASSUME screen = "tokens", [NextWeb]_allVars PROVE Tokens!Next \/ UNCHANGED Tokens!vars
BY DEF NextWeb, On, allVars, places, Tokens!vars
LEMMA SettingsScreen ==
    ASSUME screen = "settings", [NextWeb]_allVars PROVE Settings!Next \/ UNCHANGED Settings!vars
BY DEF NextWeb, On, allVars, places, Settings!vars
LEMMA ListScreen ==
    ASSUME screen = "nodes", [NextWeb]_allVars PROVE List!Next \/ UNCHANGED List!vars
BY DEF NextWeb, On, allVars, places, List!vars
LEMMA CronScreen ==
    ASSUME screen = "cron", [NextWeb]_allVars PROVE Cron!Next \/ UNCHANGED Cron!vars
BY DEF NextWeb, On, allVars, places, Cron!vars
LEMMA ConfigsScreen ==
    ASSUME screen = "configs", [NextWeb]_allVars PROVE Configs!Next \/ UNCHANGED Configs!vars
BY DEF NextWeb, On, allVars, places, Configs!vars
LEMMA NodeScreen ==
    ASSUME screen = "nodeForm", [NextWeb]_allVars PROVE Node!Next \/ UNCHANGED Node!vars
BY DEF NextWeb, On, allVars, places, Node!vars
LEMMA AppScreen ==
    ASSUME screen = "app", [NextWeb]_allVars PROVE App!Next \/ UNCHANGED App!vars
BY DEF NextWeb, On, allVars, places, App!vars
LEMMA GlassScreen ==
    ASSUME screen = "glass", [NextWeb]_allVars PROVE Glass!Next \/ UNCHANGED Glass!vars
BY DEF NextWeb, On, allVars, places, Glass!vars, Glass!editor
LEMMA PageScreen ==
    ASSUME screen = "nodePage", [NextWeb]_allVars PROVE OnPage!Next \/ UNCHANGED OnPage!vars
BY DEF NextWeb, On, allVars, places, OnPage!vars
LEMMA LinkScreen ==
    ASSUME screen = "linkDrawer", [NextWeb]_allVars PROVE OfLink!Next \/ UNCHANGED OfLink!vars
BY DEF NextWeb, On, allVars, places, OfLink!vars
LEMMA DrawerScreen ==
    ASSUME screen = "nodeDrawer", [NextWeb]_allVars PROVE OfNode!Next \/ UNCHANGED OfNode!vars
BY DEF NextWeb, On, allVars, places, OfNode!vars
LEMMA ApplyScreen ==
    ASSUME screen = "apply", [NextWeb]_allVars PROVE Apply!Next \/ UNCHANGED Apply!vars
BY DEF NextWeb, On, allVars, places, Apply!vars

LEMMA FormScreen ==
    ASSUME screen = "linkForm", [NextWeb]_allVars PROVE Link!Next \/ UNCHANGED Link!vars
BY DEF NextWeb, On, allVars, places, Link!vars
LEMMA AppsScreen ==
    ASSUME screen = "apps", [NextWeb]_allVars PROVE AppList!Next \/ UNCHANGED AppList!vars
BY DEF NextWeb, On, allVars, places, AppList!vars
LEMMA PingScreen ==
    ASSUME screen = "pingTable", [NextWeb]_allVars PROVE Ping!Next \/ UNCHANGED Ping!vars
BY DEF NextWeb, On, allVars, places, Ping!vars
LEMMA EventsScreen ==
    ASSUME screen = "events", [NextWeb]_allVars PROVE Events!Next \/ UNCHANGED Events!vars
BY DEF NextWeb, On, allVars, places, Events!vars

(* The invariants of the screens, together.                                *)
ScreensInv ==
    /\ screen = "configs" => ConfigsInv
    /\ screen = "settings" => SettingsInv
    /\ screen = "sync" => SyncInv
    /\ screen = "apply" => ApplyInv
    /\ screen = "nodeForm" => NodeInv /\ NodeEntries /\ NodeSaves
    /\ screen = "linkForm" => FormInv
    /\ screen = "apps" => AppsInv
    /\ screen = "app" => AppInv
    /\ screen = "nodePage" => PageInv
    /\ screen = "linkDrawer" => LinkInv
    /\ screen = "nodeDrawer" => DrawerInv
    /\ screen = "tokens" => TokensInv
    /\ screen = "nodes" => ListInv
    /\ screen = "pingTable" => PingInv
    /\ screen = "glass" => GlassInv
    /\ screen = "cron" => CronInv
    /\ screen = "events" => EventsInv

LEMMA ScreensInit == ASSUME InitWeb PROVE ScreensInv
<1>1. screen = "configs" => ConfigsInv
    BY ConfigsInit DEF InitWeb, Opens
<1>2. screen = "settings" => SettingsInv
    BY SettingsInit DEF InitWeb, Opens
<1>3. screen = "sync" => SyncInv
    BY SyncInit DEF InitWeb, Opens
<1>4. screen = "apply" => ApplyInv
    BY ApplyInit DEF InitWeb, Opens
<1>5. screen = "nodeForm" => NodeInv /\ NodeEntries /\ NodeSaves
    BY NodeInit, NodeEntriesInit DEF InitWeb, Opens
<1>6. screen = "linkForm" => FormInv
    BY FormInit DEF InitWeb, Opens
<1>7. screen = "apps" => AppsInv
    BY AppsInit DEF InitWeb, Opens
<1>8. screen = "app" => AppInv
    BY AppInit DEF InitWeb, Opens
<1>9. screen = "nodePage" => PageInv
    BY PageInit DEF InitWeb, Opens
<1>10. screen = "linkDrawer" => LinkInv
    BY LinkInit DEF InitWeb, Opens
<1>11. screen = "nodeDrawer" => DrawerInv
    BY DrawerInit DEF InitWeb, Opens
<1>12. screen = "tokens" => TokensInv
    BY TokensInit DEF InitWeb, Opens
<1>13. screen = "nodes" => ListInv
    BY ListInit DEF InitWeb, Opens
<1>14. screen = "pingTable" => PingInv
    BY PingInit DEF InitWeb, Opens
<1>15. screen = "glass" => GlassInv
    BY GlassInit DEF InitWeb, Opens
<1>16. screen = "cron" => CronInv
    BY CronInit DEF InitWeb, Opens
<1>17. screen = "events" => EventsInv
    BY EventsInit DEF InitWeb, Opens
<1> QED
    BY <1>1, <1>2, <1>3, <1>4, <1>5, <1>6, <1>7, <1>8, <1>9, <1>10, <1>11,
       <1>12, <1>13, <1>14, <1>15, <1>16, <1>17 DEF ScreensInv

LEMMA ScreensStep == ASSUME ScreensInv, [NextWeb]_allVars PROVE ScreensInv'
<1>1. screen' = screen
    BY ScreenStays
<1>2. ASSUME screen = "configs" PROVE ConfigsInv'
    BY <1>2, ConfigsScreen, ConfigsStep DEF ScreensInv
<1>3. ASSUME screen = "settings" PROVE SettingsInv'
    BY <1>3, SettingsScreen, SettingsStep DEF ScreensInv
<1>4. ASSUME screen = "sync" PROVE SyncInv'
    BY <1>4, SyncScreen, SyncStep DEF ScreensInv
<1>5. ASSUME screen = "apply" PROVE ApplyInv'
    BY <1>5, ApplyScreen, ApplyStep DEF ScreensInv
<1>6. ASSUME screen = "nodeForm" PROVE (NodeInv /\ NodeEntries /\ NodeSaves)'
    <2>1. NodeInv /\ NodeTypes /\ NodeEntries /\ NodeSaves
        BY <1>6 DEF ScreensInv, NodeInv
    <2>2. Node!Next \/ UNCHANGED Node!vars
        BY <1>6, NodeScreen
    <2>3. QED
        BY <2>1, <2>2, NodeStep, NodeEntriesStep, NodeSavesStep
<1>7. ASSUME screen = "linkForm" PROVE FormInv'
    BY <1>7, FormScreen, FormStep DEF ScreensInv
<1>8. ASSUME screen = "apps" PROVE AppsInv'
    BY <1>8, AppsScreen, AppsStep DEF ScreensInv
<1>9. ASSUME screen = "app" PROVE AppInv'
    BY <1>9, AppScreen, AppStep DEF ScreensInv
<1>10. ASSUME screen = "nodePage" PROVE PageInv'
    BY <1>10, PageScreen, PageStep DEF ScreensInv
<1>11. ASSUME screen = "linkDrawer" PROVE LinkInv'
    BY <1>11, LinkScreen, LinkStep DEF ScreensInv
<1>12. ASSUME screen = "nodeDrawer" PROVE DrawerInv'
    BY <1>12, DrawerScreen, DrawerStep DEF ScreensInv
<1>13. ASSUME screen = "tokens" PROVE TokensInv'
    BY <1>13, TokensScreen, TokensStep DEF ScreensInv
<1>14. ASSUME screen = "nodes" PROVE ListInv'
    BY <1>14, ListScreen, ListStep DEF ScreensInv
<1>15. ASSUME screen = "pingTable" PROVE PingInv'
    BY <1>15, PingScreen, PingStep DEF ScreensInv
<1>16. ASSUME screen = "glass" PROVE GlassInv'
    BY <1>16, GlassScreen, GlassStep DEF ScreensInv
<1>17. ASSUME screen = "cron" PROVE CronInv'
    BY <1>17, CronScreen, CronStep DEF ScreensInv
<1>18. ASSUME screen = "events" PROVE EventsInv'
    BY <1>18, EventsScreen, EventsStep DEF ScreensInv
<1> QED
    BY <1>1, <1>2, <1>3, <1>4, <1>5, <1>6, <1>7, <1>8, <1>9, <1>10, <1>11,
       <1>12, <1>13, <1>14, <1>15, <1>16, <1>17, <1>18 DEF ScreensInv

-----------------------------------------------------------------------------
(* No form holds a field left over from what it was opened for before      *)
(* (SettingsModal.tsx, AddNodeModal.tsx, AppsPage.tsx).                    *)
THEOREM FormsStartClean == SpecWeb => []NoLeftovers
<1> DEFINE Inv ==
      /\ screen = "configs" => ConfigsInv
      /\ screen = "nodeForm" => NodeInv
      /\ screen = "app" => AppInv
<1>1. InitWeb => Inv
    BY ConfigsInit, NodeInit, AppInit DEF InitWeb, Opens
<1>2. Inv /\ [NextWeb]_allVars => Inv'
    BY ScreenStays, ConfigsScreen, ConfigsStep, NodeScreen, NodeStep, AppScreen, AppStep
<1>3. Inv => NoLeftovers
    BY ConfigsShows, NodeShows, AppShows DEF NoLeftovers
<1> QED
    BY <1>1, <1>2, <1>3, PTL DEF SpecWeb

(* The dialog for a sync has one of its own under way at a time, as long   *)
(* as it is mounted (SyncProgressModal.tsx, AppLayout.tsx): logging out    *)
(* and the background sync of the dialog that applies a configuration can  *)
(* add others.                                                             *)
THEOREM OneSyncAtATime == SpecWeb => []OneSync
<1> DEFINE Inv == screen = "sync" => SyncInv
<1>1. InitWeb => Inv
    BY SyncInit DEF InitWeb, Opens
<1>2. Inv /\ [NextWeb]_allVars => Inv'
    BY ScreenStays, SyncScreen, SyncStep
<1>3. Inv => OneSync
    BY SyncShows DEF OneSync
<1> QED
    BY <1>1, <1>2, <1>3, PTL DEF SpecWeb

(* A token that was rotated away is not accepted again (server_mcp.go,     *)
(* MCPSettingsTab.tsx), but where the module names a request that crosses. *)
THEOREM RotatedTokensStayAway == SpecWeb => []RotatedStaysAway
<1> DEFINE Inv == screen = "tokens" => TokensInv
<1>1. InitWeb => Inv
    BY TokensInit DEF InitWeb, Opens
<1>2. Inv /\ [NextWeb]_allVars => Inv'
    BY ScreenStays, TokensScreen, TokensStep
<1>3. Inv => RotatedStaysAway
    BY TokensShows DEF RotatedStaysAway
<1> QED
    BY <1>1, <1>2, <1>3, PTL DEF SpecWeb

(* What was typed into the settings is overwritten only where loads of the *)
(* tab overlap (SettingsModal.tsx): a property of steps, that the          *)
(* invariant shows of the state a step begins in.                          *)
THEOREM TypingIsKept == SpecWeb => OverwrittenOnlyByOverlap
<1> DEFINE Inv == screen = "settings" => SettingsInv
<1>1. InitWeb => Inv
    BY SettingsInit DEF InitWeb, Opens
<1>2. Inv /\ [NextWeb]_allVars => Inv'
    BY ScreenStays, SettingsScreen, SettingsStep
<1>3. Inv /\ [NextWeb]_allVars => [screen = "settings" => Settings!KeepsTyping]_allVars
    BY SettingsShows
<1> QED
    BY <1>1, <1>2, <1>3, PTL DEF SpecWeb, OverwrittenOnlyByOverlap

(* Once nothing is under way, registered agents hold the cron tasks        *)
(* enabled for them (CronTasksTab.tsx, cron_tasks.go), but where two       *)
(* changes cross, and but for those the last list did not reach: agents    *)
(* silent for a while, or whose connection failed (hub.go), and all of     *)
(* them when a change could not be saved.                                  *)
THEOREM AgentsHoldTheirTasks == SpecWeb => []AgentsCurrent
<1> DEFINE Inv == screen = "cron" => CronInv
<1>1. InitWeb => Inv
    BY CronInit DEF InitWeb, Opens
<1>2. Inv /\ [NextWeb]_allVars => Inv'
    BY ScreenStays, CronScreen, CronStep
<1>3. Inv => AgentsCurrent
    BY CronShows DEF AgentsCurrent
<1> QED
    BY <1>1, <1>2, <1>3, PTL DEF SpecWeb

(* The address of the page, its list and its selection agree once its      *)
(* effects have run, the selected tag with an address whose tag a node has *)
(* (NodesPage.tsx, MeshContext.tsx, LookingGlassModal.tsx).                *)
THEOREM SelectionsAgree == SpecWeb => []SelectionAgrees
<1> DEFINE Inv == (screen = "nodes" => ListInv) /\ (screen = "glass" => GlassInv)
<1>1. InitWeb => Inv
    BY ListInit, GlassInit DEF InitWeb, Opens
<1>2. Inv /\ [NextWeb]_allVars => Inv'
    BY ScreenStays, ListScreen, ListStep, GlassScreen, GlassStep
<1>3. Inv => SelectionAgrees
    BY ListShows, GlassShows DEF SelectionAgrees
<1> QED
    BY <1>1, <1>2, <1>3, PTL DEF SpecWeb

(* What is shown of a node, a link or a check was answered for it, and not *)
(* for the one selected before (SyncProgressModal.tsx, NodeDetailPage.tsx, *)
(* NodeDetailDrawer.tsx, LinkDetailDrawer.tsx, LookingGlassModal.tsx), but *)
(* where the module names a request that crosses the selection, or a       *)
(* dialog under which the page went on to another node.                    *)
THEOREM AnswersAreOfTarget == SpecWeb => []AnswersOfTarget
<1> DEFINE Inv ==
      /\ screen = "sync" => SyncInv
      /\ screen = "nodePage" => PageInv
      /\ screen = "nodeDrawer" => DrawerInv
      /\ screen = "linkDrawer" => LinkInv
      /\ screen = "glass" => GlassInv
<1>1. InitWeb => Inv
    BY SyncInit, PageInit, DrawerInit, LinkInit, GlassInit DEF InitWeb, Opens
<1>2. Inv /\ [NextWeb]_allVars => Inv'
    BY ScreenStays, SyncScreen, SyncStep, PageScreen, PageStep, DrawerScreen, DrawerStep,
       LinkScreen, LinkStep, GlassScreen, GlassStep
<1>3. Inv => AnswersOfTarget
    BY SyncShows, PageShows, DrawerShows, LinkShows, GlassShows DEF AnswersOfTarget
<1> QED
    BY <1>1, <1>2, <1>3, PTL DEF SpecWeb

(* A note that is typed goes to no node or link but the one it was typed   *)
(* for, though another note that is loaded discards it; and the text of    *)
(* the apply dialog is replaced only by what the user asks for, as long as *)
(* the dialog is mounted (NodeDetailPage.tsx, the drawers,                 *)
(* ApplyConfigModal.tsx).                                                  *)
THEOREM DraftsAreKept == SpecWeb => []DraftsKept
<1> DEFINE Inv ==
      /\ screen = "nodePage" => PageInv
      /\ screen = "nodeDrawer" => DrawerInv
      /\ screen = "linkDrawer" => LinkInv
      /\ screen = "apply" => ApplyInv
<1>1. InitWeb => Inv
    BY PageInit, DrawerInit, LinkInit, ApplyInit DEF InitWeb, Opens
<1>2. Inv /\ [NextWeb]_allVars => Inv'
    BY ScreenStays, PageScreen, PageStep, DrawerScreen, DrawerStep, LinkScreen, LinkStep,
       ApplyScreen, ApplyStep
<1>3. Inv => DraftsKept
    BY PageShows, DrawerShows, LinkShows, ApplyShows DEF DraftsKept
<1> QED
    BY <1>1, <1>2, <1>3, PTL DEF SpecWeb

(* Fields of a form that depend on each other agree, in whatever order     *)
(* they are filled in (AddNodeModal.tsx, AddLinkModal.tsx, AppsPage.tsx).  *)
THEOREM FieldsStayAgreed == SpecWeb => []FieldsAgree
<1>1. ASSUME ScreensInv PROVE FieldsAgree
    <2>1. screen = "nodeForm" => Node!FallbackLast /\ Node!NotRenamedByProbe
        <3>1. SUFFICES ASSUME screen = "nodeForm" PROVE Node!FallbackLast /\ Node!NotRenamedByProbe
            OBVIOUS
        <3>2. NodeInv /\ NodeTypes /\ NodeEntries /\ NodeSaves
            BY <1>1, <3>1 DEF ScreensInv, NodeInv
        <3>3. QED
            BY <3>2, NodeShows, NodeEntriesShow
    <2>2. screen = "linkForm" => Link!PortsOfPair /\ Link!PolicyOfKind /\ Link!FormOfLink
        BY <1>1, FormShows DEF ScreensInv
    <2>3. screen = "app" => App!TargetsAgree /\ App!TabExists
        BY <1>1, AppShows DEF ScreensInv
    <2>4. QED
        BY <2>1, <2>2, <2>3 DEF FieldsAgree
<1> QED
    BY <1>1, ScreensInit, ScreensStep, PTL DEF SpecWeb

(* Once everything asked for has arrived, lists show what the server has,  *)
(* of the filters and the type selected (AppsPage.tsx, MCPSettingsTab.tsx, *)
(* PingTable.tsx, EventsPage.tsx), but where two requests cross, or a      *)
(* change was made and answered with an error or not at all.               *)
THEOREM ListsStayCurrent == SpecWeb => []ListsAreCurrent
<1>1. ASSUME ScreensInv PROVE ListsAreCurrent
    BY <1>1, AppsShows, TokensShows, PingShows, EventsShows DEF ScreensInv, ListsAreCurrent
<1> QED
    BY <1>1, ScreensInit, ScreensStep, PTL DEF SpecWeb

(* What a request under way disables, a button or a form, is enabled again *)
(* with its end, on every screen, whatever fails or is asked twice.        *)
THEOREM ButtonsComeBack == SpecWeb => []NoDeadButton
<1>1. ASSUME ScreensInv PROVE NoDeadButton
    <2>1. screen = "configs" => Configs!NoDeadForm
        BY <1>1, ConfigsShows DEF ScreensInv
    <2>2. screen = "settings" => Settings!NoDeadButton
        BY <1>1, SettingsShows DEF ScreensInv
    <2>3. screen = "sync" => Sync!NoDeadButton
        BY <1>1, SyncShows DEF ScreensInv
    <2>4. screen = "apply" => Apply!NoDeadButton
        BY <1>1, ApplyShows DEF ScreensInv
    <2>5. screen = "nodeForm" => Node!NoDeadButton
        BY <1>1, NodeShows DEF ScreensInv
    <2>6. screen = "linkForm" => Link!NoDeadButton
        BY <1>1, FormShows DEF ScreensInv
    <2>7. screen = "apps" => AppList!NoDeadButton
        BY <1>1, AppsShows DEF ScreensInv
    <2>8. screen = "app" => App!NoDeadButton
        BY <1>1, AppShows DEF ScreensInv
    <2>9. screen = "nodePage" => OnPage!NoDeadButton
        BY <1>1, PageShows DEF ScreensInv
    <2>10. screen = "linkDrawer" => OfLink!NoDeadButton
        BY <1>1, LinkShows DEF ScreensInv
    <2>11. screen = "nodeDrawer" => OfNode!NoDeadButton
        BY <1>1, DrawerShows DEF ScreensInv
    <2>12. screen = "tokens" => Tokens!NoDeadButton
        BY <1>1, TokensShows DEF ScreensInv
    <2>13. screen = "nodes" => List!NoDeadButton
        BY <1>1, ListShows DEF ScreensInv
    <2>14. screen = "pingTable" => Ping!NoDeadButton
        BY <1>1, PingShows DEF ScreensInv
    <2>15. screen = "glass" => Glass!NoDeadButton
        BY <1>1, GlassShows DEF ScreensInv
    <2>16. screen = "cron" => Cron!NoDeadButton
        BY <1>1, CronShows DEF ScreensInv
    <2>17. screen = "events" => Events!NoDeadButton
        BY <1>1, EventsShows DEF ScreensInv
    <2> QED
        BY <2>1, <2>2, <2>3, <2>4, <2>5, <2>6, <2>7, <2>8, <2>9, <2>10, <2>11,
           <2>12, <2>13, <2>14, <2>15, <2>16, <2>17 DEF NoDeadButton
<1> QED
    BY <1>1, ScreensInit, ScreensStep, PTL DEF SpecWeb

(* The copy and the screens stay within their types.                       *)
THEOREM ScreensTyped == SpecWeb => []ScreensTypeOK
<1>1. ASSUME FlagsInv, ScreensInv PROVE ScreensTypeOK
    <2>1. TypeOK
        BY <1>1 DEF FlagsInv
    <2>2. screen = "configs" => Configs!TypeOK
        BY <1>1, ConfigsShows DEF ScreensInv
    <2>3. screen = "settings" => Settings!TypeOK
        BY <1>1, SettingsShows DEF ScreensInv
    <2>4. screen = "sync" => Sync!TypeOK
        BY <1>1, SyncShows DEF ScreensInv
    <2>5. screen = "apply" => Apply!TypeOK
        BY <1>1, ApplyShows DEF ScreensInv
    <2>6. ASSUME screen = "nodeForm" PROVE Node!TypeOK
        <3>1. NodeTypes /\ NodeEntries /\ NodeSaves
            BY <1>1, <2>6 DEF ScreensInv, NodeInv
        <3>2. QED
            BY <3>1, NodeEntriesShow
    <2>7. screen = "linkForm" => Link!TypeOK
        BY <1>1, FormShows DEF ScreensInv
    <2>8. screen = "apps" => AppList!TypeOK
        BY <1>1, AppsShows DEF ScreensInv
    <2>9. screen = "app" => App!TypeOK
        BY <1>1, AppShows DEF ScreensInv
    <2>10. screen = "nodePage" => OnPage!TypeOK
        BY <1>1, PageShows DEF ScreensInv
    <2>11. screen = "linkDrawer" => OfLink!TypeOK
        BY <1>1, LinkShows DEF ScreensInv
    <2>12. screen = "nodeDrawer" => OfNode!TypeOK
        BY <1>1, DrawerShows DEF ScreensInv
    <2>13. screen = "tokens" => Tokens!TypeOK
        BY <1>1, TokensShows DEF ScreensInv
    <2>14. screen = "nodes" => List!TypeOK
        BY <1>1, ListShows DEF ScreensInv
    <2>15. screen = "pingTable" => Ping!TypeOK
        BY <1>1, PingShows DEF ScreensInv
    <2>16. screen = "glass" => Glass!TypeOK
        BY <1>1, GlassShows DEF ScreensInv
    <2>17. screen = "cron" => Cron!TypeOK
        BY <1>1, CronShows DEF ScreensInv
    <2>18. screen = "events" => Events!TypeOK
        BY <1>1, EventsShows DEF ScreensInv
    <2> QED
        BY <2>1, <2>2, <2>3, <2>4, <2>5, <2>6, <2>7, <2>8, <2>9, <2>10, <2>11,
           <2>12, <2>13, <2>14, <2>15, <2>16, <2>17, <2>18 DEF ScreensTypeOK
<1>2. InitWeb => FlagsInv
    BY FlagsInit DEF InitWeb, Opens, NewPage
<1>3. FlagsInv /\ [NextWeb]_allVars => FlagsInv'
    BY CopyStays, FlagsStep
<1> QED
    BY <1>1, <1>2, <1>3, ScreensInit, ScreensStep, PTL DEF SpecWeb
=============================================================================
