------------------------------ MODULE NodesView ------------------------------
(***************************************************************************)
(* The list of the managed nodes (NodesPage.tsx).  What it shows is in the *)
(* address: the search, the tag and the block.  The text of the search     *)
(* gets there with a delay, the tag is that of the other pages as well     *)
(* (MeshContext.tsx), and both can be changed by an address followed; the  *)
(* tags and the blocks themselves come and go with the topology.           *)
(*                                                                         *)
(* For an address with a tag that no node has two effects never come to    *)
(* rest: the mesh drops the tag, the page takes it from the address again. *)
(***************************************************************************)
EXTENDS Naturals

CONSTANTS
    Nodes,
    Tags, Blocks,
    Words,        \* what can be searched for, "" not among them
    MaxSteps      \* how often the topology, the address, or what is not filtered by changes

Special == {"$offline", "$unhealthy"}

VARIABLES
    server,         \* the topology of the page: of every node tags, block, state
    url,            \* the parameters of the address
    typed, timer,   \* searchTerm, blanks around it or not; the delay of the search runs
    selected,       \* selectedTag of the mesh, shared with the other pages
    busy, calls,    \* refreshing; how many of its two requests are under way
    steps
vars == <<server, url, typed, timer, selected, busy, calls, steps>>

Texts == [word : Words \cup {""}, blanks : BOOLEAN]
Urls == [search : Words \cup {""}, tag : Tags \cup Special \cup {"All"}, block : Blocks \cup {"All"}]
Topologies == [Nodes -> [tags : SUBSET Tags, block : Blocks \cup {"none"},
                         state : {"fine", "offline", "unhealthy", "external"}, found : SUBSET Words]]

TypeOK ==
    /\ server \in Topologies /\ url \in Urls /\ typed \in Texts /\ timer \in BOOLEAN
    /\ selected \in Tags \cup {"All"} /\ busy \subseteq {"refresh"} /\ calls \in 0..2
    /\ steps \in 0..MaxSteps

Step == steps < MaxSteps /\ steps' = steps + 1

-----------------------------------------------------------------------------
(* What is shown                                                           *)

ManagedNodes == {n \in Nodes : server[n].state # "external"}
ManagedTags == UNION {server[n].tags : n \in ManagedNodes}
ManagedBlocks == {server[n].block : n \in ManagedNodes} \ {"none"}

(* A tag or block that no node has any more does not filter.  NamedTag is  *)
(* a mutant: it does.                                                      *)
NamedTag(n) == url.tag = "All" \/ url.tag \in server[n].tags
MatchTag(n) ==
    IF url.tag = "$offline" THEN server[n].state = "offline"
    ELSE IF url.tag = "$unhealthy" THEN server[n].state = "unhealthy"
    ELSE url.tag \in ManagedTags => url.tag \in server[n].tags
MatchBlock(n) == url.block \in ManagedBlocks => server[n].block = url.block
MatchSearch(n) == typed.word = "" \/ typed.word \in server[n].found
FilteredNodes == {n \in ManagedNodes : MatchTag(n) /\ MatchBlock(n) /\ MatchSearch(n)}

IsFiltering == typed.word # "" \/ url.tag \in Special \cup ManagedTags \/ url.block \in ManagedBlocks

-----------------------------------------------------------------------------
(* The tag of the mesh: the one of the address if it is one of a node, and *)
(* one that no node has any more is dropped (UniqueTags counts the         *)
(* external nodes, too).  An address with a tag that no node has sets it   *)
(* again each time it was dropped.                                         *)
UniqueTags(top) == {"All"} \cup UNION {top[n].tags : n \in Nodes}
SelectedTags(u, tag, top) ==
    IF u.tag \in Special THEN {IF tag \in UniqueTags(top) THEN tag ELSE "All"}
    ELSE IF u.tag \in UniqueTags(top) THEN {u.tag} ELSE {u.tag, "All"}

(* The effects of a changed address: the text of the search and the tag of *)
(* the mesh follow it, and the delay of the search runs anew.              *)
Follow(u, text, tag) ==
    /\ url' = u /\ timer' = TRUE
    /\ typed' = IF u.search # url.search THEN [word |-> u.search, blanks |-> FALSE] ELSE text
    /\ selected' \in SelectedTags(u, tag, server)

Init ==
    /\ server \in {s \in Topologies : \A n \in Nodes : /\ s[n].found = Words \cap {n}
                                                       /\ s[n].state = "fine" /\ s[n].block = "none"}
    /\ \E w \in Words \cup {""}, t \in Tags \cup Special \cup {"All"} :
           url = [search |-> w, tag |-> t, block |-> "All"]
    /\ \E t \in UniqueTags(server) : selected \in SelectedTags(url, t, server)
    /\ typed = [word |-> url.search, blanks |-> FALSE] /\ timer = TRUE
    /\ busy = {} /\ calls = 0 /\ steps = 0

(* The two effects go on, one after the other.                             *)
Alternates ==
    /\ url.tag \notin Special \cup UniqueTags(server)
    /\ selected' = IF selected = "All" THEN url.tag ELSE "All"
    /\ UNCHANGED <<server, url, typed, timer, busy, calls, steps>>

EditSearch(t) ==
    /\ t # typed /\ typed' = t /\ timer' = TRUE
    /\ UNCHANGED <<server, url, selected, busy, calls, steps>>

DebounceEnds ==
    /\ timer
    /\ IF typed.word = url.search THEN timer' = FALSE /\ UNCHANGED <<url, typed, selected>>
       ELSE Follow([url EXCEPT !.search = typed.word], typed, selected)
    /\ UNCHANGED <<server, busy, calls, steps>>

HandleSelectTag(t) ==
    /\ t \in ManagedTags \cup Special \cup {"All"} /\ t # url.tag
    /\ Follow([url EXCEPT !.tag = t], typed, selected)
    /\ UNCHANGED <<server, busy, calls, steps>>
HandleSelectBlock(b) ==
    /\ b \in ManagedBlocks \cup {"All"} /\ b # url.block /\ ManagedBlocks # {}
    /\ Follow([url EXCEPT !.block = b], typed, selected)
    /\ UNCHANGED <<server, busy, calls, steps>>
(* The view, the columns and the order are parameters as well.  Nothing is *)
(* filtered by them, but the delay of the search runs anew.                *)
SetOtherParam ==
    /\ Step /\ Follow(url, typed, selected)
    /\ UNCHANGED <<server, busy, calls>>

HandleClearFilters ==
    /\ IsFiltering
    /\ url' = [url EXCEPT !.search = "", !.tag = "All", !.block = "All"] /\ timer' = TRUE
    /\ typed' = [word |-> "", blanks |-> FALSE] /\ selected' = "All"
    /\ UNCHANGED <<server, busy, calls, steps>>

(* Two requests, and the button is held until both are answered.           *)
HandleRefresh ==
    /\ Step /\ busy = {} /\ busy' = {"refresh"} /\ calls' = 2
    /\ UNCHANGED <<server, url, typed, timer, selected>>
RefreshArrives ==
    /\ calls > 0 /\ calls' = calls - 1 /\ busy' = (IF calls = 1 THEN {} ELSE busy)
    /\ UNCHANGED <<server, url, typed, timer, selected, steps>>

(* The topology changes; an address is followed, or left with Back.        *)
Change(n, tags, block, state) ==
    /\ Step
    /\ server' = [server EXCEPT ![n] = [@ EXCEPT !.tags = tags, !.block = block, !.state = state]]
    /\ selected' \in SelectedTags(url, selected, server')
    /\ UNCHANGED <<url, typed, timer, busy, calls>>
Navigate(w, t, b) ==
    /\ Step /\ Follow([url EXCEPT !.search = w, !.tag = t, !.block = b], typed, selected)
    /\ UNCHANGED <<server, busy, calls>>

-----------------------------------------------------------------------------
Next ==
    \/ (\E t \in Texts : EditSearch(t)) \/ DebounceEnds
    \/ (\E t \in Tags \cup Special \cup {"All"} : HandleSelectTag(t))
    \/ (\E b \in Blocks \cup {"All"} : HandleSelectBlock(b))
    \/ SetOtherParam \/ HandleClearFilters \/ Alternates
    \/ HandleRefresh \/ RefreshArrives
    \/ (\E n \in Nodes, tags \in SUBSET Tags, block \in Blocks \cup {"none"},
             state \in {"fine", "offline", "unhealthy", "external"} : Change(n, tags, block, state))
    \/ (\E w \in Words \cup {""}, t \in Tags \cup Special \cup {"All"}, b \in Blocks \cup {"All"} :
             Navigate(w, t, b))

Spec == Init /\ [][Next]_vars

-----------------------------------------------------------------------------
(* Nothing is hidden without the button that shows it again: through every *)
(* loss of a tag or a block the address still names, all managed nodes are *)
(* listed when no filter is said to be set.                                *)
NothingHidden == ~IsFiltering => FilteredNodes = ManagedNodes

(* The address opens the list that is shown: once the delay is over, it    *)
(* has the search, and the tag of the other pages is its own, if a node    *)
(* has it.  The other pages keep to a tag that a node has, unless the      *)
(* address names another.                                                  *)
AddressOfList ==
    /\ ~timer => typed.word = url.search
    /\ url.tag \in UniqueTags(server) \ Special => selected = url.tag
    /\ selected \in UniqueTags(server) \cup {url.tag}

(* The button to refresh is held while a request is under way, no longer.  *)
NoDeadButton == busy = {} <=> calls = 0
=============================================================================
