----------------------------- MODULE StateStore -----------------------------
(***************************************************************************)
(* What was recorded of each node (config/state.go): a map in memory and a *)
(* table of SQLite, one row per node.  Most operations change one record   *)
(* under the store's lock and write its row.  UpdateState (manager.go)     *)
(* changes the map it was given by Get, without the lock, and then has the *)
(* whole table written.  Each write may fail, the change in memory stays.  *)
(* The server may stop at any moment, and loads the table when it starts.  *)
(***************************************************************************)
EXTENDS Naturals

CONSTANTS
    Names,        \* of nodes
    Managed,      \* the nodes of the configuration to begin with
    None,
    MaxSteps      \* how many operations there are

VARIABLES
    topology,     \* the managed nodes of the configuration
    cache,        \* state.Nodes, or None
    rows,         \* node_states, or None
    update,       \* UpdateState
    failed,       \* history: nodes whose last write failed
    saved,        \* history: nodes with records of hosts or apps when the table was last written
    steps
vars == <<topology, cache, rows, update, failed, saved, steps>>

(* The hashes of BIRD, nftables and ROA files; those of the hosts file and *)
(* of apps, of agents only; and the interfaces, by the node they lead to.  *)
Record == [routing : 0..1, agent : 0..1, peers : SUBSET Names]
New == [routing |-> 0, agent |-> 0, peers |-> {}]
Node(n) == IF cache[n] = None THEN New ELSE cache[n]
NoUpdate == [at |-> "idle", full |-> FALSE, nodes |-> {}, found |-> <<>>, todo |-> {},
             held |-> None, of |-> None, touched |-> {}]

TypeOK ==
    /\ topology \subseteq Names
    /\ cache \in [Names -> Record \cup {None}]
    /\ rows \in [Names -> Record \cup {None}]
    /\ update.at \in {"idle", "prune", "merge", "save"} /\ update.touched \subseteq Names
    /\ update.held \in Record \cup {None} /\ update.of \in Names \cup {None}
    /\ update.todo \subseteq DOMAIN update.found /\ DOMAIN update.found \subseteq update.nodes
    /\ failed \subseteq Names /\ saved \subseteq Names /\ steps \in 0..MaxSteps

Init ==
    /\ topology = Managed
    /\ cache = [n \in Names |-> None] /\ rows = cache
    /\ update = NoUpdate /\ failed = {} /\ saved = {} /\ steps = 0

Count == steps < MaxSteps /\ steps' = steps + 1

-----------------------------------------------------------------------------
(* Records of one node                                                     *)

(* A mutant: the row is written without the hashes of agents.              *)
SaveNodePartly(n, record) ==
    /\ rows' = [rows EXCEPT ![n] = [record EXCEPT !.agent = 0]]
    /\ failed' = failed \ {n} /\ saved' = saved \ {n}

(* saveNodeLocked                                                          *)
SaveNode(n, record) ==
    \/ /\ rows' = [rows EXCEPT ![n] = record]
       /\ failed' = failed \ {n} /\ saved' = saved \ {n}
    \/ UNCHANGED <<rows, saved>> /\ failed' = failed \cup {n}

Store(n, record) ==
    /\ Count
    /\ cache' = [cache EXCEPT ![n] = record]
    /\ SaveNode(n, record)
    /\ UNCHANGED <<topology, update>>

(* A sync may record for a node that is gone, or has another name, by now. *)
UpdateBirdState(n) == \E hash \in 0..1 : Store(n, [Node(n) EXCEPT !.routing = hash])
UpdateHostsState(n) == Store(n, [Node(n) EXCEPT !.agent = 1])
RemoveAppState(n) == cache[n] # None /\ Store(n, [cache[n] EXCEPT !.agent = 0])
UpdateInterface(n) == \E p \in topology \ {n} : Store(n, [Node(n) EXCEPT !.peers = @ \cup {p}])
RemoveInterface(n) ==
    cache[n] # None /\ \E p \in cache[n].peers : Store(n, [cache[n] EXCEPT !.peers = @ \ {p}])

(* Nothing is written when nothing is new.                                 *)
UpdateInterfacesTelemetry(n) ==
    /\ ~(topology \ {n}) \subseteq Node(n).peers
    /\ Store(n, [Node(n) EXCEPT !.peers = @ \cup (topology \ {n})])

RemoveNode(n) ==
    /\ Count
    /\ n \in topology /\ topology' = topology \ {n}
    /\ cache' = [cache EXCEPT ![n] = None]
    /\ \/ /\ rows' = [rows EXCEPT ![n] = None]
          /\ failed' = failed \ {n} /\ saved' = saved \ {n}
       \/ UNCHANGED <<rows, saved>> /\ failed' = failed \cup {n}
    /\ UNCHANGED update

(* The record moves, and every record that leads to it is written again.   *)
Moved(old, new) ==
    [n \in Names |-> IF cache[old] = None THEN cache[n]
                     ELSE IF n = new THEN cache[old] ELSE IF n = old THEN None ELSE cache[n]]
LeadsTo(old, new, record) ==
    IF record = None THEN None
    ELSE [record EXCEPT !.peers = {IF p = old THEN new ELSE p : p \in @}]

(* A mutant: only the renamed record is written.                           *)
WrittenAlone(old, new) == IF cache[old] = None THEN {} ELSE {old, new}
Written(old, new) ==
    {n \in Names : cache'[n] # None} \cup (IF cache[old] = None THEN {} ELSE {old})

RenameNode(old, new) ==
    /\ Count
    /\ old \in topology /\ new \notin topology
    /\ topology' = (topology \ {old}) \cup {new}
    /\ cache' = [n \in Names |-> LeadsTo(old, new, Moved(old, new)[n])]
    /\ \E fails \in SUBSET Written(old, new) :
        LET done == Written(old, new) \ fails IN
        /\ rows' = [n \in Names |-> IF n \in done THEN cache'[n] ELSE rows[n]]
        /\ failed' = (failed \ done) \cup fails
        /\ saved' = saved \ done
    /\ UNCHANGED update

-----------------------------------------------------------------------------
(* UpdateState                                                             *)

(* The nodes are asked; of a full update those that are gone are removed.  *)
Collect(full) ==
    /\ Count
    /\ update.at = "idle"
    /\ \E probed \in SUBSET topology, peers \in {{}, topology} :
        update' = [NoUpdate EXCEPT !.at = "prune", !.full = full, !.nodes = topology,
                                   !.found = [n \in probed |-> peers \ {n}], !.todo = probed]
    /\ UNCHANGED <<topology, cache, rows, failed, saved>>

Prune ==
    /\ update.at = "prune"
    /\ LET gone == IF update.full THEN {n \in Names \ update.nodes : cache[n] # None} ELSE {} IN
        /\ cache' = [n \in Names |-> IF n \in gone THEN None ELSE cache[n]]
        /\ update' = [update EXCEPT !.at = "merge", !.touched = gone]
    /\ UNCHANGED <<topology, rows, failed, saved, steps>>

(* What was recorded of a node is read, and put back with its interfaces.  *)
ReadNode(n) ==
    /\ update.at = "merge" /\ update.of = None /\ n \in update.todo
    /\ update' = [update EXCEPT !.of = n, !.held = Node(n)]
    /\ UNCHANGED <<topology, cache, rows, failed, saved, steps>>

PutNode ==
    /\ update.at = "merge" /\ update.of # None
    /\ cache' = [cache EXCEPT ![update.of] = [update.held EXCEPT !.peers = update.found[update.of]]]
    /\ update' = [update EXCEPT !.of = None, !.held = None, !.todo = @ \ {update.of},
                                !.touched = @ \cup {update.of}]
    /\ UNCHANGED <<topology, rows, failed, saved, steps>>

(* Save, in a transaction.  The columns of hosts and apps are not written. *)
Save ==
    /\ update.at = "merge" /\ update.of = None /\ update.todo = {}
    /\ update' = NoUpdate
    /\ \/ /\ rows' = [n \in Names |-> IF cache[n] = None THEN None
                                      ELSE [cache[n] EXCEPT !.agent = 0]]
          /\ failed' = {} /\ saved' = {n \in Names : cache[n] # None /\ cache[n].agent # 0}
       \/ UNCHANGED <<rows, saved>> /\ failed' = failed \cup update.touched
    /\ UNCHANGED <<topology, cache, steps>>

(* Load                                                                    *)
Restart ==
    /\ cache' = rows /\ update' = NoUpdate /\ failed' = {} /\ saved' = {}
    /\ UNCHANGED <<topology, rows, steps>>

Next ==
    \/ \E n \in Names :
        \/ UpdateBirdState(n) \/ UpdateHostsState(n) \/ RemoveAppState(n)
        \/ UpdateInterface(n) \/ RemoveInterface(n) \/ UpdateInterfacesTelemetry(n)
        \/ RemoveNode(n) \/ ReadNode(n)
    \/ \E old, new \in Names : RenameNode(old, new)
    \/ \E full \in BOOLEAN : Collect(full)
    \/ Prune \/ PutNode \/ Save \/ Restart

Spec == Init /\ [][Next]_vars

-----------------------------------------------------------------------------
(* A restart at any moment finds what was recorded, in whatever order      *)
(* records, renames and collections came, and though collections change    *)
(* the map without the lock: but of a node whose last write failed or that *)
(* a collection is about to write, and but for the hashes of hosts and     *)
(* apps that the last collection did not write.                            *)
RestartKeeps ==
    \A n \in Names \ (failed \cup update.touched) :
        IF cache[n] = None THEN rows[n] = None
        ELSE /\ rows[n] # None
             /\ rows[n].routing = cache[n].routing /\ rows[n].peers = cache[n].peers
             /\ n \notin saved => rows[n].agent = cache[n].agent

(* state.go:472: "Save persists the full NetworkState to SQLite".  False:  *)
(* the hashes of hosts and apps are gone after a restart.                  *)
SavePersistsAll == update.at = "idle" /\ failed = {} => rows = cache
=============================================================================
