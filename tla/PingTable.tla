----------------------------- MODULE PingTable -----------------------------
(***************************************************************************)
(* The ping table (internal/engine/ping_table.go): every node's agent      *)
(* pings every other node.  A run's goroutine hands the pairs to workers,  *)
(* so that an agent has one ping at a time; runs may be cancelled, and     *)
(* deleted from the history, while they work.                              *)
(*                                                                         *)
(* Pairs have an order, that of the nodes' names.  What a ping finds is    *)
(* left open.  A record in the database is taken to succeed.               *)
(***************************************************************************)
EXTENDS Naturals, FiniteSets

CONSTANTS
    Runs,          \* ping table tasks, started one after the other
    NodesOf,       \* the internal nodes of the configuration each finds
    MaxPings,      \* maxConcurrentPings
    None

ASSUME MaxPingsAssumption == MaxPings \in Nat \ {0}
ASSUME NoneAssumption == None \notin Runs

VARIABLES
    current,       \* currentPingTable
    task,          \* each run's task: its status, results, and count of results
    cancelled,     \* the runs whose context is cancelled
    pc,            \* where each run's goroutine is
    todo,          \* pairs it has not looked at
    pending,       \* pairs in its queue
    pinging,       \* pairs a worker is pinging
    history,       \* the runs as the database has them
    deleting       \* runs whose row is about to be deleted

queue == <<todo, pending, pinging>>
vars == <<current, task, cancelled, pc, queue, history, deleting>>

Pairs(r) == {p \in NodesOf[r] \X NodesOf[r] : p[1] # p[2]}
AllPairs == UNION {Pairs(r) : r \in Runs}
TaskRecords ==
    [status : {"running", "cancelled", "completed"}, results : SUBSET AllPairs, completedPairs : Nat]
NewTask == [status |-> "running", results |-> {}, completedPairs |-> 0]

TypeOK ==
    /\ current \in Runs \cup {None}
    /\ task \in [Runs -> TaskRecords]
    /\ cancelled \subseteq Runs
    /\ pc \in [Runs -> {"new", "prepare", "loop", "pick", "wait", "drain", "drainWait", "finalize",
                        "tooFew", "ended"}]
    /\ {todo, pending, pinging} \subseteq [Runs -> SUBSET AllPairs]
    /\ history \in [Runs -> TaskRecords \cup {None}]
    /\ deleting \subseteq Runs

Init ==
    /\ current = None
    /\ task = [r \in Runs |-> NewTask]
    /\ cancelled = {}
    /\ pc = [r \in Runs |-> "new"]
    /\ todo = [r \in Runs |-> Pairs(r)]
    /\ pending = [r \in Runs |-> {}]
    /\ pinging = [r \in Runs |-> {}]
    /\ history = [r \in Runs |-> None]
    /\ deleting = {}

Goto(r, step) == pc' = [pc EXCEPT ![r] = step]

(* A change of the task is put in the database under the same lock.        *)
Record(r, new) ==
    /\ task' = [task EXCEPT ![r] = new]
    /\ history' = [history EXCEPT ![r] = new]

Result(r, pair) ==
    [task[r] EXCEPT !.results = @ \cup {pair}, !.completedPairs = @ + 1]

(* The first of some pairs in their order.                                 *)
First(pairs) == CHOOSE pair \in pairs : TRUE

Running == current # None /\ task[current].status = "running"

-----------------------------------------------------------------------------
(***************************************************************************)
(* The requests.                                                           *)
(***************************************************************************)
RunPingTable(r) ==
    /\ pc[r] = "new"
    /\ ~Running
    /\ current' = r
    /\ Record(r, NewTask)
    /\ Goto(r, IF Cardinality(NodesOf[r]) < 2 THEN "tooFew" ELSE "prepare")
    /\ UNCHANGED <<cancelled, queue, deleting>>

(* With less than two nodes there is nothing to do, cancelled or not.      *)
CompleteAtOnce(r) ==
    /\ pc[r] = "tooFew"
    /\ Record(r, [task[r] EXCEPT !.status = "completed"])
    /\ Goto(r, "ended")
    /\ UNCHANGED <<current, cancelled, queue, deleting>>

(* A mutant: cancelling does not ask whether a run is under way.           *)
CancelAnything ==
    /\ cancelled' = cancelled \cup {current}
    /\ IF Running THEN Record(current, [task[current] EXCEPT !.status = "cancelled"])
       ELSE UNCHANGED <<task, history>>
    /\ UNCHANGED <<current, pc, queue, deleting>>

CancelPingTable ==
    /\ Running
    /\ cancelled' = cancelled \cup {current}
    /\ Record(current, [task[current] EXCEPT !.status = "cancelled"])
    /\ UNCHANGED <<current, pc, queue, deleting>>

(* DeletePingTableTask forgets the task, and deletes its row after         *)
(* unlocking.                                                              *)
DeletePingTableTask(r) ==
    /\ history[r] # None
    /\ r \notin deleting
    /\ current' = IF current = r THEN None ELSE current
    /\ deleting' = deleting \cup {r}
    /\ UNCHANGED <<task, cancelled, pc, queue, history>>

DeleteRow(r) ==
    /\ r \in deleting
    /\ deleting' = deleting \ {r}
    /\ history' = [history EXCEPT ![r] = None]
    /\ UNCHANGED <<current, task, cancelled, pc, queue>>

-----------------------------------------------------------------------------
(***************************************************************************)
(* executePingTable: a pair without a link or an agent has its result at   *)
(* once, the others are queued.                                            *)
(***************************************************************************)
Prepare(r) ==
    /\ pc[r] = "prepare"
    /\ todo[r] # {}
    /\ LET pair == First(todo[r]) IN
        /\ todo' = [todo EXCEPT ![r] = @ \ {pair}]
        /\ \/ Record(r, Result(r, pair)) /\ UNCHANGED pending
           \/ pending' = [pending EXCEPT ![r] = @ \cup {pair}] /\ UNCHANGED <<task, history>>
    /\ UNCHANGED <<current, cancelled, pc, pinging, deleting>>

Prepared(r) ==
    /\ pc[r] = "prepare"
    /\ todo[r] = {}
    /\ Goto(r, IF pending[r] = {} THEN "finalize" ELSE "loop")
    /\ UNCHANGED <<current, task, cancelled, queue, history, deleting>>

(* The context is looked at before the scheduler's lock is taken.          *)
CheckContext(r) ==
    /\ pc[r] = "loop"
    /\ Goto(r, IF r \in cancelled THEN "drain" ELSE "pick")
    /\ UNCHANGED <<current, task, cancelled, queue, history, deleting>>

(* A queued pair whose source has no ping under way, unless there are as   *)
(* many workers as allowed.  When nobody works, no source is busy, and any *)
(* queued pair will do.                                                    *)
Pickable(r) ==
    IF Cardinality(pinging[r]) < MaxPings
    THEN {pair \in pending[r] : \A other \in pinging[r] : other[1] # pair[1]}
    ELSE {}

Dispatch(r) ==
    /\ pc[r] = "pick"
    /\ Pickable(r) # {}
    /\ pending' = [pending EXCEPT ![r] = @ \ {First(Pickable(r))}]
    /\ pinging' = [pinging EXCEPT ![r] = @ \cup {First(Pickable(r))}]
    /\ Goto(r, "loop")
    /\ UNCHANGED <<current, task, cancelled, todo, history, deleting>>

(* A mutant: the loop ends with its queue.                                 *)
WaitOrLeaveEarly(r) ==
    /\ pc[r] = "pick"
    /\ Pickable(r) = {}
    /\ Goto(r, IF pending[r] = {} THEN "finalize" ELSE "wait")
    /\ UNCHANGED <<current, task, cancelled, queue, history, deleting>>

WaitOrLeave(r) ==
    /\ pc[r] = "pick"
    /\ Pickable(r) = {}
    /\ Goto(r, IF pending[r] = {} /\ pinging[r] = {} THEN "drain" ELSE "wait")
    /\ UNCHANGED <<current, task, cancelled, queue, history, deleting>>

(* A mutant: the last loop is not woken.                                   *)
WakeScheduler(r) == IF pc[r] = "wait" THEN Goto(r, "loop") ELSE UNCHANGED pc

Wake(r) ==
    CASE pc[r] = "wait" -> Goto(r, "loop")
      [] pc[r] = "drainWait" -> Goto(r, "drain")
      [] OTHER -> UNCHANGED pc

(* A worker has the answer of the agent, a time-out, or finds its context  *)
(* cancelled: a result in each case.                                       *)
Finish(r, pair) ==
    /\ pair \in pinging[r]
    /\ pinging' = [pinging EXCEPT ![r] = @ \ {pair}]
    /\ Record(r, Result(r, pair))
    /\ Wake(r)
    /\ UNCHANGED <<current, cancelled, todo, pending, deleting>>

Drain(r) ==
    /\ pc[r] = "drain"
    /\ Goto(r, IF pinging[r] = {} THEN "finalize" ELSE "drainWait")
    /\ UNCHANGED <<current, task, cancelled, queue, history, deleting>>

(* A mutant: the result is not recorded.                                   *)
FinalizeUnrecorded(r) ==
    /\ pc[r] = "finalize"
    /\ task' = IF task[r].status = "running" THEN [task EXCEPT ![r].status = "completed"] ELSE task
    /\ Goto(r, "ended")
    /\ UNCHANGED <<current, cancelled, queue, history, deleting>>

Finalize(r) ==
    /\ pc[r] = "finalize"
    /\ IF task[r].status = "running"
       THEN Record(r, [task[r] EXCEPT !.status = IF r \in cancelled THEN "cancelled" ELSE "completed"])
       ELSE UNCHANGED <<task, history>>
    /\ Goto(r, "ended")
    /\ UNCHANGED <<current, cancelled, queue, deleting>>

Execute(r) ==
    \/ CompleteAtOnce(r)
    \/ Prepare(r) \/ Prepared(r)
    \/ CheckContext(r) \/ Dispatch(r) \/ WaitOrLeave(r)
    \/ Drain(r) \/ Finalize(r)

Next ==
    \/ \E r \in Runs : RunPingTable(r) \/ DeletePingTableTask(r) \/ DeleteRow(r)
    \/ CancelPingTable
    \/ \E r \in Runs : Execute(r)
    \/ \E r \in Runs : \E pair \in Pairs(r) : Finish(r, pair)

(* The goroutine of a run goes on, and a ping ends: it has a time-out.     *)
Fairness ==
    \A r \in Runs :
        /\ WF_vars(Execute(r))
        /\ \A pair \in Pairs(r) : WF_vars(Finish(r, pair))

Spec == Init /\ [][Next]_vars /\ Fairness

-----------------------------------------------------------------------------
(* A table that is shown as completed has a result for every pair of       *)
(* nodes, one each, whatever other runs are cancelled or deleted.          *)
CompletedIsComplete ==
    \A r \in Runs :
        task[r].status = "completed" =>
            task[r].results = Pairs(r) /\ task[r].completedPairs = Cardinality(Pairs(r))

(* What the database has of a run that has ended is how it ended.          *)
HistoryIsFinal ==
    \A r \in Runs : pc[r] = "ended" => history[r] \in {None, task[r]}

(* A run ends, with its workers, and is not left running: no wake-up is    *)
(* lost, also when it is cancelled or deleted.                             *)
RunsEnd ==
    \A r \in Runs :
        pc[r] # "new" ~> pc[r] = "ended" /\ pinging[r] = {} /\ task[r].status # "running"
=============================================================================
