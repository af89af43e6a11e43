-------------------------- MODULE Services_proofs ---------------------------
(* Proofs about the ping table, for every number of runs, nodes and        *)
(* workers, and about the server tasks, for every number of tasks and      *)
(* goroutines and every length of a minute.                                *)
EXTENDS Services, Integers, FiniteSetTheorems, TLAPS

(* A configuration has finitely many nodes.                                *)
FiniteNodes == \A r \in Runs : IsFiniteSet(NodesOf[r])

LEMMA PairsFinite ==
    ASSUME FiniteNodes, NEW r \in Runs
    PROVE  IsFiniteSet(Pairs(r))
<1>1. IsFiniteSet(NodesOf[r] \X NodesOf[r])
  BY FS_Product DEF FiniteNodes
<1>2. Pairs(r) \subseteq NodesOf[r] \X NodesOf[r]
  BY DEF Pairs
<1> QED BY <1>1, <1>2, FS_Subset

LEMMA TooFewNodes ==
    ASSUME FiniteNodes, NEW r \in Runs, Cardinality(NodesOf[r]) < 2
    PROVE  Pairs(r) = {}
<1> SUFFICES ASSUME NEW u \in NodesOf[r], NEW v \in NodesOf[r], u # v
             PROVE  FALSE
  BY DEF Pairs
<1>1. IsFiniteSet({u, v}) /\ Cardinality({u, v}) = 2
  <2>1. IsFiniteSet({u}) /\ Cardinality({u}) = 1
    BY FS_Singleton
  <2>2. /\ IsFiniteSet({u} \cup {v})
        /\ Cardinality({u} \cup {v}) = IF v \in {u} THEN Cardinality({u}) ELSE Cardinality({u}) + 1
    BY <2>1, FS_AddElement, Zenon
  <2>3. {u} \cup {v} = {u, v} /\ v \notin {u}
    OBVIOUS
  <2> QED BY <2>1, <2>2, <2>3
<1>2. Cardinality({u, v}) <= Cardinality(NodesOf[r])
  BY FS_Subset DEF FiniteNodes
<1>3. Cardinality(NodesOf[r]) \in Nat
  BY FS_CardinalityType DEF FiniteNodes
<1> QED BY <1>1, <1>2, <1>3

-----------------------------------------------------------------------------
(***************************************************************************)
(* Every pair of a run is in one place: not looked at, queued, with a      *)
(* worker, or done.  A run that goes on to its end without having been     *)
(* cancelled has emptied the first three.                                  *)
(***************************************************************************)
Placed(r) ==
    /\ task[r].results \cup todo[r] \cup pending[r] \cup pinging[r] = Pairs(r)
    /\ task[r].results \cap (todo[r] \cup pending[r] \cup pinging[r]) = {}
    /\ todo[r] \cap (pending[r] \cup pinging[r]) = {}
    /\ pending[r] \cap pinging[r] = {}
    /\ task[r].completedPairs = Cardinality(task[r].results)
Emptied(r) ==
    /\ pc[r] \notin {"new", "prepare", "tooFew"} => todo[r] = {}
    /\ pc[r] \in {"new", "prepare", "tooFew", "finalize"} => pinging[r] = {}
    /\ pc[r] = "tooFew" => Pairs(r) = {}
    /\ pc[r] \in {"drain", "drainWait", "finalize"} => r \in cancelled \/ pending[r] = {}
    /\ pc[r] = "new" => task[r] = NewTask /\ history[r] = None /\ current # r
    /\ r \in cancelled => task[r].status # "running"
    /\ pc[r] = "ended" => task[r].status # "running"
    /\ task[r].status = "completed" => pc[r] = "ended" /\ task[r].results = Pairs(r)
Followed(r) == history[r] \in {None, task[r]}
RunInv == TypeOK /\ \A r \in Runs : Placed(r) /\ Emptied(r) /\ Followed(r)

(* A new result is counted once.                                           *)
LEMMA ResultCounted ==
    ASSUME FiniteNodes, RunInv, NEW r \in Runs, NEW pair \in Pairs(r), pair \notin task[r].results
    PROVE  /\ Result(r, pair) \in TaskRecords
           /\ Result(r, pair).results = task[r].results \cup {pair}
           /\ Result(r, pair).completedPairs = Cardinality(Result(r, pair).results)
           /\ Result(r, pair).status = task[r].status
<1>1. task[r] \in TaskRecords /\ pair \in AllPairs /\ task[r].results \subseteq Pairs(r)
  BY DEF RunInv, TypeOK, AllPairs, Placed
<1>2. IsFiniteSet(task[r].results)
  BY <1>1, PairsFinite, FS_Subset
<1>3. Cardinality(task[r].results \cup {pair}) = Cardinality(task[r].results) + 1
  BY <1>2, FS_AddElement
<1>4. /\ Result(r, pair).results = task[r].results \cup {pair}
      /\ Result(r, pair).completedPairs = task[r].completedPairs + 1
      /\ Result(r, pair).status = task[r].status
  BY <1>1 DEF Result, TaskRecords
<1>5. Result(r, pair) \in TaskRecords
  <2>1. task[r].results \cup {pair} \in SUBSET AllPairs /\ task[r].completedPairs + 1 \in Nat
    BY <1>1 DEF TaskRecords
  <2> QED BY <1>1, <2>1 DEF Result, TaskRecords
<1> QED BY <1>3, <1>4, <1>5 DEF RunInv, Placed

(* What a run's own steps leave of the others.                             *)
Elsewhere(r) ==
    /\ \A q \in Runs \ {r} :
        /\ task'[q] = task[q] /\ history'[q] \in {history[q], None} /\ pc'[q] = pc[q]
        /\ todo'[q] = todo[q] /\ pending'[q] = pending[q] /\ pinging'[q] = pinging[q]
        /\ (q \in cancelled' <=> q \in cancelled)
        /\ pc[q] = "new" => current' # q /\ history'[q] = history[q]

LEMMA OneRunMoves ==
    ASSUME RunInv, NEW r \in Runs, TypeOK', Elsewhere(r), (Placed(r) /\ Emptied(r) /\ Followed(r))'
    PROVE  RunInv'
<1> SUFFICES ASSUME NEW q \in Runs \ {r} PROVE (Placed(q) /\ Emptied(q) /\ Followed(q))'
  BY DEF RunInv
<1>1. Placed(q) /\ Emptied(q) /\ Followed(q)
  BY DEF RunInv
<1> QED BY <1>1 DEF Elsewhere, Placed, Emptied, Followed

LEMMA RequestStep ==
    ASSUME FiniteNodes, RunInv, NEW r \in Runs,
           RunPingTable(r) \/ DeletePingTableTask(r) \/ DeleteRow(r)
    PROVE  RunInv'
<1> USE DEF RunInv
<1>1. CASE RunPingTable(r)
  <2>1. NewTask \in TaskRecords
    BY DEF NewTask, TaskRecords
  <2>2. TypeOK'
    BY <1>1, <2>1 DEF RunPingTable, Record, Goto, queue, TypeOK
  <2>3. Elsewhere(r)
    BY <1>1 DEF RunPingTable, Record, Goto, queue, TypeOK, Elsewhere
  <2>4. Placed(r)'
    BY <1>1 DEF RunPingTable, Record, queue, TypeOK, Placed, Emptied
  <2>5. (Emptied(r) /\ Followed(r))'
    BY <1>1, TooFewNodes
       DEF RunPingTable, Record, Goto, queue, TypeOK, Emptied, Followed, NewTask
  <2> QED BY <2>2, <2>3, <2>4, <2>5, OneRunMoves
<1>2. CASE DeletePingTableTask(r)
  <2>1. TypeOK'
    BY <1>2 DEF DeletePingTableTask, queue, TypeOK
  <2>2. \A q \in Runs : (Placed(q) /\ Emptied(q) /\ Followed(q))'
    BY <1>2, NoneAssumption DEF DeletePingTableTask, queue, Placed, Emptied, Followed
  <2> QED BY <2>1, <2>2
<1>3. CASE DeleteRow(r)
  <2>1. TypeOK'
    BY <1>3 DEF DeleteRow, queue, TypeOK
  <2>2. Elsewhere(r)
    BY <1>3 DEF DeleteRow, queue, TypeOK, Elsewhere, Emptied
  <2>3. (Placed(r) /\ Emptied(r) /\ Followed(r))'
    BY <1>3 DEF DeleteRow, queue, TypeOK, Placed, Emptied, Followed
  <2> QED BY <2>1, <2>2, <2>3, OneRunMoves
<1> QED BY <1>1, <1>2, <1>3

LEMMA CancelStep ==
    ASSUME RunInv, CancelPingTable
    PROVE  RunInv'
<1> USE DEF RunInv
<1>0. PICK r \in Runs : r = current
  BY DEF CancelPingTable, Running, TypeOK
<1> DEFINE new == [task[r] EXCEPT !.status = "cancelled"]
<1>1. r \in Runs /\ pc[r] \notin {"new", "ended"} /\ task[r].status = "running"
  BY <1>0 DEF CancelPingTable, Running, TypeOK, Emptied
<1>2. /\ new \in TaskRecords /\ new.status = "cancelled"
      /\ new.results = task[r].results /\ new.completedPairs = task[r].completedPairs
  BY <1>1 DEF TypeOK, TaskRecords
<1> HIDE DEF new
<1>3. /\ task' = [task EXCEPT ![r] = new] /\ history' = [history EXCEPT ![r] = new]
      /\ cancelled' = cancelled \cup {r} /\ UNCHANGED <<current, pc, queue, deleting>>
  BY <1>0 DEF CancelPingTable, Record, new
<1>4. TypeOK'
  BY <1>1, <1>2, <1>3 DEF queue, TypeOK
<1>5. Elsewhere(r)
  BY <1>0, <1>1, <1>3 DEF queue, TypeOK, Elsewhere, Emptied
<1>6. (Placed(r) /\ Emptied(r) /\ Followed(r))'
  BY <1>0, <1>1, <1>2, <1>3 DEF queue, TypeOK, Placed, Emptied, Followed
<1> QED BY <1>1, <1>4, <1>5, <1>6, OneRunMoves

LEMMA ExecuteStep ==
    ASSUME FiniteNodes, RunInv, NEW r \in Runs, Execute(r)
    PROVE  RunInv'
<1> USE DEF RunInv
<1>1. CASE CompleteAtOnce(r)
  <2> DEFINE new == [task[r] EXCEPT !.status = "completed"]
  <2>1. /\ new \in TaskRecords /\ new.status = "completed"
        /\ new.results = task[r].results /\ new.completedPairs = task[r].completedPairs
    BY DEF TypeOK, TaskRecords
  <2> HIDE DEF new
  <2>2. /\ task' = [task EXCEPT ![r] = new] /\ history' = [history EXCEPT ![r] = new]
        /\ pc[r] = "tooFew" /\ pc' = [pc EXCEPT ![r] = "ended"]
        /\ UNCHANGED <<current, cancelled, queue, deleting>>
    BY <1>1 DEF CompleteAtOnce, Record, Goto, new
  <2>3. TypeOK'
    BY <2>1, <2>2 DEF queue, TypeOK
  <2>4. Elsewhere(r)
    BY <2>2 DEF queue, TypeOK, Elsewhere, Emptied
  <2>5. (Placed(r) /\ Emptied(r) /\ Followed(r))'
    BY <2>1, <2>2 DEF queue, TypeOK, Placed, Emptied, Followed
  <2> QED BY <2>3, <2>4, <2>5, OneRunMoves
<1>2. CASE Prepare(r)
  <2>1. PICK pair \in todo[r] :
          /\ todo' = [todo EXCEPT ![r] = @ \ {pair}]
          /\ \/ Record(r, Result(r, pair)) /\ UNCHANGED pending
             \/ pending' = [pending EXCEPT ![r] = @ \cup {pair}] /\ UNCHANGED <<task, history>>
    BY <1>2 DEF Prepare, First
  <2>2. pc[r] = "prepare" /\ UNCHANGED <<current, cancelled, pc, pinging, deleting>>
    BY <1>2 DEF Prepare
  <2>3. pair \in Pairs(r) /\ pair \in AllPairs /\ pair \notin task[r].results
    BY DEF Placed, AllPairs
  <2>4. CASE Record(r, Result(r, pair)) /\ UNCHANGED pending
    <3>1. TypeOK'
      BY <2>1, <2>2, <2>3, <2>4, ResultCounted DEF Record, TypeOK
    <3>2. Elsewhere(r)
      BY <2>1, <2>2, <2>4 DEF Record, TypeOK, Elsewhere, Emptied
    <3>3. (Placed(r) /\ Emptied(r) /\ Followed(r))'
      BY <2>1, <2>2, <2>3, <2>4, ResultCounted DEF Record, TypeOK, Placed, Emptied, Followed
    <3> QED BY <3>1, <3>2, <3>3, OneRunMoves
  <2>5. CASE pending' = [pending EXCEPT ![r] = @ \cup {pair}] /\ UNCHANGED <<task, history>>
    <3>1. TypeOK'
      BY <2>1, <2>2, <2>3, <2>5 DEF TypeOK
    <3>2. Elsewhere(r)
      BY <2>1, <2>2, <2>5 DEF TypeOK, Elsewhere, Emptied
    <3>3. (Placed(r) /\ Emptied(r) /\ Followed(r))'
      BY <2>1, <2>2, <2>3, <2>5 DEF TypeOK, Placed, Emptied, Followed
    <3> QED BY <3>1, <3>2, <3>3, OneRunMoves
  <2> QED BY <2>1, <2>4, <2>5
<1>3. CASE Prepared(r) \/ CheckContext(r) \/ WaitOrLeave(r) \/ Drain(r)
  <2>1. \E step \in {"finalize", "loop", "drain", "pick", "wait", "drainWait"} :
          pc' = [pc EXCEPT ![r] = step]
    BY <1>3 DEF Prepared, CheckContext, WaitOrLeave, Drain, Goto
  <2>2. UNCHANGED <<current, task, cancelled, queue, history, deleting>>
    BY <1>3 DEF Prepared, CheckContext, WaitOrLeave, Drain
  <2>3. TypeOK'
    BY <2>1, <2>2 DEF queue, TypeOK
  <2>4. Elsewhere(r)
    BY <2>1, <2>2 DEF queue, TypeOK, Elsewhere, Emptied
  <2>5. (Placed(r) /\ Followed(r))'
    BY <2>2 DEF queue, Placed, Followed
  <2>6. Emptied(r)'
    <3>1. CASE Prepared(r)
      BY <3>1 DEF Prepared, Goto, queue, TypeOK, Emptied
    <3>2. CASE CheckContext(r)
      BY <3>2 DEF CheckContext, Goto, queue, TypeOK, Emptied
    <3>3. CASE WaitOrLeave(r)
      BY <3>3 DEF WaitOrLeave, Goto, queue, TypeOK, Emptied
    <3>4. CASE Drain(r)
      BY <3>4 DEF Drain, Goto, queue, TypeOK, Emptied
    <3> QED BY <1>3, <3>1, <3>2, <3>3, <3>4
  <2> QED BY <2>3, <2>4, <2>5, <2>6, OneRunMoves
<1>4. CASE Dispatch(r)
  <2>1. PICK pair \in pending[r] :
          /\ pending' = [pending EXCEPT ![r] = @ \ {pair}]
          /\ pinging' = [pinging EXCEPT ![r] = @ \cup {pair}]
    BY <1>4 DEF Dispatch, First, Pickable
  <2>2. /\ pc[r] = "pick" /\ pc' = [pc EXCEPT ![r] = "loop"]
        /\ UNCHANGED <<current, task, cancelled, todo, history, deleting>>
    BY <1>4 DEF Dispatch, Goto
  <2>3. TypeOK'
    BY <2>1, <2>2 DEF TypeOK
  <2>4. Elsewhere(r)
    BY <2>1, <2>2 DEF TypeOK, Elsewhere, Emptied
  <2>5. (Placed(r) /\ Emptied(r) /\ Followed(r))'
    BY <2>1, <2>2 DEF TypeOK, Placed, Emptied, Followed
  <2> QED BY <2>3, <2>4, <2>5, OneRunMoves
<1>5. CASE Finalize(r)
  <2>1. /\ pc[r] = "finalize" /\ pc' = [pc EXCEPT ![r] = "ended"]
        /\ UNCHANGED <<current, cancelled, queue, deleting>>
    BY <1>5 DEF Finalize, Goto
  <2>2. CASE task[r].status # "running"
    <3>1. UNCHANGED <<task, history>>
      BY <1>5, <2>2 DEF Finalize
    <3>2. TypeOK' /\ Elsewhere(r)
      BY <2>1, <3>1 DEF queue, TypeOK, Elsewhere, Emptied
    <3>3. (Placed(r) /\ Emptied(r) /\ Followed(r))'
      BY <2>1, <2>2, <3>1 DEF queue, TypeOK, Placed, Emptied, Followed
    <3> QED BY <3>2, <3>3, OneRunMoves
  <2>3. CASE task[r].status = "running"
    <3> DEFINE new == [task[r] EXCEPT !.status = "completed"]
    <3>1. /\ new \in TaskRecords /\ new.status = "completed"
          /\ new.results = task[r].results /\ new.completedPairs = task[r].completedPairs
      BY DEF TypeOK, TaskRecords
    <3>2. r \notin cancelled
      BY <2>3 DEF Emptied
    <3>3. task' = [task EXCEPT ![r] = new] /\ history' = [history EXCEPT ![r] = new]
      BY <1>5, <2>3, <3>2 DEF Finalize, Record
    <3> HIDE DEF new
    <3>4. TypeOK' /\ Elsewhere(r)
      BY <2>1, <3>1, <3>3 DEF queue, TypeOK, Elsewhere, Emptied
    <3>5. (Placed(r) /\ Followed(r))'
      BY <2>1, <3>1, <3>3 DEF queue, TypeOK, Placed, Followed
    <3>6. task[r].results = Pairs(r)
      BY <2>1, <3>2 DEF Placed, Emptied
    <3>7. Emptied(r)'
      BY <2>1, <3>1, <3>2, <3>3, <3>6 DEF queue, TypeOK, Emptied
    <3> QED BY <3>4, <3>5, <3>7, OneRunMoves
  <2> QED BY <2>2, <2>3
<1> QED BY <1>1, <1>2, <1>3, <1>4, <1>5 DEF Execute

LEMMA FinishStep ==
    ASSUME FiniteNodes, RunInv, NEW r \in Runs, NEW pair \in Pairs(r), Finish(r, pair)
    PROVE  RunInv'
<1> USE DEF RunInv
<1>1. /\ pair \in pinging[r] /\ pinging' = [pinging EXCEPT ![r] = @ \ {pair}]
      /\ Record(r, Result(r, pair)) /\ UNCHANGED <<current, cancelled, todo, pending, deleting>>
  BY DEF Finish
<1>2. pair \notin task[r].results
  BY <1>1 DEF Placed
<1>3. \/ pc[r] = "wait" /\ pc' = [pc EXCEPT ![r] = "loop"]
      \/ pc[r] = "drainWait" /\ pc' = [pc EXCEPT ![r] = "drain"]
      \/ UNCHANGED pc
  BY DEF Finish, Wake, Goto
<1>4. TypeOK'
  BY <1>1, <1>2, <1>3, ResultCounted DEF Record, TypeOK
<1>5. Elsewhere(r)
  BY <1>1, <1>3 DEF Record, TypeOK, Elsewhere, Emptied
<1>6. (Placed(r) /\ Followed(r))'
  BY <1>1, <1>2, ResultCounted DEF Record, TypeOK, Placed, Followed
<1>7. Emptied(r)'
  BY <1>1, <1>2, <1>3, ResultCounted DEF Record, TypeOK, Placed, Emptied
<1> QED BY <1>4, <1>5, <1>6, <1>7, OneRunMoves

LEMMA RunsInvariant == ASSUME FiniteNodes PROVE Spec => []RunInv
<1>1. Init => RunInv
  <2> SUFFICES ASSUME Init PROVE RunInv
    OBVIOUS
  <2>1. NewTask \in TaskRecords /\ Cardinality({}) = 0
    BY FS_EmptySet DEF NewTask, TaskRecords
  <2>2. TypeOK
    BY <2>1 DEF Init, TypeOK, AllPairs
  <2>3. \A r \in Runs : Placed(r) /\ Emptied(r) /\ Followed(r)
    BY <2>1, NoneAssumption DEF Init, Placed, Emptied, Followed, NewTask
  <2> QED BY <2>2, <2>3 DEF RunInv
<1>2. RunInv /\ [Next]_vars => RunInv'
  <2>1. RunInv /\ UNCHANGED vars => RunInv'
    BY DEF vars, queue, RunInv, TypeOK, Placed, Emptied, Followed
  <2> QED BY <2>1, RequestStep, CancelStep, ExecuteStep, FinishStep DEF Next
<1> QED BY <1>1, <1>2, PTL DEF Spec

(* The tasks, the queues and the history of every number of runs have      *)
(* their types.                                                            *)
THEOREM PingTyped == ASSUME FiniteNodes PROVE Spec => []TypeOK
<1>1. RunInv => TypeOK
  BY DEF RunInv
<1> QED BY <1>1, RunsInvariant, PTL

(* A run recorded as completed has one result for each pair of its nodes,  *)
(* whatever the number of nodes and of workers, and whichever other runs   *)
(* are started, cancelled or deleted meanwhile.                            *)
THEOREM CompletedHasAll == ASSUME FiniteNodes PROVE Spec => []CompletedIsComplete
<1>1. RunInv => CompletedIsComplete
  BY DEF RunInv, Emptied, Placed, CompletedIsComplete
<1> QED BY <1>1, RunsInvariant, PTL

(* A run that has ended is in the history as it ended, if at all.          *)
THEOREM HistoryTellsTheEnd == ASSUME FiniteNodes PROVE Spec => []HistoryIsFinal
<1>1. RunInv => HistoryIsFinal
  BY DEF RunInv, Followed, HistoryIsFinal
<1> QED BY <1>1, RunsInvariant, PTL
-----------------------------------------------------------------------------
(***************************************************************************)
(* The server tasks.                                                       *)
(***************************************************************************)

(* Division keeps the order of what is divided.                            *)
LEMMA DivMonotone ==
    ASSUME NEW d \in Nat \ {0}, NEW m \in Nat, NEW n \in Nat, m <= n
    PROVE  m \div d \in Nat /\ m \div d <= m /\ m \div d <= n \div d
<1> DEFINE p == m \div d
           q == n \div d
<1>1. p \in Int /\ q \in Int /\ p * d <= m /\ m < p * d + d /\ q * d <= n /\ n < q * d + d
  OBVIOUS
<1> HIDE DEF p, q
<1>2. p \in Nat
  BY <1>1
<1>3. p <= m
  BY <1>1
<1>4. p <= q
  BY <1>1
<1> QED BY <1>2, <1>3, <1>4 DEF p, q

(* A set flag has a goroutine that has not yet cleared it the first time.  *)
Executing(g) == taskPc[g] \in {"work", "clear"}
FlagInv == \A t \in runningTasks : \E g \in Goroutines : job[g] = t /\ Executing(g)

(* The slot a task was last started in is the last of those it was started *)
(* in, and not later than the present one.                                 *)
SlotInv ==
    \A t \in Tasks, s \in ST!Seconds :
        /\ lastFiredSlot[t] = None => fired[<<t, s>>] = 0
        /\ lastFiredSlot[t] # None => /\ lastFiredSlot[t] <= ST!Slot(t)
                                      /\ s > lastFiredSlot[t] => fired[<<t, s>>] = 0
        /\ fired[<<t, s>>] <= 1

TasksInv == ST!TypeOK /\ FlagInv /\ SlotInv

LEMMA SlotTyped ==
    ASSUME ST!TypeOK, NEW t \in Tasks
    PROVE  ST!Slot(t) \in ST!Seconds /\ ST!Slot(t) \in Nat
<1>1. now \in Nat /\ now <= now /\ now <= LastSecond
  BY ScheduleAssumption DEF ST!TypeOK, ST!Seconds
<1>2. now \div Minute \in Nat /\ now \div Minute <= now
  BY <1>1, DivMonotone, ScheduleAssumption, Zenon
<1>3. now \div Minute \in ST!Seconds
  BY <1>1, <1>2, ScheduleAssumption DEF ST!Seconds
<1>4. ST!Slot(t) = now \/ ST!Slot(t) = now \div Minute
  BY DEF ST!Slot
<1> QED BY <1>1, <1>2, <1>3, <1>4 DEF ST!TypeOK

LEMMA SpawnKeeps ==
    ASSUME ST!TypeOK, FlagInv, NEW t \in Tasks, ST!Spawn(t), UNCHANGED runningTasks
    PROVE  /\ FlagInv'
           /\ taskPc' \in [Goroutines -> {"idle", "begin", "work", "clear", "deferred"}]
           /\ job' \in [Goroutines -> Tasks \cup {None}]
           /\ \A g \in Goroutines : taskPc'[g] = "idle" <=> job'[g] = None
<1>1. PICK g \in Goroutines :
        /\ taskPc[g] = "idle" /\ taskPc' = [taskPc EXCEPT ![g] = "begin"] /\ job' = [job EXCEPT ![g] = t]
  BY DEF ST!Spawn, ST!IdleOnes
<1> QED BY <1>1, NoTaskAssumption DEF ST!TypeOK, FlagInv, Executing

LEMMA TasksStep == TasksInv /\ [ST!Next]_(ST!vars) => TasksInv'
<1> SUFFICES ASSUME TasksInv, [ST!Next]_(ST!vars) PROVE TasksInv'
  OBVIOUS
<1> USE NoTaskAssumption DEF TasksInv
<1>1. CASE ST!Tick
  <2>1. now \in Nat /\ now' \in Nat /\ now <= now' /\ now' \in ST!Seconds
    BY <1>1 DEF ST!Tick, ST!TypeOK, ST!Seconds
  <2>6. now <= now /\ now' <= now'
    BY <2>1
  <2>2. now \div Minute \in Nat /\ now' \div Minute \in Nat /\ now \div Minute <= now' \div Minute
    BY <2>1, <2>6, DivMonotone, ScheduleAssumption, Zenon
  <2>3. ST!TypeOK' /\ FlagInv'
    BY <1>1, <2>1 DEF ST!Tick, ST!TypeOK, FlagInv, Executing
  <2>4. \A t \in Tasks : ST!Slot(t) \in Nat /\ ST!Slot(t)' \in Nat /\ ST!Slot(t) <= ST!Slot(t)'
    BY <2>1, <2>2 DEF ST!Slot
  <2>5. SlotInv'
    <3> SUFFICES ASSUME NEW t \in Tasks, NEW s \in ST!Seconds
                 PROVE  /\ lastFiredSlot[t] = None => fired[<<t, s>>] = 0
                        /\ lastFiredSlot[t] # None => /\ lastFiredSlot[t] <= ST!Slot(t)'
                                                      /\ s > lastFiredSlot[t] => fired[<<t, s>>] = 0
                        /\ fired[<<t, s>>] <= 1
      BY <1>1 DEF SlotInv, ST!Seconds, ST!Tick
    <3>1. lastFiredSlot[t] # None => lastFiredSlot[t] \in Nat
      BY DEF ST!TypeOK, ST!Seconds
    <3> QED BY <2>4, <3>1 DEF SlotInv
  <2> QED BY <2>3, <2>5
<1>2. ASSUME NEW t \in Tasks, ST!Visit(t) PROVE TasksInv'
  <2>1. CASE ST!Matches(t) /\ lastFiredSlot[t] # ST!Slot(t)
    <3>1. ST!Fire(t) /\ left' = left \ {t} /\ UNCHANGED <<now, enabled, runningTasks>>
      BY <1>2, <2>1 DEF ST!Visit
    <3>2. ST!TypeOK' /\ FlagInv'
      BY <3>1, SpawnKeeps, SlotTyped DEF ST!Fire, ST!TypeOK, ST!Seconds
    <3>3. fired[<<t, ST!Slot(t)>>] = 0
      <4>1. lastFiredSlot[t] # None => lastFiredSlot[t] \in Nat
        BY DEF ST!TypeOK, ST!Seconds
      <4>2. ST!Slot(t) \in ST!Seconds /\ ST!Slot(t) \in Nat
        BY SlotTyped
      <4> QED BY <2>1, <4>1, <4>2 DEF SlotInv
    <3>4. SlotInv'
      <4> SUFFICES ASSUME NEW u \in Tasks, NEW s \in ST!Seconds
                   PROVE  /\ lastFiredSlot'[u] = None => fired'[<<u, s>>] = 0
                          /\ lastFiredSlot'[u] # None => /\ lastFiredSlot'[u] <= ST!Slot(u)'
                                                         /\ s > lastFiredSlot'[u] => fired'[<<u, s>>] = 0
                          /\ fired'[<<u, s>>] <= 1
        BY DEF SlotInv, ST!Seconds
      <4>1. ST!Slot(u)' = ST!Slot(u)
        BY <3>1 DEF ST!Slot
      <4>2. CASE u # t
        <5>1. lastFiredSlot'[u] = lastFiredSlot[u] /\ fired'[<<u, s>>] = fired[<<u, s>>]
          BY <3>1, <4>2, SlotTyped DEF ST!Fire, ST!TypeOK
        <5> QED BY <4>1, <5>1 DEF SlotInv
      <4>3. CASE u = t
        <5>1. ST!Slot(t) \in Nat /\ ST!Slot(t) \in ST!Seconds /\ ST!Slot(t) # None
          BY SlotTyped DEF ST!Seconds
        <5>2. lastFiredSlot'[t] = ST!Slot(t)
          BY <3>1 DEF ST!Fire, ST!TypeOK
        <5>3. fired'[<<t, s>>] = IF s = ST!Slot(t) THEN 1 ELSE fired[<<t, s>>]
          BY <3>1, <3>3, <5>1 DEF ST!Fire, ST!TypeOK
        <5>4. s > ST!Slot(t) => fired[<<t, s>>] = 0
          <6>1. lastFiredSlot[t] # None => lastFiredSlot[t] \in Nat /\ lastFiredSlot[t] <= ST!Slot(t)
            <7>1. lastFiredSlot[t] # None => lastFiredSlot[t] \in Nat
              BY DEF ST!TypeOK, ST!Seconds
            <7> QED BY <7>1 DEF SlotInv
          <6> QED BY <6>1, <5>1 DEF SlotInv, ST!Seconds
        <5>5. fired[<<t, s>>] <= 1
          BY DEF SlotInv
        <5> QED BY <4>1, <4>3, <5>1, <5>2, <5>3, <5>4, <5>5 DEF ST!Seconds
      <4> QED BY <4>2, <4>3
    <3> QED BY <3>2, <3>4
  <2>2. CASE ~(ST!Matches(t) /\ lastFiredSlot[t] # ST!Slot(t))
    BY <1>2, <2>2 DEF ST!Visit, ST!TypeOK, FlagInv, Executing, SlotInv, ST!Slot
  <2> QED BY <2>1, <2>2
<1>3. ASSUME NEW t \in Tasks, ST!UpdateServerTask(t) PROVE TasksInv'
  BY <1>3 DEF ST!UpdateServerTask, ST!schedule, ST!TypeOK, FlagInv, Executing, SlotInv, ST!Slot
<1>4. ASSUME NEW t \in Tasks, ST!Request(t) PROVE TasksInv'
  BY <1>4, SpawnKeeps DEF ST!Request, ST!schedule, ST!TypeOK, SlotInv, ST!Slot
<1>5. ASSUME NEW g \in Goroutines, ST!Begin(g) \/ ST!Work(g) \/ ST!Clear(g) \/ ST!Deferred(g) PROVE TasksInv'
  <2>1. SlotInv'
    BY <1>5 DEF ST!Begin, ST!Work, ST!Clear, ST!Deferred, ST!schedule, SlotInv, ST!Slot
  <2>2. ST!TypeOK'
    BY <1>5 DEF ST!Begin, ST!Work, ST!Clear, ST!Deferred, ST!Unset, ST!Return, ST!Goto, ST!schedule, ST!TypeOK
  <2>3. FlagInv'
    BY <1>5 DEF ST!Begin, ST!Work, ST!Clear, ST!Deferred, ST!Unset, ST!Return, ST!Goto, FlagInv, Executing, ST!TypeOK
  <2> QED BY <2>1, <2>2, <2>3
<1>6. CASE UNCHANGED ST!vars
  BY <1>6 DEF ST!vars, ST!schedule, ST!TypeOK, FlagInv, Executing, SlotInv, ST!Slot
<1> QED BY <1>1, <1>2, <1>3, <1>4, <1>5, <1>6 DEF ST!Next


LEMMA TasksInit == ST!Init => TasksInv
  BY NoTaskAssumption, ScheduleAssumption
  DEF ST!Init, TasksInv, ST!TypeOK, FlagInv, SlotInv, ST!Seconds

(* The tasks are as in ServerTasks whatever the ping table does.           *)
LEMMA TasksInvariant == SpecServices => []TasksInv
<1>1. InitServices => TasksInv
  BY TasksInit DEF InitServices
<1>2. [NextServices]_allVars => [ST!Next]_(ST!vars)
  BY DEF NextServices, NextPing, NextTasks, allVars, tasksVars, ST!vars, ST!schedule
<1>3. TasksInv /\ [NextServices]_allVars => TasksInv'
  BY <1>2, TasksStep
<1> QED BY <1>1, <1>3, PTL DEF SpecServices

THEOREM TasksTyped == SpecServices => []TasksTypeOK
<1>1. TasksInv => TasksTypeOK
  BY DEF TasksInv, TasksTypeOK
<1> QED BY <1>1, TasksInvariant, PTL

(* Both clearings of a flag come when its goroutine stops executing, so    *)
(* that a set flag always has somebody who executes the task and will      *)
(* clear it: no task is left unable to start.                              *)
THEOREM FlagsAreEarned == SpecServices => []NeverStuck
<1>1. TasksInv => NeverStuck
  BY DEF TasksInv, FlagInv, Executing, NeverStuck, ST!NeverStuck
<1> QED BY <1>1, TasksInvariant, PTL

(* Slots only grow, and the last one a task was started in is remembered:  *)
(* no slot starts its task twice, however many ticks fall into it.         *)
THEOREM SlotsFireOnce == SpecServices => []SlotFiresOnce
<1>1. TasksInv => SlotFiresOnce
  BY DEF TasksInv, SlotInv, SlotFiresOnce, ST!SlotFiresOnce, ST!Seconds
<1> QED BY <1>1, TasksInvariant, PTL
=============================================================================
