------------------------------ MODULE Services ------------------------------
(* Services of the server that share no state: a behaviour is one of the   *)
(* ping table or of the server tasks.                                      *)
EXTENDS PingTable

CONSTANTS
    Tasks, WithSeconds, Goroutines, Minute, LastSecond   \* see ServerTasks

ASSUME ScheduleAssumption == Minute \in Nat \ {0} /\ LastSecond \in Nat
ASSUME NoTaskAssumption == None \notin Tasks \cup 0..LastSecond

VARIABLES service, now, left, enabled, lastFiredSlot, runningTasks, taskPc, job, fired
ST == INSTANCE ServerTasks WITH pc <- taskPc
tasksVars == <<now, left, enabled, lastFiredSlot, runningTasks, taskPc, job, fired>>
allVars == <<service, vars, tasksVars>>

InitServices == service \in {"ping", "tasks"} /\ Init /\ ST!Init
NextPing == service = "ping" /\ Next /\ UNCHANGED <<service, tasksVars>>
NextTasks == service = "tasks" /\ ST!Next /\ UNCHANGED <<service, vars>>
NextServices == NextPing \/ NextTasks

SpecServices == InitServices /\ [][NextServices]_allVars /\ Fairness

(* The tasks alone.                                                        *)
SpecTasks == InitServices /\ service = "tasks" /\ [][NextTasks]_allVars

(* The properties of the server tasks, stated in ServerTasks.              *)
TasksTypeOK == ST!TypeOK
NeverStuck == ST!NeverStuck
SlotFiresOnce == ST!SlotFiresOnce
OneRunAtATime == ST!OneRunAtATime

(* An instance for TLC: one run finds three nodes, any other finds one.    *)
ThreeNodesOrOne == [r \in Runs |-> IF r = "r1" THEN {"a", "b", "c"} ELSE {"a"}]
=============================================================================
