\* The ping table with two runs, and the server tasks with a task of each kind of schedule.
CONSTANTS
    None = None
    Tasks = {minutely, secondly}
    WithSeconds = {secondly}
    Minute = 2
    LastSecond = 2
    Goroutines = {g1, g2}
    Runs = {"r1", "r2"}
    NodesOf <- ThreeNodesOrOne
    MaxPings = 2
SPECIFICATION SpecServices
INVARIANTS TypeOK TasksTypeOK CompletedIsComplete HistoryIsFinal NeverStuck SlotFiresOnce
PROPERTIES RunsEnd
\* A ping table run that has ended is not started again.
CHECK_DEADLOCK FALSE
