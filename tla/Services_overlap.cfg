\* Can two runs of a task be at work at the same time.
CONSTANTS
    None = None
    Tasks = {minutely, secondly}
    WithSeconds = {secondly}
    Minute = 2
    LastSecond = 2
    Goroutines = {g1, g2, g3}
    Runs = {"r1", "r2"}
    NodesOf <- ThreeNodesOrOne
    MaxPings = 2
SPECIFICATION SpecTasks
INVARIANTS OneRunAtATime
