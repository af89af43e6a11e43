\* Reconnects of two nodes that are also renamed, deleted and uninstalled, and the monitor with two nodes.
CONSTANTS
    None = None
    Names = {n1, n2}
    Conns = {c1, c2}
    DebounceCount = 2
    Watched = n1
SPECIFICATION SpecFleet
INVARIANTS TypeOK OpenIsRegistered MonitorTypeOK OnlyStableChanges NoSelfDeadlock
PROPERTIES HubReplacedEnds OutageIsReported
