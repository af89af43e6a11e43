\* Two writers under the manager's lock, a reader, the watcher, an edit by hand.
CONSTANTS
    w1 = w1
    w2 = w2
    x1 = x1
    o1 = o1
    o2 = o2
    o3 = o3
    o4 = o4
    Watcher = Watcher
    Reader = Reader
    None = None
    Writers <- TwoWriters
    HandEdits <- OneHandEdit
    Family <- Locked
    Objects <- ThreeObjects
SPECIFICATION Spec
INVARIANTS TypeOK NoLostUpdate RejectedStaysOut
PROPERTIES EditsArrive
