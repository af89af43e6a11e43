\* One sync run at a time; UpdateState beside it, operator edits, vault locking, failures, restarts; and the store of all that is recorded.
CONSTANTS
    n1 = n1
    wg = wg
    roa = roa
    bird = bird
    v1 = v1
    v2 = v2
    v3 = v3
    s1 = s1
    s2 = s2
    a = a
    b = b
    c = c
    None = None
    Names <- StoredNames
    Managed <- FirstNames
    MaxSteps = 3
    Absent = Absent
    Emptied = Emptied
    Address <- OneAddress
    Mtu <- OneMtu
    Nodes <- MCNodes
    Targets <- WgAndBird
    Home <- MCHome
    Kind <- MCKind
    Rank <- MCRank
    Versions <- ThreeVersions
    Texts <- OneWg
    Syncs <- OneSync
    Collecting = TRUE
SPECIFICATION SpecParts
INVARIANTS TypeOK RecordedOnDevice RoutingLast RestartKeeps
SYMMETRY LikeVersions
