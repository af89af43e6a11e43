\* Does a recorded BIRD or ROA content have to be loaded: a failed reload, then a retry.
CONSTANTS
    n1 = n1
    wg = wg
    roa = roa
    bird = bird
    v1 = v1
    v2 = v2
    v3 = v3
    s1 = s1
    s2 = s2
    a = a
    b = b
    c = c
    None = None
    Names <- StoredNames
    Managed <- FirstNames
    MaxSteps = 3
    Absent = Absent
    Emptied = Emptied
    Address <- OneAddress
    Mtu <- OneMtu
    Nodes <- MCNodes
    Targets <- RoaAndBird
    Home <- MCHome
    Kind <- MCKind
    Rank <- MCRank
    Versions <- MCVersions
    Texts <- AllTexts
    Syncs <- OneSync
    Collecting = FALSE
SPECIFICATION SpecSync
PROPERTIES RecordedMeansApplied

