\* Runs over an agent, over SSH and overlapping over SSH, until things settle. With the
\* target in place and not desired, nothing is left to do.
CONSTANTS
    v1 = v1
    v2 = v2
    r1 = r1
    i1 = i1
    i2 = i2
    n1 = n1
    wg = wg
    s1 = s1
    s2 = s2
    Absent = Absent
    Emptied = Emptied
    Versions <- OneVersion
    Runs <- OneRun
    Ids <- TwoIds
SPECIFICATION SpecSync
PROPERTIES AgentRecordsAreEarned AgentForceWins Converges ForceRepairs
CHECK_DEADLOCK FALSE
