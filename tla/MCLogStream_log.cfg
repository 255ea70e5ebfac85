CONSTANTS
    j1 = j1
    j2 = j2
    k1 = k1
    p1 = p1
    Null = Null
    LeaseLost = LeaseLost
    Job = {j1, j2}
    Key = {k1}
    JobSpec <- MCOneSpec
    Project = {p1}
    Result = {ok}
    Sha = {}
    LogSeq = {0, 1}
    Text <- MCTexts
    Bytes <- MCBytes
    LeaseTime = 2
    QueueLimit = 1
    LogLimit = 3
    Retention = 1
    Watched = j1
    MaxEvents = 2
    QueueSize = 1
    PageSize = 1
SPECIFICATION FairStreamSpec
INVARIANT LogExact PreviewInOrder
PROPERTY EveryJobLeavesQueue
