CONSTANTS
    j1 = j1
    j2 = j2
    k1 = k1
    k2 = k2
    w1 = w1
    w2 = w2
    p1 = p1
    Null = Null
    LeaseLost = LeaseLost
    Job = {j1, j2}
    Key = {k1, k2}
    JobSpec <- MCSpecs
    Project = {p1}
    Worker = {w1, w2}
    Result = {w1, w2}
    Sha = {w1, w2}
    LogSeq = {}
    Text = {}
    Bytes <- MCNoBytes
    LeaseTime = 3
    QueueLimit = 1
    LogLimit = 0
    Retention = 1
    LocalLimit = 1
    StopTime = 1
    MaxLate = 1
    Ending = {}
SYMMETRY MCSymmetry
SPECIFICATION SysSpec
INVARIANTS ExecutionExclusive RunnerHoldsLease
