CONSTANTS
    j1 = j1
    j2 = j2
    j3 = j3
    k1 = k1
    k2 = k2
    k3 = k3
    p1 = p1
    p2 = p2
    Null = Null
    LeaseLost = LeaseLost
    Job = {j1, j2, j3}
    Key = {k1, k2, k3}
    JobSpec <- MCSpecs
    Project = {p1, p2}
    Result = {ok}
    Sha = {a}
    LogSeq = {}
    Text = {}
    Bytes <- MCNoBytes
    LeaseTime = 2
    QueueLimit = 1
    LogLimit = 0
    Retention = 1
SYMMETRY MCSymmetry
SPECIFICATION Spec
INVARIANTS TypeOK OneActive SucceededHasArtifact KeysDistinct
PROPERTIES OutcomeIsFinal CancelWins LateHolderRefused HandedOutOnce ImplementsLifecycle
