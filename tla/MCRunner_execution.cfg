SPECIFICATION FairSpec
CONSTANTS
    Rounds = 2
    MaxLines = 1
    MaxFaults = 1
    Packages = {1, 2}
    Commit = {"x", "y"}
    Revisions <- MCRevisions
    MaxSnapshots = 1
    Plans <- MCPlans
INVARIANTS
    RowsPaired
    NoSurvivor
    SnapshotsSound
PROPERTIES
    ResultsKept
    RunEnds
CHECK_DEADLOCK FALSE
