SPECIFICATION FairSpec
CONSTANTS
    Ids = {"t1", "t2"}
    Workers = {"w1", "w2"}
    Lease = 1
    LastTime = 3
    Given <- MCGiven
    Isolations = {"read committed", "repeatable read"}
INVARIANTS TypeOK SnapshotExclusive
PROPERTY OnlyFailuresStrand
CHECK_DEADLOCK FALSE
