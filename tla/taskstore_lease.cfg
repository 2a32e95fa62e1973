SPECIFICATION Spec
CONSTANTS
    Ids = {"t1", "t2"}
    Workers = {"w1", "w2"}
    Lease = 1
    LastTime = 3
    Given <- MCGiven
    Isolations = {"read committed", "repeatable read"}
INVARIANT LeaseExclusive
CHECK_DEADLOCK FALSE
