SPECIFICATION FairSpec
CONSTANTS
    Jobs = {"j1", "j2", "j3", "j4"}
    Ids = {"a", "j3", "j4"}
    IdOf <- MCIdOf
    Workers = {"w1", "w2"}
    Buffer = 1
INVARIANTS NothingLost SettledRecord
PROPERTIES StatusForward AcceptedFinish
CHECK_DEADLOCK FALSE
