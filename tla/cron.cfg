SPECIFICATION CronFairSpec
CONSTANTS
    Jobs = {"a1", "a2", "b1", "d"}
    Ids = {"a", "b", "d"}
    IdOf <- MCIdOf
    Workers = {"w"}
    Buffer = 1
    Entries = {"a", "b"}
    Schedule <- MCSchedule
    LastMinute = 1
    Adder = "a"
    Added = "b"
INVARIANT OncePerMinute
PROPERTIES ImplementsQueue TicksEnd FiresFinish
CHECK_DEADLOCK FALSE
