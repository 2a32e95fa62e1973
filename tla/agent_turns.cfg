SPECIFICATION FairSpec
CONSTANTS
    r1 = r1
    r2 = r2
    r3 = r3
    c1 = c1
    c2 = c2
    Runs = {r1, r2}
    CallIds = {c1, c2}
    Sessions = {"s"}
    MaxToolRounds = 1
    MaxCalls = 2
    MaxActive = 2
    Cost <- MCCost
    Configs <- PlainConfigs
INVARIANTS TypeOK ResultsBelongToCalls
PROPERTIES ImplementsTurnLog RunsEnd
CHECK_DEADLOCK FALSE
