SPECIFICATION Spec
CONSTANTS
    r1 = r1
    r2 = r2
    r3 = r3
    c1 = c1
    c2 = c2
    Runs = {r1, r2, r3}
    CallIds = {c1}
    Sessions = {"s"}
    MaxToolRounds = 1
    MaxCalls = 1
    MaxActive = 2
    Cost <- MCCost
    Configs <- CompactingConfigs
INVARIANTS OneSummaryInFront FirstPromptFits CompactSound
PROPERTIES SuccessMeansStored
SYMMETRY RunSymmetry
CHECK_DEADLOCK FALSE
