SPECIFICATION FairSpec
CONSTANTS
    Docs = {"d1", "d2"}
    Jobs = {"j1", "j2"}
    Texts <- MCTexts
    MaxCharacters = 3
    MaxRestarts = 1
INVARIANTS TypeOK ChunksCover CurrentIndexed OverlapKeepsOne
PROPERTIES JobsEnd
CHECK_DEADLOCK FALSE
