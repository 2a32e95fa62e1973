SPECIFICATION Spec
CONSTANTS
  Retries <- MCRetries
  Backoffs <- MCBackoffs
  DefaultPause = 1
  Cap = 5
  Timeout = 9
  Replies <- MCReplies
  Texts = 2
  MaxItems = 3
INVARIANTS
  TypeOK
  RetriesPaced
  ReplyIntact
  VectorsMatchTexts
PROPERTY
  CallEnds
