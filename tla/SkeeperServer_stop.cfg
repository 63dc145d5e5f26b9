SPECIFICATION Spec
CONSTANTS
  u1 = u1
  u2 = u2
  NoRow = NoRow
  NoId = NoId
  NoHandler = NoHandler
  Handlers = {h1, h2}
  Ids = {u1, u2}
  Row <- Rows
  Batches <- Uploads
  Cursors = {1}
CHECK_DEADLOCK FALSE
INVARIANTS
  UpsertInv
  AnswersTaken
  AnsweredBeforeExit
  ExitStatusTrue
  PoolClosesSoon
PROPERTIES
  TableSpec
  StopsWhenTold
  UploadsEnd
