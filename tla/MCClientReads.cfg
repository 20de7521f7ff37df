CONSTANTS
  MaxVersion = 3
  RequestTimes = {0, 300, 2900}
  Histories <- ManyHistories
  PageSize = 1
  Nothing = Nothing
  pageSize = 3
  LastVersions = {0, 1, 9, 10}
SPECIFICATION ReadsAndBlocks
INVARIANTS
  ReadsAnswerTheCall
  IndexerWaitIsHonest
  PagesAreComplete
  QueriesFitTheSchema
  BlocksAreFilled
PROPERTY ReadsEnd
