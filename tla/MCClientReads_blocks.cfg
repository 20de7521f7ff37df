CONSTANTS
  MaxVersion = 3
  RequestTimes = {0}
  Histories <- ManyHistories
  PageSize = 1
  Nothing = Nothing
  pageSize = 3
  LastVersions = {0}
SPECIFICATION ReadsAndBlocks
INVARIANT BlocksAreComplete
