CONSTANTS
  Items = {a, b}
  Consumers = {c1, c2, c3}
  NoItem = NoItem
  MaxPuts = 0
  Callers = {c1, c2}
  Null = Null
  Undefined = Undefined
  maximumInFlight = 2
  maxWaitTime = 1
  StartNumbers = {0, 1}
  MaxNumber = 0
  timeoutSecs = 512
  FirstBackoff = 512
  RequestTimes = {0, 2560}
  LongWaits = {0, 25600, 76800}
  Runners = {c1, c2}
  MAXIMUM_WAIT_TIME_SEC = 3
  LongestCheck = 1
  MaxNodes = 0
  Names = {"alice", "bob"}
  Addresses = {"0x123", "0x456"}
SPECIFICATION Waiter
INVARIANT NamesAreSeparated
CHECK_DEADLOCK FALSE
