CONSTANTS
  NumPayloads = 2
  MaxStarts = 1
  MaxStops = 1
  Null = Null
  maximumInFlight = 1
  maxWaitTime = 0
  StartNumbers = {0, 1}
  MaxNumber = 8
SPECIFICATION ManagedSpec
PROPERTIES
  EverySubmissionIsReported
CHECK_DEADLOCK FALSE
