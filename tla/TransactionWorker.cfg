CONSTANTS
  NumPayloads = 2
  MaxStarts = 2
  MaxStops = 1
  Null = Null
  maximumInFlight = 2
  maxWaitTime = 0
  StartNumbers = {0}
  MaxNumber = 8
SPECIFICATION Spec
INVARIANTS
  EventsFollowLifecycle
  RecordsMatchSubmissions
  SubmittedIsNeverLost
  NumbersAreNotReused
CHECK_DEADLOCK FALSE
