CONSTANTS
  k1 = k1
  k2 = k2
  p = p
  Signers = {k1, k2}
  Calls = {c1, c2}
  Plain = {p}
  KeyIndex <- MCKeyIndex
  MaxSigners = 2
  maxExpHorizonSecs = 0
  Expiries = {1}
  MaxClock = 2
  Null = Null
  People <- MCPeople
  Drafts <- MCDrafts
  Clients = {d1, d2}
  Generator = d1
  ZERO = ZERO
  MaxSignatures = 3
  Nothing = Nothing
SPECIFICATION SessionSpec
INVARIANTS
  CallbackIsToldTheTruth
  WaitedProofIsThere
  SubmittedIsSigned
  SubmittedVerifies
  SimulationMirrorsSubmission
  VerdictsAreRight
PROPERTY CallsEnd
CHECK_DEADLOCK FALSE
