CONSTANTS
  Base = 16
  Objects <- MCObjects
  Transactions <- MCTransactions
  Keys <- MCKeys
  Rests <- MCRests
  MaxHops = 2
  StringLengths <- MCStringLengths
  MaxDepth = 2
  Calls <- MCCalls
  MaxTokens = 5
  ByteValues = 2
  BYTES_PACKED_PER_SCALAR = 2
  MAX_NUM_INPUT_SCALARS = 4
  FieldOrder = 11
  MAX_AUD_VAL_BYTES = 3
  MAX_UID_VAL_BYTES = 1
  MAX_UID_KEY_BYTES = 0
  MAX_COMMITED_EPK_BYTES = 4
  ID_COMMITMENT_LENGTH = 4
  PEPPER_LENGTH = 1
  BLINDER_LENGTH = 1
  TWO_WEEKS_IN_SECONDS = 4
  Hour = 2
  GroupOrder = 5
  S_LENGTH = 4
  HARDENED_OFFSET = 700
  Issuers = {"iss"}
  MaxPepper = 1
  KEY_LENGTH = 1
  ExpiryDates = {3, 6}
  Words = {"w1"}
  Indices = {0, 1, 700, 1399}
  Absent = Absent
  MaxMade = 2
  MaxSeconds = 3
SPECIFICATION CallsAndKeys
INVARIANTS
  TypesAreRead
  AcceptedArgumentsDecode
  ValuesSurviveTheWire
  HashInputsDiffer
  KeysHaveOneOrigin
  LoginsKeepTheirPairs
  SignaturesAreUnique
CHECK_DEADLOCK FALSE
