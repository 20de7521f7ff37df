CONSTANTS
  Callers = {c1, c2}
  Networks = {"N1", "N2"}
  Reads <- MCReads
  Ttl = 1
  Latency = 1
  Nothing = Nothing
  Users = {u1, u2}
  Keys = {k1, k2}
  MaxNumber = 2
  MaxAccounts = 2
  Unset = Unset
  Undefined = Undefined
  Asked <- MCAsked
  ValidSegments = {"dom", "sub", "apt"}
  Expiries = {3, 5}
  Deployed = {"MAINNET"}
  SecondMs = 2
  DayMs = 4
  MonthDays <- MCMonthDays
  GraceDays = 2
  HexBase = 3
  Decimals = 2
  LowerCase = 2
  Letters = 5
  LENGTH = 2
  MaxTyped = 5
SPECIFICATION Behaviour
SYMMETRY Alike
INVARIANTS
  CachedAnswersAreRecent
  RefusedOnlyWhenOvertaken
  DeriveResolvesTheScheme
  NamesKeepTheirTimes
  AddressesAreReadAsWritten
