SPECIFICATION Spec
CONSTANTS
  v1 = v1
  a1 = a1
  b1 = b1
  x1 = x1
  m1 = m1
  none = none
  missing = missing
  gone = gone
  Base = "USD"
  Currencies = {"EUR"}
  Seeds = {"USD", "EUR"}
  Detected = {}
  Days <- MCDays
  Quote <- MCQuote
  Unit = 2
  Lookback = 2
  NoRate = none
  Null = missing
  NoRow = none
  NoObject = gone
  Vendors = {v1}
  Accounts = {a1}
  Bills = {b1}
  Expenses = {x1}
  Payments = {m1}
  Contents <- MCContents
  FirstBooks <- MCFirstBooks
  Today = 3
  MaxChanges = 2
  MaxRequests = 2
  MaxBackfills = 1
  MaxFaults = 1
INVARIANTS VoidedStaysOut LinesAddUp BooksMirrored ExpensesAreTheBooks OnlySinceLeavesGaps
CHECK_DEADLOCK FALSE
