CONSTANTS
  s1 = s1
  s2 = s2
  s3 = s3
  c1 = c1
  c2 = c2
  stripe = stripe
  chargebee = chargebee
  Subs = {s1, s2, s3}
  Customers = {c1, c2}
  CustomerOf <- MCCustomerOf
  NoCustomer = NoCustomer
  Prices = {1, 3}
  FirstPrice <- MCFirstPrice
  Happens <- MCHappens
  TicksPerDay = 2
  DaysPerMonth = 2
  MaxClock = 7
  MaxLag = 1
  Unstored = {c1}
  SourceOf <- MCSourceOf
  LifetimeDays = 3
  Null = Null
  Fails = Fails
  NoRow = NoRow
SPECIFICATION Spec
INVARIANTS HistoryIsRevenue ChurnAgrees
PROPERTY ClosedWindowsStay
CHECK_DEADLOCK FALSE
