CONSTANTS
  s1 = s1
  s2 = s2
  c1 = c1
  i1 = i1
  i2 = i2
  Subs = {s1, s2}
  Customers = {c1}
  CustomerOf <- MCCustomerOf
  NoCustomer = NoCustomer
  Prices = {1, 3}
  Invoices = {i1, i2}
  SubOf <- MCSubOf
  MonthOf <- MCMonthOf
  UsageOf <- MCUsageOf
  Window = 2
  RateAt <- MCRateAt
  RateUnit = 1
  MaxClock = 5
  MaxFaults = 0
  NoRow = NoRow
  NoEvent = NoEvent
SPECIFICATION Spec
INVARIANT LedgerIsRevenue
CHECK_DEADLOCK FALSE
