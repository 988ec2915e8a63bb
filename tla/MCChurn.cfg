CONSTANTS
  s1 = s1
  s2 = s2
  c1 = c1
  Subs = {s1, s2}
  Customers = {c1}
  CustomerOf <- MCCustomerOf
  NoCustomer = NoCustomer
  MaxClock = 6
  MaxFaults = 2
  Null = Null
  NoRow = NoRow
  NoEvent = NoEvent
SPECIFICATION Spec
INVARIANTS CountMatches ChurnedHasNone FollowsProvider ChurnIsDated
PROPERTY RedeliveryIsIdempotent
CHECK_DEADLOCK FALSE
