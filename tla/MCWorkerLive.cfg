CONSTANTS
  a = a
  b = b
  c1 = c1
  p0 = p0
  p1 = p1
  state = state
  mrr = mrr
  NoCustomer = NoCustomer
  NoOffset = NoOffset
  NoRow = NoRow
  NoEvent = NoEvent
  Occurrences = {a, b}
  Ids <- MCIds
  IdOf <- MCIdOfShared
  Customers = {c1}
  CustomerOf <- MCCustomerOf
  Partitions = {p0, p1}
  PartitionOf <- MCPartitionOf
  Groups = {mrr}
  Wanted <- MCWantedBoth
  Outages = {"record", "resolve"}
  MaxLog <- MCMaxLog3
  MaxFaults = 3
SPECIFICATION FairSpec
INVARIANT NoSilentLoss
PROPERTY EventuallyPassed
CHECK_DEADLOCK FALSE
