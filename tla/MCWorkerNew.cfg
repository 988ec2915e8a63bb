CONSTANTS
  a = a
  b = b
  c1 = c1
  p0 = p0
  p1 = p1
  state = state
  mrr = mrr
  NoCustomer = NoCustomer
  NoOffset = NoOffset
  NoRow = NoRow
  NoEvent = NoEvent
  Occurrences = {a, b}
  Ids <- MCIds
  IdOf <- MCIdOf
  Customers = {c1}
  CustomerOf <- MCCustomerOf
  Partitions = {p0, p1}
  PartitionOf <- MCPartitionOf
  Groups = {mrr}
  Wanted <- MCWanted1
  Outages = {}
  MaxLog <- MCMaxLog
  MaxFaults = 0
SPECIFICATION Spec
INVARIANT HistoryConsumed
CHECK_DEADLOCK FALSE
