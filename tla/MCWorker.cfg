CONSTANTS
  a = a
  b = b
  c1 = c1
  p0 = p0
  p1 = p1
  state = state
  mrr = mrr
  NoCustomer = NoCustomer
  NoOffset = NoOffset
  NoRow = NoRow
  NoEvent = NoEvent
  Occurrences = {a, b}
  Ids <- MCIds
  IdOf <- MCIdOf
  Customers = {c1}
  CustomerOf <- MCCustomerOf
  Partitions = {p0, p1}
  PartitionOf <- MCPartitionOf
  Groups = {state, mrr}
  Wanted <- MCWanted
  Outages = {"commit", "mirror", "resolve"}
  MaxLog <- MCMaxLog
  MaxFaults = 1
SPECIFICATION Spec
INVARIANTS Replayable ResolvedWasHandled RedeliveryWindow
PROPERTIES OffsetsNeverRewind Delivers
CHECK_DEADLOCK FALSE
