CONSTANTS
  s1 = s1
  s2 = s2
  c1 = c1
  c2 = c2
  Subs = {s1, s2}
  Times = {1, 2}
  TrialEvents <- MCTrials
  Customers = {c1, c2}
  CustomerOf <- MCCustomerOf
  Keys = {"tier"}
  Types = {"string", "number"}
  Raws = {"7", "gold"}
  InferType <- MCInferType
  Casts <- MCCasts
  NumberOf <- MCNumberOf
  Country <- MCCountry
  Tenure <- MCTenure
  Bodies <- MCBodies
  FirstSegments <- MCFirstSegments
  Edits <- MCEdits
  PeriodOf <- MCPeriodOf
  Queries <- MCQueries
  MaxWrites = 3
  NoSegment = NoSegment
  NoOp = NoOp
  NoRow = NoRow
  Null = Null
SPECIFICATION SegmentSpec
INVARIANTS StartIsEarliest AuditAgrees SegmentMeans
CHECK_DEADLOCK FALSE
