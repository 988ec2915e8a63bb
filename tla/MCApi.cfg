SPECIFICATION Spec
CONSTANTS
  Clients = {r1, r2}
  MaxTokens = 3
  MaxTokenFaults = 1
  Users = {u1, u2}
  Requests = {r1, r2}
  DashboardIds = {d1, d2}
  SectionIds = {s1}
  ChartIds = {c1}
  PlacementIds = {p1}
  KeyIds = {k1}
  Nobody = Nobody
  Subs = {b1, b2}
  ApiConnectors = {stripe, chargebee}
  WorkerConnectors = {stripe, chargebee}
  MaxAttempts = 3
  NoSub = NoSub
  Scenes = {"tokens", "workspace", "startup"}
SYMMETRY Symmetry
INVARIANTS
  StoredTokenWorks
  CallsSucceed
  DashboardsAreWhole
  StartOrderIsFree
CHECK_DEADLOCK FALSE
