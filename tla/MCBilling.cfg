SPECIFICATION Spec
CONSTANTS
  Null = Null
  NoRow = NoRow
  NoCust = NoCust
  Products = {"prod"}
  Plans = {"monthly", "yearly", "metered"}
  Customers = {"cust"}
  Subs = {"sub"}
  Items = {"item", "monthly", "yearly"}
  Invoices = {"inv"}
  Payments = {"pay"}
  Coupons = {"off"}
  Notes = {"note"}
  Base = "usd"
  Cur = "eur"
  Rate <- MCRate
  Sources = {"stripe", "chargebee"}
  Scenes = {"subs", "bills"}
  MaxTurns = 4
  MaxFaults = 2
  MaxBoth = 4
INVARIANTS TypeOK RedeliveryChangesNothing AmountFollows ItemsAddUp NothingLost BillsFollow PaidIsReal TrialOutcome
CHECK_DEADLOCK FALSE
