----------------------------- MODULE MrrHandler -----------------------------
(***************************************************************************)
(* What one event does to the MRR metric's tables: the snapshot, the       *)
(* ledger of movements and the usage buckets (MrrMetric.handle_event,      *)
(* tidemill/metrics/mrr/metric.py and usage.py).                           *)
(*                                                                         *)
(* Amounts are base-currency cents: what to_base_cents makes of the        *)
(* payload's amount at the rate of the event's date.  The columns in the   *)
(* original currency are these at rate 1, and the combined mrr columns are *)
(* the sum of the two components.                                          *)
(***************************************************************************)
EXTENDS Integers, FiniteSets, FiniteSetsExt

CONSTANTS
  Subs, Customers, CustomerOf,
  NoCustomer,  \* the empty Event.customer_id of a replayed event
  Prices,      \* monthly prices of a subscription
  Invoices,    \* paid invoices that bill usage
  SubOf,       \* the subscription an invoice bills
  MonthOf,     \* the month its usage is bucketed in
  UsageOf,     \* the total of its lines of kind 'usage'
  Window,      \* USAGE_TRAILING_MONTHS
  RateAt,      \* the fx_rate that applies at each date, in units of
  RateUnit,    \* 1/RateUnit
  MaxClock,    \* the last occurred_at
  NoRow        \* an absent row

AllCustomers == Customers \union {NoCustomer}
Objects == Subs \union Invoices

ASSUME HandlerAssumption ==
  /\ CustomerOf \in [Subs -> Customers]
  /\ NoCustomer \notin Customers
  /\ IsFiniteSet(Subs) /\ IsFiniteSet(Customers) /\ IsFiniteSet(Invoices)
  /\ Subs \intersect Invoices = {}
  /\ Prices \subseteq Nat \ {0}
  /\ SubOf \in [Invoices -> Subs]
  /\ MonthOf \in [Invoices -> Nat]
  /\ UsageOf \in [Invoices -> Nat]
  /\ Window \in Nat \ {0}
  /\ MaxClock \in Nat
  /\ RateAt \in [0..MaxClock -> Nat]
  /\ RateUnit \in Nat \ {0}

LifeTypes == {"created", "activated", "changed", "churned", "paused",
              "reactivated", "resumed"}
\* mrr: the amount after the event; prev: the amount before it.
SubEvent == [type : LifeTypes, obj : Subs, cust : AllCustomers,
             at : 0..MaxClock, mrr : Nat, prev : Nat]
InvoiceEvent == [type : {"invoice.paid"}, obj : Invoices, cust : AllCustomers,
                 at : 0..MaxClock]
Event == SubEvent \union InvoiceEvent
\* make_event_id: the id depends on the type and the object alone.
Id(e) == <<e.type, e.obj>>

Kinds == {"new", "expansion", "contraction", "churn", "reactivation"}
\* metric_mrr_movement; usage: the event_id has the suffix "#usage".
Movement == [id : (LifeTypes \union {"invoice.paid"}) \X Objects,
             usage : BOOLEAN, kind : Kinds, cust : AllCustomers, sub : Subs,
             amount : Int, at : 0..MaxClock]
\* metric_mrr_snapshot: the subscription and the usage component.
Row == [sub : Nat, usage : Nat]

Months == {MonthOf[i] : i \in Invoices}
\* metric_mrr_usage_component is keyed by subscription and month.
Tables == [snapshot : [Subs -> Row \union {NoRow}],
           movements : SUBSET Movement,
           buckets : [Subs -> [Months -> Nat \union {NoRow}]]]

ASSUME RowAssumption == NoRow \notin Row /\ NoRow \notin Nat

Empty == [snapshot |-> [s \in Subs |-> NoRow], movements |-> {},
          buckets |-> [s \in Subs |-> [m \in Months |-> NoRow]]]

-----------------------------------------------------------------------------
(* handle_event, the subscription branches: what event e does to tables t *)

\* to_base_cents: int() truncates towards zero.
Base(e, amount) ==
  IF amount >= 0 THEN (amount * RateAt[e.at]) \div RateUnit
                 ELSE -((-amount * RateAt[e.at]) \div RateUnit)
Total(M) == MapThenSumSet(LAMBDA m : m.amount, M)

\* _append_movement: ON CONFLICT (event_id) DO NOTHING.
AppendMovement(t, e, usage, kind, sub, amount) ==
  IF \E m \in t.movements : m.id = Id(e) /\ m.usage = usage THEN t
  ELSE [t EXCEPT !.movements = @ \union
          {[id |-> Id(e), usage |-> usage, kind |-> kind, cust |-> e.cust,
            sub |-> sub, amount |-> amount, at |-> e.at]}]

\* Mutant of UpsertSnapshot: the amounts of a conflict add up, as they do in
\* the usage buckets.
UpsertAdds(t, s, amount) ==
  [t EXCEPT !.snapshot[s] = IF @ = NoRow THEN [sub |-> amount, usage |-> 0]
                            ELSE [@ EXCEPT !.sub = @ + amount]]

\* _upsert_snapshot keeps the usage component of an existing row.
UpsertSnapshot(t, s, amount) ==
  [t EXCEPT !.snapshot[s] = IF @ = NoRow THEN [sub |-> amount, usage |-> 0]
                            ELSE [@ EXCEPT !.sub = amount]]
ClearSnapshot(t, s) == [t EXCEPT !.snapshot[s] = [sub |-> 0, usage |-> 0]]

\* Mutant of ClassifyActivation: only this subscription's movements are read.
ClassifyBySub(t, e) ==
  LET earlier == {m \in t.movements : m.sub = e.obj /\ m.at < e.at}
  IN  IF earlier # {} /\ Total(earlier) <= 0 THEN "reactivation" ELSE "new"

\* _classify_activation reads the customer's movements before the event.
ClassifyActivation(t, e) ==
  LET earlier == {m \in t.movements : m.cust = e.cust /\ m.at < e.at}
  IN  IF earlier # {} /\ Total(earlier) <= 0 THEN "reactivation" ELSE "new"

Created(t, e) == UpsertSnapshot(t, e.obj, Base(e, e.mrr))

Activated(t, e) ==
  AppendMovement(UpsertSnapshot(t, e.obj, Base(e, e.mrr)), e, FALSE,
                 ClassifyActivation(t, e), e.obj, Base(e, e.mrr))

\* Mutant of Changed: the snapshot gets the difference instead of the price.
ChangedByDelta(t, e) ==
  LET delta == Base(e, e.mrr - e.prev)
  IN  AppendMovement(UpsertSnapshot(t, e.obj, delta), e, FALSE,
                     IF delta > 0 THEN "expansion" ELSE "contraction",
                     e.obj, delta)

\* subscription.changed: the delta comes from the payload.
Changed(t, e) ==
  LET delta == Base(e, e.mrr - e.prev)
  IN  AppendMovement(UpsertSnapshot(t, e.obj, Base(e, e.mrr)), e, FALSE,
                     IF delta > 0 THEN "expansion" ELSE "contraction",
                     e.obj, delta)

\* Mutant of ChurnedOrPaused: the usage component is read after the row was
\* cleared.
ChurnedLateRead(t, e) ==
  AppendMovement(ClearSnapshot(t, e.obj), e, FALSE, "churn", e.obj,
                 -Base(e, e.prev))

\* subscription.churned and paused: the usage component is lost as well.
ChurnedOrPaused(t, e) ==
  LET usage == IF t.snapshot[e.obj] = NoRow THEN 0 ELSE t.snapshot[e.obj].usage
  IN  AppendMovement(ClearSnapshot(t, e.obj), e, FALSE, "churn", e.obj,
                     -(Base(e, e.prev) + usage))

Resumed(t, e) ==
  AppendMovement(UpsertSnapshot(t, e.obj, Base(e, e.mrr)), e, FALSE,
                 "reactivation", e.obj, Base(e, e.mrr))

-----------------------------------------------------------------------------
(* handle_event, the invoice.paid branch (usage.py) *)

\* Mutant of TrailingMean: divided by the window, not by the months present.
MeanOverWindow(t, s) ==
  LET present == {m \in Months : t.buckets[s][m] # NoRow}
      latest == {m \in present :
                   Cardinality({n \in present : n > m}) < Window}
  IN  MapThenSumSet(LAMBDA m : t.buckets[s][m], latest) \div Window

\* The floor of the mean of the latest Window buckets of s.
TrailingMean(t, s) ==
  LET present == {m \in Months : t.buckets[s][m] # NoRow}
      latest == {m \in present :
                   Cardinality({n \in present : n > m}) < Window}
  IN  MapThenSumSet(LAMBDA m : t.buckets[s][m], latest) \div Cardinality(latest)

\* The usage component follows the mean, and the ledger gets the difference;
\* without a snapshot row the average is not applied.
ApplyTrailingAverage(t, e, s) ==
  LET new == TrailingMean(t, s)
      delta == new - t.snapshot[s].usage
  IN  IF t.snapshot[s] = NoRow \/ delta = 0 THEN t
      ELSE AppendMovement([t EXCEPT !.snapshot[s].usage = new], e, TRUE,
                          IF delta > 0 THEN "expansion" ELSE "contraction",
                          s, delta)

\* The invoice's total is added to its month's bucket.
AddToBucket(t, i) ==
  [t EXCEPT !.buckets[SubOf[i]][MonthOf[i]] =
              (IF @ = NoRow THEN 0 ELSE @) + UsageOf[i]]

\* The lines are read from the tables of the state consumer: stored are the
\* invoices it has written.
InvoicePaid(t, e, stored) ==
  IF e.obj \notin stored THEN t
  ELSE ApplyTrailingAverage(AddToBucket(t, e.obj), e, SubOf[e.obj])

Handle(t, e, stored) ==
  CASE e.type = "created"                      -> Created(t, e)
    [] e.type = "activated"                    -> Activated(t, e)
    [] e.type = "changed"                      -> Changed(t, e)
    [] e.type \in {"churned", "paused"}        -> ChurnedOrPaused(t, e)
    [] e.type \in {"reactivated", "resumed"}   -> Resumed(t, e)
    [] e.type = "invoice.paid"                 -> InvoicePaid(t, e, stored)
=============================================================================
