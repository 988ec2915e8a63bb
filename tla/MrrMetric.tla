------------------------------ MODULE MrrMetric ------------------------------
(***************************************************************************)
(* The MRR metric (tidemill/metrics/mrr/metric.py and usage.py): the       *)
(* snapshot, the ledger of movements and the usage buckets that            *)
(* MrrMetric.handle_event keeps, driven by what the connectors emit.  As   *)
(* in ChurnMetric a delivery is one committed handler transaction, and     *)
(* deliveries are repeated, delayed and dead-lettered as Worker lets them. *)
(***************************************************************************)
EXTENDS MrrHandler

CONSTANTS
  MaxFaults,   \* bound on resent webhooks, dead-lettered events and paid
               \* invoices handled twice
  NoEvent      \* no event handled yet

ASSUME ConstantsAssumption == MaxFaults \in Nat /\ NoEvent \notin Event

\* What the metric is asked; its months are two events long.
Query == INSTANCE MetricEndpoints WITH
           None <- NoRow, Fails <- NoEvent, TicksPerDay <- 1, DaysPerMonth <- 2

-----------------------------------------------------------------------------
VARIABLES
  life,    \* where each subscription is at the provider
  price,   \* its monthly price there
  clock,   \* the distinct events so far; the last one's occurred_at
  paid,    \* the invoices paid so far
  stored,  \* the invoices whose lines the state consumer has written
  tables,  \* the metric's tables
  ltv,     \* metric_ltv_invoice, of the LTV metric
  last,    \* the event whose offset may be uncommitted still
  sent,    \* events the connectors have emitted
  parked,  \* events whose handler failed, in dead_letter_event
  odd,     \* history: subscriptions whose events took an irregular course
  faults   \* what MaxFaults bounds, so far

vars == <<life, price, clock, paid, stored, tables, ltv, last, sent, parked, odd, faults>>

\* idle: created and not active (trialing, incomplete).  lapsed: unpaid, and
\* payable again.  ended: deleted.
Lives == {"none", "idle", "active", "paused", "lapsed", "ended"}

Init ==
  /\ life = [s \in Subs |-> "none"]
  /\ price \in [Subs -> Prices]
  /\ clock = 0
  /\ paid = {}
  /\ stored = {}
  /\ tables = Empty
  /\ ltv = {}
  /\ last = NoEvent
  /\ sent = {}
  /\ parked = {}
  /\ odd = {}
  /\ faults = 0

Existing == {"idle", "active", "paused", "lapsed"}
\* What happens to a subscription, as the event types it is translated to.
\* Chargebee reports the end of a pause as resumed, Stripe as activated; Stripe
\* reports the end of a paused collection, which never paused the
\* subscription, as resumed.
Turns(s, type, to) ==
  \/ life[s] = "none" /\ type = "created" /\ to = "idle"
  \/ life[s] \in Existing /\ type = "activated" /\ to = "active"
  \/ life[s] \in Existing /\ type = "changed" /\ to = life[s]
  \/ life[s] = "active" /\ type = "churned" /\ to = "lapsed"
  \/ life[s] \in Existing /\ type = "churned" /\ to = "ended"
  \/ life[s] \in {"idle", "active"} /\ type = "paused" /\ to = "paused"
  \/ life[s] \in {"active", "paused"} /\ type = "resumed" /\ to = "active"

\* What a connector makes of it; p is the price from now on.
Emitted(s, type, p) ==
  [type |-> type, obj |-> s, cust |-> CustomerOf[s], at |-> clock + 1,
   mrr |-> p, prev |-> price[s]]
EmittedPaid(i) ==
  [type |-> "invoice.paid", obj |-> i, cust |-> CustomerOf[SubOf[i]],
   at |-> clock + 1]

\* LtvMetric.handle_event: ON CONFLICT (event_id) DO NOTHING.
HandleLtv(rows, e) ==
  IF e.type # "invoice.paid" \/ \E r \in rows : r.id = Id(e) THEN rows
  ELSE rows \union {[id |-> Id(e), cust |-> e.cust,
                     amount |-> Base(e, UsageOf[e.obj])]}

\* The two metrics are groups of their own, and read nothing of each other.
HandleBoth(e) ==
  /\ tables' = Handle(tables, e, stored)
  /\ ltv' = HandleLtv(ltv, e)

\* A history the ledger is right about: money moves only between active and
\* not active, and no two movements of the subscription share an id.
Regular(s, type) ==
  /\ type \in {"changed", "churned", "paused"} => life[s] = "active"
  /\ type = "resumed" => life[s] = "paused"
  /\ type = "activated" => life[s] \in {"idle", "active"}
  /\ type # "activated" => ~\E e \in sent : Id(e) = <<type, s>>

\* The next event of a subscription.
Emit(s, type, to, p) ==
  /\ clock < MaxClock
  /\ Turns(s, type, to)
  /\ type = "changed" <=> p # price[s]
  /\ clock' = clock + 1
  /\ life' = [life EXCEPT ![s] = to]
  /\ price' = [price EXCEPT ![s] = p]
  /\ sent' = sent \union {Emitted(s, type, p)}
  /\ UNCHANGED <<paid, stored>>

\* An event is handled for the first time.
Deliver(s, type, to, p) ==
  /\ Emit(s, type, to, p)
  /\ HandleBoth(Emitted(s, type, p))
  /\ last' = Emitted(s, type, p)
  /\ odd' = odd \union (IF Regular(s, type) THEN {} ELSE {s})
  /\ UNCHANGED <<parked, faults>>

\* The handler raised (no fx_rate for the currency): the event becomes a
\* dead-letter row.
Park(s, type, to, p) ==
  /\ faults < MaxFaults
  /\ Emit(s, type, to, p)
  /\ parked' = parked \union {Emitted(s, type, p)}
  /\ last' = NoEvent
  /\ odd' = odd \union {s}
  /\ faults' = faults + 1
  /\ UNCHANGED <<tables, ltv>>

\* An invoice is paid, once.  It bills a subscription the provider knows.
PayInvoice(i) ==
  /\ clock < MaxClock
  /\ i \notin paid
  /\ life[SubOf[i]] # "none"
  /\ clock' = clock + 1
  /\ paid' = paid \union {i}
  /\ sent' = sent \union {EmittedPaid(i)}
  /\ HandleBoth(EmittedPaid(i))
  /\ last' = EmittedPaid(i)
  /\ odd' = odd \union (IF life[SubOf[i]] = "active" /\ i \in stored THEN {}
                        ELSE {SubOf[i]})
  /\ UNCHANGED <<life, price, stored, parked, faults>>

\* The state consumer, a group of its own, handles invoice.created.
StoreLines(i) ==
  /\ i \notin stored
  /\ life[SubOf[i]] # "none"
  /\ stored' = stored \union {i}
  /\ UNCHANGED <<life, price, clock, paid, tables, ltv, last, sent, parked, odd, faults>>

\* The subscription an event is about, when it may be irregular to handle the
\* event again.
Disturbed(e) == IF e.obj \in Invoices THEN {SubOf[e.obj]} ELSE {e.obj}

\* A crash between session.commit() and consumer.commit(): the same event is
\* handled once more.  A paid invoice, whose usage is added again each time, is
\* bounded by MaxFaults.
Redeliver ==
  /\ last # NoEvent
  /\ HandleBoth(last)
  /\ IF last.type = "invoice.paid"
     THEN /\ faults < MaxFaults
          /\ faults' = faults + 1
          /\ odd' = odd \union Disturbed(last)
     ELSE UNCHANGED <<faults, odd>>
  /\ UNCHANGED <<life, price, clock, paid, stored, last, sent, parked>>

\* dlq-replay publishes a parked event without its customer.
Replay(e) ==
  LET f == [e EXCEPT !.cust = NoCustomer]
  IN  /\ e \in parked
      /\ parked' = parked \ {e}
      /\ HandleBoth(f)
      /\ last' = f
      /\ UNCHANGED <<life, price, clock, paid, stored, sent, odd, faults>>

\* The provider sends an old webhook again.
Resend(e) ==
  /\ faults < MaxFaults
  /\ e \in sent
  /\ HandleBoth(e)
  /\ last' = e
  /\ odd' = odd \union Disturbed(e)
  /\ faults' = faults + 1
  /\ UNCHANGED <<life, price, clock, paid, stored, sent, parked>>

Next ==
  \/ \E s \in Subs, type \in LifeTypes, to \in Lives, p \in Prices :
        Deliver(s, type, to, p) \/ Park(s, type, to, p)
  \/ \E i \in Invoices : PayInvoice(i) \/ StoreLines(i)
  \/ Redeliver
  \/ \E e \in sent : Replay(e) \/ Resend(e)

Spec == Init /\ [][Next]_vars

-----------------------------------------------------------------------------
(* Properties *)

Ledger(s) == Total({m \in tables.movements : m.sub = s})
\* The usage component in the snapshot.
UsageMrr(s) == IF tables.snapshot[s] = NoRow THEN 0 ELSE tables.snapshot[s].usage
\* What a subscription contributes to MRR.
Revenue(s) == IF life[s] = "active" THEN price[s] + UsageMrr(s) ELSE 0

\* metric_mrr_snapshot.
SnapshotRows ==
  {[cust |-> CustomerOf[s], sub |-> s, licensed |-> tables.snapshot[s].sub,
    usage |-> tables.snapshot[s].usage] :
     s \in {r \in Subs : tables.snapshot[r] # NoRow}}

\* At rate 1 the movements of a subscription with a regular history
\* add up to what it is worth now, usage that churned included; and when all
\* histories are regular, the historical MRR query, which sums the ledger,
\* agrees with the current ones, which read the snapshot.
LedgerAddsUp == \A s \in Subs \ odd : Ledger(s) = Revenue(s)
QueriesAgree ==
  LET now == Query!GetMrr("components", tables.movements, SnapshotRows, Query!Now)
      total(at) == Query!GetMrr("mrr", tables.movements, SnapshotRows, Query!AtDay(at))
      payers == {CustomerOf[s] : s \in {r \in Subs : Revenue(r) > 0}}
  IN  /\ now.mrr = total(NoRow) /\ now.mrr = total(clock)
      /\ now.usage = MapThenSumSet(UsageMrr, {s \in Subs : life[s] = "active"})
      /\ Query!CurrentArpu(SnapshotRows) =
           IF payers = {} THEN NoRow
           ELSE [mrr |-> now.mrr, of |-> Cardinality(payers)]
LedgerMatches ==
  /\ LedgerAddsUp
  /\ odd = {} /\ (\A s \in Subs : life[s] # "idle") => QueriesAgree

\* The snapshot holds the provider's price from creation (trials included) to
\* the churn or pause, through redeliveries and changes of plan.
SnapshotFollows ==
  \A s \in Subs \ odd :
     IF life[s] = "none" THEN tables.snapshot[s] = NoRow
     ELSE tables.snapshot[s].sub =
            IF life[s] \in {"idle", "active"} THEN price[s] ELSE 0

MonthlyUsage(s, m) ==
  MapThenSumSet(LAMBDA i : UsageOf[i], {i \in paid : SubOf[i] = s /\ MonthOf[i] = m})
\* metric_mrr_usage_component.
UsageRows ==
  {[cust |-> CustomerOf[x[1]], sub |-> x[1], month |-> x[2],
    usage |-> tables.buckets[x[1]][x[2]]] :
     x \in {y \in Subs \X Months : tables.buckets[y[1]][y[2]] # NoRow}}

\* The usage component, once there is one, is the floor of the mean of the
\* latest months billed, over the months that exist if fewer than the window.
MeanOfBilled(s) ==
  \E recent \in SUBSET {MonthOf[i] : i \in {j \in paid : SubOf[j] = s}} :
     /\ recent # {}
     /\ \A i \in paid : SubOf[i] = s /\ MonthOf[i] \notin recent =>
           /\ Cardinality(recent) = Window
           /\ \A m \in recent : MonthOf[i] < m
     /\ UsageMrr(s) =
          MapThenSumSet(LAMBDA m : MonthlyUsage(s, m), recent)
            \div Cardinality(recent)

\* Revenue from usage is what the invoices paid in regular histories billed,
\* month by month and customer by customer, and the cohorts' lifetime revenue
\* is what their customers' invoices came to.
BilledIn(a, b, c) ==
  MapThenSumSet(LAMBDA i : UsageOf[i],
    {i \in paid : MonthOf[i] \in a..b /\ CustomerOf[SubOf[i]] = c})
RevenueIsBilled ==
  LET usage(route, a, b) == Query!GetUsageRevenue(route, UsageRows, a, b)
      of(a, b, C) == MapThenSumSet(LAMBDA c : BilledIn(a, b, c), C)
      cohorts == Query!GetLtv("ltv/cohort", tables.movements, {}, {}, ltv,
                              Query!InWindow(0, clock))
      joined == {m.cust : m \in {n \in tables.movements : n.kind = "new"}}
  IN  /\ \A a, b \in Months :
           LET customers == usage("usage-revenue/by-customer", a, b)
               months == usage("usage-revenue/series", a, b)
           IN  /\ usage("usage-revenue", a, b) = of(a, b, Customers)
               /\ \A c \in DOMAIN customers : customers[c] = BilledIn(a, b, c)
               /\ \A m \in DOMAIN months : months[m] = of(m, m, Customers)
      /\ MapThenSumSet(LAMBDA m : cohorts[m].revenue, DOMAIN cohorts)
           = of(Min(Months), Max(Months), joined)

\* What paid invoices billed for usage is in the usage component, as a mean, and
\* in the revenue queries, as it is.
UsageIsBilled ==
  /\ \A s \in Subs \ odd : UsageMrr(s) # 0 => MeanOfBilled(s)
  /\ odd = {} => RevenueIsBilled

\* An activation is a reactivation exactly when its customer was a customer
\* before and has nothing active now; the code decides it by the sign of the
\* customer's ledger.
Siblings(s) == {r \in Subs : CustomerOf[r] = CustomerOf[s]}
Returning(s) ==
  /\ \E r \in Siblings(s) : life[r] \in {"paused", "lapsed", "ended"}
  /\ \A r \in Siblings(s) : life[r] # "active"
ClassifiedRight ==
  [][\A s \in Subs : \A m \in tables'.movements \ tables.movements :
       m.id = <<"activated", s>> /\ Siblings(s) \intersect odd' = {} =>
         m.kind = IF Returning(s) THEN "reactivation" ELSE "new"]_vars

\* Handling an event of the redelivery window again changes nothing, but for
\* the usage of a paid invoice; the LTV metric has each paid invoice once.
RedeliveryIsIdempotent ==
  [][Redeliver => /\ UNCHANGED ltv
                  /\ last.type # "invoice.paid" => UNCHANGED tables]_vars

\* No event of the redelivery window changes anything when it is handled again
\* (metrics/base.py:100, docs/architecture/events.md:158), in regular histories:
\* the lines of a paid invoice were there when it was handled first.
EveryRedeliveryIsIdempotent ==
  [][Redeliver /\ odd = {} => UNCHANGED tables]_vars

\* MRR is the sum over active subscriptions (docs/definitions.md:43): what has
\* ended counts for nothing in the ledger, its events delivered once and in
\* order.
LedgerIsRevenue == faults = 0 => \A s \in Subs : life[s] = "ended" => Ledger(s) = 0
=============================================================================
