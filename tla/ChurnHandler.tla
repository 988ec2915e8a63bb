---------------------------- MODULE ChurnHandler ----------------------------
(***************************************************************************)
(* What one event does to the three tables of the churn metric             *)
(* (ChurnMetric.handle_event, tidemill/metrics/churn/metric.py).           *)
(***************************************************************************)
EXTENDS Integers, FiniteSets

CONSTANTS
  Subs,        \* subscriptions of one source
  Customers,   \* values of Event.customer_id set by the connectors
  CustomerOf,  \* the customer a subscription belongs to
  NoCustomer,  \* the empty Event.customer_id of a replayed event
  Null,        \* SQL NULL
  NoRow        \* no row of metric_churn_customer_state

AllCustomers == Customers \union {NoCustomer}

ASSUME CustomersAssumption ==
  /\ CustomerOf \in [Subs -> Customers]
  /\ NoCustomer \notin Customers

EventTypes == {"created", "activated", "reactivated", "canceled", "churned"}
Event == [type : EventTypes, sub : Subs, cust : AllCustomers, at : Nat]
\* make_event_id: the id depends on the type and the subscription alone.
Id(e) == <<e.type, e.sub>>

\* A row of metric_churn_customer_state.
Row == [active : Nat, first : Nat, churned : Nat \union {Null}]

ASSUME RowAssumption == Null \notin Nat /\ NoRow \notin Row

Kinds == {"logo", "revenue", "canceled"}
\* A row of metric_churn_event; event_id is the event's id with its suffix.
Entry == [id : EventTypes \X Subs, kind : Kinds, cust : AllCustomers, at : Nat]

\* The metric's tables: customer_state, active_subscription, churn_event.
Tables == [state : [AllCustomers -> Row \union {NoRow}],
           tracked : SUBSET (AllCustomers \X Subs),
           entries : SUBSET Entry]

Empty == [state |-> [c \in AllCustomers |-> NoRow], tracked |-> {},
          entries |-> {}]

-----------------------------------------------------------------------------
(* handle_event: what one event does to the tables t *)

\* INSERT INTO metric_churn_event ... ON CONFLICT (event_id) DO NOTHING.
WithEntry(t, e, kind) ==
  IF \E x \in t.entries : x.id = Id(e) /\ x.kind = kind THEN t
  ELSE [t EXCEPT !.entries = @ \union
          {[id |-> Id(e), kind |-> kind, cust |-> e.cust, at |-> e.at]}]

PutState(t, c, row) == [t EXCEPT !.state[c] = row]
\* An UPDATE of the customer's row; it matches nothing if there is none.
WithState(t, c, row) == IF t.state[c] = NoRow THEN t ELSE PutState(t, c, row)

\* The row a customer starts with.
FreshRow(active, e) == [active |-> active, first |-> e.at, churned |-> Null]

\* Mutant of Created: a created subscription already counts as active.
CreatedCounts(t, e) ==
  IF t.state[e.cust] # NoRow THEN t
  ELSE PutState([t EXCEPT !.tracked = @ \union {<<e.cust, e.sub>>}],
                e.cust, FreshRow(1, e))

Created(t, e) ==
  IF t.state[e.cust] # NoRow THEN t
  ELSE PutState(t, e.cust, FreshRow(0, e))

\* The row once one more subscription is active.
OneMore(row, e) ==
  IF row = NoRow THEN FreshRow(1, e)
  ELSE [row EXCEPT !.active = @ + 1, !.churned = Null]

\* The subscription is not tracked yet: track and count it.
Count(t, e) ==
  PutState([t EXCEPT !.tracked = @ \union {<<e.cust, e.sub>>}],
           e.cust, OneMore(t.state[e.cust], e))

\* Mutant of Activated: no check of what the INSERT returned.
ActivatedUnchecked(t, e) == Count(t, e)

\* Mutant of Activated: the counter moves and churned_at stays.
ActivatedStillChurned(t, e) ==
  IF <<e.cust, e.sub>> \in t.tracked THEN t
  ELSE PutState([t EXCEPT !.tracked = @ \union {<<e.cust, e.sub>>}], e.cust,
                IF t.state[e.cust] = NoRow THEN FreshRow(1, e)
                ELSE [t.state[e.cust] EXCEPT !.active = @ + 1])

Activated(t, e) ==
  IF <<e.cust, e.sub>> \in t.tracked
  THEN WithState(t, e.cust, [t.state[e.cust] EXCEPT !.churned = Null])
  ELSE Count(t, e)

\* GREATEST(active_subscriptions - 1, 0).
OneLess(row) == [row EXCEPT !.active = IF @ > 0 THEN @ - 1 ELSE 0]

\* DELETE the tracked subscription and, if there was one, decrement.
Uncount(t, e) ==
  IF <<e.cust, e.sub>> \notin t.tracked THEN t
  ELSE WithState([t EXCEPT !.tracked = @ \ {<<e.cust, e.sub>>}], e.cust,
                 OneLess(t.state[e.cust]))

\* The customer's row says that nothing is active.
NoneActive(t, c) == t.state[c] # NoRow /\ t.state[c].active = 0
ChurnedAt(row, e) == [row EXCEPT !.churned = e.at]

\* Nothing active is left: date the churn and record the lost logo.
LogoLost(t, e) ==
  IF ~NoneActive(t, e.cust) THEN t
  ELSE WithEntry(PutState(t, e.cust, ChurnedAt(t.state[e.cust], e)), e, "logo")

\* Mutant of Churned: churned_at is set, the logo event is forgotten.
ChurnedNoLogo(t, e) ==
  LET u == Uncount(t, e)
      v == IF ~NoneActive(u, e.cust) THEN u
           ELSE PutState(u, e.cust, ChurnedAt(u.state[e.cust], e))
  IN  WithEntry(v, e, "revenue")

Churned(t, e) == WithEntry(LogoLost(Uncount(t, e), e), e, "revenue")

Handle(t, e) ==
  CASE e.type = "created"                        -> Created(t, e)
    [] e.type \in {"activated", "reactivated"}   -> Activated(t, e)
    [] e.type = "churned"                        -> Churned(t, e)
    [] e.type = "canceled"                       -> WithEntry(t, e, "canceled")
=============================================================================
