----------------------------- MODULE ChurnMetric -----------------------------
(***************************************************************************)
(* The churn metric (tidemill/metrics/churn/metric.py): the three tables   *)
(* that ChurnMetric.handle_event keeps, driven by the subscription events  *)
(* the connectors emit.  A delivery is one committed handler transaction;  *)
(* how deliveries come about is Worker's subject, and what Worker lets     *)
(* happen is repeated here: a crash handles the last event again, a        *)
(* provider resends an old webhook, a failed event is dead-lettered and    *)
(* later replayed under the empty customer.                                *)
(***************************************************************************)
EXTENDS ChurnHandler

CONSTANTS
  MaxClock,    \* bound on the number of distinct events
  MaxFaults,   \* bound on resent webhooks and dead-lettered events
  NoEvent      \* no event handled yet

ASSUME ConstantsAssumption ==
  MaxClock \in Nat /\ MaxFaults \in Nat /\ NoEvent \notin Event

-----------------------------------------------------------------------------
VARIABLES
  life,    \* where each subscription is at the provider
  clock,   \* the distinct events so far; the last one's occurred_at
  tables,  \* the metric's tables
  last,    \* the event whose offset may be uncommitted still
  sent,    \* events the connectors have emitted
  parked,  \* events whose handler failed, in dead_letter_event
  faults   \* resent webhooks and dead-lettered events so far

vars == <<life, clock, tables, last, sent, parked, faults>>

\* idle: created and not active (trialing, incomplete).  lapsed: unpaid, and
\* payable again.  ended: deleted.
Lives == {"none", "idle", "active", "lapsed", "ended"}

TypeOK ==
  /\ life \in [Subs -> Lives]
  /\ clock \in Nat
  /\ tables \in Tables
  /\ last \in Event \union {NoEvent}
  /\ sent \subseteq Event
  /\ parked \subseteq sent
  /\ faults \in Nat

Init ==
  /\ life = [s \in Subs |-> "none"]
  /\ clock = 0
  /\ tables = Empty
  /\ last = NoEvent
  /\ sent = {}
  /\ parked = {}
  /\ faults = 0

\* What happens to a subscription, as the event types it is translated to.
\* Stripe reports unpaid and deleted alike as churned, and anything that turns
\* active as activated, past_due included.
Turns(s, type, to) ==
  \/ life[s] = "none" /\ type = "created" /\ to = "idle"
  \/ life[s] \in {"idle", "active", "lapsed"} /\ type = "activated"
       /\ to = "active"
  \/ life[s] \in {"idle", "active", "lapsed"} /\ type = "canceled"
       /\ to = life[s]
  \/ life[s] = "active" /\ type = "churned" /\ to = "lapsed"
  \/ life[s] \in {"idle", "active", "lapsed"} /\ type = "churned"
       /\ to = "ended"

\* What a connector makes of it.
Emitted(s, type) ==
  [type |-> type, sub |-> s, cust |-> CustomerOf[s], at |-> clock + 1]

\* The next event of a subscription.
Emit(s, type, to) ==
  /\ clock < MaxClock
  /\ Turns(s, type, to)
  /\ clock' = clock + 1
  /\ life' = [life EXCEPT ![s] = to]
  /\ sent' = sent \union {Emitted(s, type)}

\* An event is handled for the first time.
Deliver(s, type, to) ==
  /\ Emit(s, type, to)
  /\ tables' = Handle(tables, Emitted(s, type))
  /\ last' = Emitted(s, type)
  /\ UNCHANGED <<parked, faults>>

\* A crash between session.commit() and consumer.commit(): the same event is
\* handled once more.
Redeliver ==
  /\ last # NoEvent
  /\ tables' = Handle(tables, last)
  /\ UNCHANGED <<life, clock, last, sent, parked, faults>>

\* The handler raised: the event becomes a dead-letter row.
Park(s, type, to) ==
  /\ faults < MaxFaults
  /\ Emit(s, type, to)
  /\ parked' = parked \union {Emitted(s, type)}
  /\ last' = NoEvent
  /\ faults' = faults + 1
  /\ UNCHANGED tables

\* dlq-replay publishes a parked event without its customer.
Replay(e) ==
  LET f == [e EXCEPT !.cust = NoCustomer]
  IN  /\ e \in parked
      /\ parked' = parked \ {e}
      /\ tables' = Handle(tables, f)
      /\ last' = f
      /\ UNCHANGED <<life, clock, sent, faults>>

\* The provider sends an old webhook again.
Resend(e) ==
  /\ faults < MaxFaults
  /\ e \in sent
  /\ tables' = Handle(tables, e)
  /\ last' = e
  /\ faults' = faults + 1
  /\ UNCHANGED <<life, clock, sent, parked>>

Next ==
  \/ \E s \in Subs, type \in EventTypes, to \in Lives :
        Deliver(s, type, to) \/ Park(s, type, to)
  \/ Redeliver
  \/ \E e \in sent : Replay(e) \/ Resend(e)

Spec == Init /\ [][Next]_vars

-----------------------------------------------------------------------------
(* Properties *)

TrackedOf(t, c) == {r \in t.tracked : r[1] = c}

\* active_subscriptions is the number of the customer's tracked subscriptions,
\* whatever is delivered twice, late, out of turn or under another customer;
\* so GREATEST(... - 1, 0) never hides a miscount.
Counted(t) ==
  \A c \in AllCustomers :
     IF t.state[c] = NoRow THEN TrackedOf(t, c) = {}
     ELSE t.state[c].active = Cardinality(TrackedOf(t, c))
CountMatches == Counted(tables)

\* A customer with a churned_at has no tracked subscription.
ChurnedHasNone ==
  \A c \in AllCustomers :
     tables.state[c] # NoRow /\ tables.state[c].churned # Null =>
        TrackedOf(tables, c) = {}

\* Handling the event of the redelivery window again changes nothing.
RedeliveryIsIdempotent == [][Redeliver => UNCHANGED tables]_vars

\* While nothing is resent or dead-lettered, the metric counts exactly the
\* subscriptions that are active at the provider.
FollowsProvider ==
  faults = 0 =>
     tables.tracked = {<<CustomerOf[s], s>> : s \in {r \in Subs : life[r] = "active"}}

\* A customer's churned_at is the date of a logo event of one of its
\* subscriptions, filed under the customer, or under the empty one when a
\* replay came first; unless two churned events were given one id.
UniqueChurns == \A e, f \in sent : e.type = "churned" /\ Id(e) = Id(f) => e = f
Logo(t, c, at) ==
  \E x \in t.entries : /\ x.kind = "logo" /\ x.at = at
                       /\ x.cust \in {c, NoCustomer} /\ CustomerOf[x.id[2]] = c
ChurnIsDated ==
  UniqueChurns =>
     \A c \in Customers :
        tables.state[c] # NoRow /\ tables.state[c].churned # Null =>
           Logo(tables, c, tables.state[c].churned)
=============================================================================
