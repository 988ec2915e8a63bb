--------------------------- MODULE StripeConnector ---------------------------
(***************************************************************************)
(* What StripeConnector (tidemill/connectors/stripe/connector.py) makes of *)
(* a webhook: a sequence of events, published together.  An object is a    *)
(* record of the fields the connector reads; a subscription has            *)
(*   id, customer, plan (the price of its first item), status, cur,        *)
(*   items (a function to records of a price), paused (pause_collection is *)
(*   set), atEnd (cancel_at_period_end), createdAt, itemAt (created of its *)
(*   newest item), trialStart, trialEnd, canceledAt, endedAt               *)
(* and times are natural numbers or Null.                                  *)
(***************************************************************************)
EXTENDS ConnectorBase, Sequences, FiniteSetsExt

CONSTANTS Null, NoCust   \* an absent field; the customer_id of catalog events

\* _make_event
Make(type, obj, cust, at, p) ==
  [type |-> type, obj |-> obj, cust |-> cust, at |-> at, p |-> p]

If(condition, events) == IF condition THEN events ELSE <<>>

-----------------------------------------------------------------------------
(* Catalog, customer *)

Product(type, prod, at) ==
  <<Make(type, prod.id, NoCust,
                IF type = "product.created" THEN prod.createdAt ELSE at,
                [name |-> prod.name, active |-> prod.active])>>

\* A price without a recurring block is no plan.
Price(type, price, at) ==
  If(price.interval # Null,
     <<Make(type, price.id, NoCust,
                   IF type = "plan.created" THEN price.createdAt ELSE at,
                   [product |-> price.product, usage |-> price.usage,
                    interval |-> price.interval, active |-> price.active])>>)

\* Updates and deletions are dated by the customer's creation too.
Customer(type, cust) ==
  <<Make(type, cust.id, cust.id, cust.createdAt,
                [country |-> cust.country])>>

-----------------------------------------------------------------------------
(* Subscription *)

\* _sub_occurred: the end or the cancellation, else the newest of the trial's
\* end and the items' creation; at is the webhook's time.
SubOccurred(sub, at) ==
  LET candidates == {sub.trialEnd, sub.itemAt} \ {Null}
  IN  IF sub.endedAt # Null THEN sub.endedAt
      ELSE IF sub.canceledAt # Null THEN sub.canceledAt
      ELSE IF candidates # {} THEN Max(candidates) ELSE at

SubEvent(type, sub, at, p) ==
  Make(type, sub.id, sub.customer, at, p)

\* A metered item adds nothing to the MRR.
ItemMrr(it) ==
  IF it.usage = "metered" THEN 0
  ELSE ComputeMrr(it.amount, it.interval, 1, it.quantity)
\* _compute_mrr
SubMrr(items) == MapThenSumSet(LAMBDA x : ItemMrr(items[x]), DOMAIN items)
\* _serialize_subscription_items
SerializeItems(sub) ==
  [x \in DOMAIN sub.items |-> [plan |-> sub.items[x].price, cur |-> sub.cur,
                               mrr |-> ItemMrr(sub.items[x])]]

MrrOf(sub) == [mrr |-> SubMrr(sub.items), cur |-> sub.cur]

\* The native status goes out as it is.
SubCreatedPayload(sub) ==
  [customer |-> sub.customer, plan |-> sub.plan, status |-> sub.status,
   mrr |-> SubMrr(sub.items), cur |-> sub.cur, items |-> SerializeItems(sub)]

SubCreated(sub) ==
  <<SubEvent("subscription.created", sub, sub.createdAt, SubCreatedPayload(sub))>>
  \o If(sub.status = "active",
        <<SubEvent("subscription.activated", sub, sub.createdAt, MrrOf(sub))>>)
  \o If(sub.status = "trialing",
        <<SubEvent("subscription.trial_started", sub, sub.createdAt, MrrOf(sub))>>)

CanceledPayload(sub) == [canceledAt |-> sub.canceledAt]
ChurnedPayload(sub) == [prev |-> SubMrr(sub.items), cur |-> sub.cur]

\* The status transition that an update reports; the first that applies.
StatusEvents(prev, sub, at) ==
  CASE prev.status = sub.status -> <<>>
    [] prev.status = "trialing" /\ sub.status = "active" ->
         <<SubEvent("subscription.trial_converted", sub, at, MrrOf(sub)),
           SubEvent("subscription.activated", sub, at, MrrOf(sub))>>
    [] prev.status = "trialing"
       /\ sub.status \in {"canceled", "unpaid", "incomplete_expired"} ->
         <<SubEvent("subscription.trial_expired", sub, at, MrrOf(sub))>>
    [] prev.status # "active" /\ sub.status = "active" ->
         <<SubEvent("subscription.activated", sub, at, MrrOf(sub))>>
    [] prev.status # "trialing" /\ sub.status = "canceled" ->
         <<SubEvent("subscription.canceled", sub, at, CanceledPayload(sub))>>
    [] sub.status = "paused" -> <<SubEvent("subscription.paused", sub, at, MrrOf(sub))>>
    [] prev.status # "trialing"
       /\ sub.status \in {"incomplete_expired", "unpaid"} ->
         <<SubEvent("subscription.churned", sub, at, ChurnedPayload(sub))>>
    [] OTHER -> <<>>

\* customer.subscription.updated; prev is the object with its previous values.
SubUpdated(prev, sub, now) ==
  LET at == SubOccurred(sub, now)
  IN  StatusEvents(prev, sub, at)
      \o If(prev.paused /\ ~sub.paused, <<SubEvent("subscription.resumed", sub, at, MrrOf(sub))>>)
      \o If(~prev.atEnd /\ sub.atEnd,
            <<SubEvent("subscription.canceled", sub, at, CanceledPayload(sub))>>)
      \o If(SubMrr(prev.items) # SubMrr(sub.items),
            <<SubEvent("subscription.changed", sub, at,
                       [plan |-> sub.plan, prev |-> SubMrr(prev.items),
                        mrr |-> SubMrr(sub.items), cur |-> sub.cur,
                        items |-> SerializeItems(sub)])>>)

\* Ended before its trial did.
CanceledInTrial(sub) ==
  sub.trialEnd # Null /\ sub.endedAt # Null /\ sub.endedAt < sub.trialEnd

\* Mutant of SubDeleted: a deletion is only churn.
SubDeletedChurn(sub, now) ==
  <<SubEvent("subscription.churned", sub, SubOccurred(sub, now), ChurnedPayload(sub))>>

\* customer.subscription.deleted
SubDeleted(sub, now) ==
  LET at == SubOccurred(sub, now)
  IN  <<SubEvent("subscription.churned", sub, at, ChurnedPayload(sub))>>
      \o If(sub.status = "trialing" \/ CanceledInTrial(sub),
            <<SubEvent("subscription.trial_expired", sub, at, MrrOf(sub))>>)

-----------------------------------------------------------------------------
(* Invoice, payment, coupon, credit note *)

InvoiceEvent(type, inv, at, p) ==
  Make(type, inv.id, inv.customer, at, p)

\* _classify_line_kind: by the price's usage type when the line carries it.
ClassifyLine(li) ==
  CASE li.usage = "metered" -> "usage"
    [] li.usage = "licensed" -> "subscription"
    [] OTHER -> IF li.amount < 0 THEN "discount" ELSE "other"
SerializeLine(li) ==
  [sub |-> li.sub, price |-> li.price, kind |-> ClassifyLine(li),
   amount |-> li.amount, cur |-> li.cur, coupon |-> li.coupon]

InvoicePayload(inv) ==
  [customer |-> inv.customer, sub |-> inv.sub, status |-> inv.status,
   total |-> inv.total, cur |-> inv.cur,
   lines |-> {SerializeLine(li) : li \in inv.lines}]
PaidPayload(inv) ==
  [sub |-> inv.sub, paidAt |-> inv.paidAt, amount |-> inv.total, cur |-> inv.cur]

InvoiceCreated(inv) ==
  <<InvoiceEvent("invoice.created", inv, inv.createdAt, InvoicePayload(inv))>>
InvoicePaid(inv, now) == <<InvoiceEvent("invoice.paid", inv, now, PaidPayload(inv))>>
InvoiceVoided(inv, now) ==
  <<InvoiceEvent("invoice.voided", inv, now, [voidedAt |-> inv.voidedAt])>>
InvoiceUncollectible(inv, now) ==
  <<InvoiceEvent("invoice.uncollectible", inv, now, [status |-> inv.status])>>

\* A PaymentIntent that succeeded or failed.
Payment(type, pi, now) ==
  <<Make(type, pi.id, pi.customer, now,
                [invoice |-> pi.invoice, customer |-> pi.customer,
                 amount |-> pi.amount])>>

\* The refund is reported under the id of the charge, not of the intent.
ChargeRefunded(charge, pi, now) ==
  <<Make("payment.refunded", charge, pi.customer, now,
                [refundedAt |-> pi.createdAt])>>

Coupon(type, c, now) ==
  <<Make(type, c.id, NoCust,
                IF type = "coupon.created" THEN c.createdAt ELSE now,
                [off |-> c.off, cur |-> c.cur, valid |-> c.valid])>>

NotePayload(cn) ==
  [invoice |-> cn.invoice, customer |-> cn.customer, status |-> cn.status,
   total |-> cn.total, cur |-> cn.cur]

\* credit_note.created, and credit_note.updated under the same type and id.
NoteCreated(cn, now) ==
  <<Make("credit_note.created", cn.id, cn.customer, now, NotePayload(cn))>>
NoteVoided(cn, now) ==
  <<Make("credit_note.voided", cn.id, cn.customer, now,
                [voidedAt |-> cn.voidedAt])>>

-----------------------------------------------------------------------------
(* backfill: events made of the objects as they are now *)

\* _backfill_trial_events
TrialBackfill(sub) ==
  LET outcome ==
        CASE sub.trialEnd = Null -> <<>>
          [] sub.trialEnd # Null /\ sub.status = "active" ->
               <<SubEvent("subscription.trial_converted", sub, sub.trialEnd, MrrOf(sub))>>
          [] sub.trialEnd # Null /\ sub.status = "incomplete_expired" ->
               <<SubEvent("subscription.trial_expired", sub, sub.trialEnd, MrrOf(sub))>>
          [] sub.trialEnd # Null /\ sub.status \in {"canceled", "unpaid"} ->
               IF CanceledInTrial(sub)
               THEN <<SubEvent("subscription.trial_expired", sub, sub.endedAt, MrrOf(sub))>>
               ELSE <<SubEvent("subscription.trial_converted", sub, sub.trialEnd, MrrOf(sub))>>
          [] OTHER -> <<>>
  IN  If(sub.trialStart # Null,
         <<SubEvent("subscription.trial_started", sub, sub.trialStart, MrrOf(sub))>> \o outcome)

\* The subscription's events are all dated by its creation.
SubBackfill(sub) ==
  <<SubEvent("subscription.created", sub, sub.createdAt, SubCreatedPayload(sub))>>
  \o If(sub.status = "active",
        <<SubEvent("subscription.activated", sub, sub.createdAt, MrrOf(sub))>>)
  \o If(sub.status \in {"canceled", "incomplete_expired", "unpaid"},
        <<SubEvent("subscription.churned", sub, sub.createdAt, ChurnedPayload(sub))>>)
  \o TrialBackfill(sub)

\* Mutant of InvoiceBackfill: every finalized invoice is taken for a paid one.
InvoiceBackfillPaid(inv) ==
  InvoiceCreated(inv)
  \o If(inv.status # "draft", <<InvoiceEvent("invoice.paid", inv, inv.createdAt, PaidPayload(inv))>>)

InvoiceBackfill(inv) ==
  InvoiceCreated(inv)
  \o If(inv.status = "paid", <<InvoiceEvent("invoice.paid", inv, inv.createdAt, PaidPayload(inv))>>)

PaymentBackfill(pi) ==
  If(pi.status = "succeeded", Payment("payment.succeeded", pi, pi.createdAt))
=============================================================================
