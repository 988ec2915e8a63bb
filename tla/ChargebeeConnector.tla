-------------------------- MODULE ChargebeeConnector --------------------------
(***************************************************************************)
(* What ChargebeeConnector (tidemill/connectors/chargebee/connector.py)    *)
(* makes of a webhook.  Every event is dated by the webhook (now), the MRR *)
(* is Chargebee's own, and an object is a record of the fields read, as in *)
(* StripeConnector.                                                        *)
(***************************************************************************)
EXTENDS ConnectorBase, Sequences

CONSTANTS Null, NoCust   \* an absent field; the customer_id of catalog events

\* _make_event
Make(type, obj, cust, at, p) ==
  [type |-> type, obj |-> obj, cust |-> cust, at |-> at, p |-> p]

\* _STATUS_MAP
Status(native) ==
  CASE native \in {"active", "non_renewing"} -> "active"
    [] native \in {"in_trial", "future"} -> "trialing"
    [] native = "paused" -> "paused"
    [] native \in {"cancelled", "transferred"} -> "canceled"

\* _INVOICE_STATUS_MAP
InvoiceStatus(native) ==
  CASE native \in {"pending", "posted"} -> "draft"
    [] native \in {"payment_due", "not_paid"} -> "open"
    [] native = "voided" -> "void"
    [] native = "paid" -> "paid"

-----------------------------------------------------------------------------
(* Catalog, customer *)

ItemPayload(item) == [name |-> item.name, active |-> item.active]

ItemPricePayload(ip) ==
  [product |-> ip.product, usage |-> ip.usage, interval |-> ip.interval,
   active |-> ip.active]

CustomerPayload(cust) == [country |-> cust.country]

Item(type, item, now) == <<Make(type, item.id, NoCust, now, ItemPayload(item))>>

\* Only a deletion is not filtered by _is_recurring_item_price.
ItemPrice(type, ip, now) ==
  IF type # "plan.deleted" /\ ip.interval = Null THEN <<>>
  ELSE <<Make(type, ip.id, NoCust, now, ItemPricePayload(ip))>>

Customer(type, cust, now) ==
  <<Make(type, cust.id, cust.id, now, CustomerPayload(cust))>>

-----------------------------------------------------------------------------
(* Subscription *)

SubEvent(type, sub, now, p) ==
  Make(type, sub.id, sub.customer, now, p)
MrrOf(sub) == [mrr |-> sub.mrr, cur |-> sub.cur]

\* _subscription_item_payload: the whole amount of the period, no currency.
SubscriptionItems(sub) ==
  [x \in DOMAIN sub.items |-> [plan |-> sub.items[x].price, cur |-> Null,
                               mrr |-> sub.items[x].amount]]

SubCreated(sub, now) ==
  <<SubEvent("subscription.created", sub, now,
               [customer |-> sub.customer, plan |-> sub.plan,
                status |-> Status(sub.status), mrr |-> sub.mrr,
                cur |-> sub.cur, items |-> SubscriptionItems(sub)])>>
  \o CASE sub.status = "in_trial" ->
            <<SubEvent("subscription.trial_started", sub, now, MrrOf(sub))>>
       [] sub.status = "active" ->
            <<SubEvent("subscription.activated", sub, now, MrrOf(sub))>>
       [] OTHER -> <<>>

\* subscription_started, subscription_activated, subscription_reactivated
SubActivated(prior, sub, now) ==
  (IF prior.status = "in_trial" /\ sub.status = "active"
   THEN <<SubEvent("subscription.trial_converted", sub, now, MrrOf(sub))>> ELSE <<>>)
  \o <<SubEvent("subscription.activated", sub, now, MrrOf(sub))>>

\* subscription_changed, subscription_renewed: nothing unless the MRR differs,
\* a scheduled cancellation included.
SubChanged(prior, sub, now) ==
  IF prior.mrr = sub.mrr THEN <<>>
  ELSE <<SubEvent("subscription.changed", sub, now,
                    [plan |-> sub.plan, prev |-> prior.mrr, mrr |-> sub.mrr,
                     cur |-> sub.cur, items |-> SubscriptionItems(sub)])>>

\* subscription_cancelled fires when the cancellation takes effect.
SubCancelled(sub, now) ==
  <<SubEvent("subscription.canceled", sub, now, [canceledAt |-> sub.canceledAt])>>
SubPaused(sub, now) == <<SubEvent("subscription.paused", sub, now, MrrOf(sub))>>
SubResumed(sub, now) == <<SubEvent("subscription.resumed", sub, now, MrrOf(sub))>>
SubDeleted(sub, now) ==
  <<SubEvent("subscription.churned", sub, now, [prev |-> sub.mrr, cur |-> sub.cur])>>

-----------------------------------------------------------------------------
(* Invoice, payment, coupon, credit note *)

InvoiceEvent(type, inv, now, p) ==
  Make(type, inv.id, inv.customer, now, p)

\* _invoice_line_payload: an item price carries no usage type, so a line for
\* one is a subscription line; the state takes the invoice's currency for it.
InvoiceLine(li) ==
  [sub |-> li.sub, price |-> li.price, amount |-> li.amount, cur |-> Null,
   kind |-> IF li.price # Null THEN "subscription" ELSE "addon", coupon |-> Null]

InvoicePayload(inv) ==
  [customer |-> inv.customer, sub |-> inv.sub,
   status |-> InvoiceStatus(inv.status), total |-> inv.total,
   cur |-> inv.cur, lines |-> {InvoiceLine(li) : li \in inv.lines}]

Paid(inv, now) ==
  <<InvoiceEvent("invoice.paid", inv, now,
                   [sub |-> inv.sub, paidAt |-> inv.paidAt,
                    amount |-> inv.total, cur |-> inv.cur])>>

\* invoice_generated; an invoice that is paid at once is reported paid as well.
InvoiceGenerated(inv, now) ==
  <<InvoiceEvent("invoice.created", inv, now, InvoicePayload(inv))>>
  \o (IF inv.status = "paid" THEN Paid(inv, now) ELSE <<>>)

\* invoice_updated: only paid and voided are told apart.
InvoiceUpdated(inv, now) ==
  CASE inv.status = "paid" -> Paid(inv, now)
    [] inv.status = "voided" ->
         <<InvoiceEvent("invoice.voided", inv, now, [voidedAt |-> inv.voidedAt])>>
    [] OTHER -> <<>>

TransactionPayload(txn) ==
  [invoice |-> txn.invoice, customer |-> txn.customer, amount |-> txn.amount]

Payment(type, txn, now) ==
  <<Make(type, txn.id, txn.customer, now, TransactionPayload(txn))>>

\* Mutant of Refunded: the refund's own transaction.
RefundedOwn(refund, txn, now) ==
  <<Make("payment.refunded", refund, txn.customer, now, [refundedAt |-> now])>>

\* A refund is a transaction of its own that names the one it reverses.
Refunded(refund, txn, now) ==
  <<Make("payment.refunded", txn.id, txn.customer, now, [refundedAt |-> now])>>

CouponPayload(c) == [off |-> c.off, cur |-> c.cur, valid |-> c.valid]

Coupon(type, c, now) == <<Make(type, c.id, NoCust, now, CouponPayload(c))>>

\* _CREDIT_NOTE_STATUS_MAP: adjusted, refunded and refund_due are all issued.
NoteStatus(native) == IF native = "voided" THEN "void" ELSE "issued"

NotePayload(cn) ==
  [invoice |-> cn.invoice, customer |-> cn.customer, status |-> NoteStatus(cn.status),
   total |-> cn.total, cur |-> cn.cur]

\* credit_note_created, and an update that does not void.
NoteCreated(cn, now) ==
  <<Make("credit_note.created", cn.id, cn.customer, now, NotePayload(cn))>>

\* credit_note_deleted, and an update whose status is voided.
NoteVoided(cn, now) ==
  <<Make("credit_note.voided", cn.id, cn.customer, now,
            [voidedAt |-> cn.voidedAt])>>
NoteUpdated(cn, now) ==
  IF cn.status = "voided" THEN NoteVoided(cn, now) ELSE NoteCreated(cn, now)
=============================================================================
