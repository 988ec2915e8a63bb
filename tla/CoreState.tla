------------------------------ MODULE CoreState ------------------------------
(***************************************************************************)
(* The state consumer's handlers for what a billing provider reports       *)
(* (tidemill/state.py): the tables product, plan, customer, subscription,  *)
(* subscription_item, invoice, invoice_line_item, payment, coupon,         *)
(* credit_note and event_log.  A handler is an operator from the tables    *)
(* and an event to the tables after its transaction; Raises says when the  *)
(* transaction is rolled back instead and the event dead-lettered.         *)
(*                                                                         *)
(* A row is found by its external id.  The columns kept are those that a   *)
(* later event reads, merges or overwrites.                                *)
(***************************************************************************)
EXTENDS ConnectorBase, FiniteSets

CONSTANTS
  Products, Plans, Customers, Subs, Items, Invoices, Payments, Coupons, Notes,
  Base,        \* BASE_CURRENCY
  Rate,        \* fx_rate: the worth of one cent of each currency
  NoRow,       \* an absent row
  Null         \* an absent field of a payload, an SQL NULL

\* Event.id: make_event_id hashes the type and the object.
EventId(e) == <<e.type, e.obj>>

NoTables ==
  [product |-> [x \in Products |-> NoRow], plan |-> [x \in Plans |-> NoRow],
   customer |-> [x \in Customers |-> NoRow], sub |-> [x \in Subs |-> NoRow],
   item |-> [x \in Items |-> NoRow], invoice |-> [x \in Invoices |-> NoRow],
   line |-> [x \in Invoices |-> {}], payment |-> [x \in Payments |-> NoRow],
   coupon |-> [x \in Coupons |-> NoRow], note |-> [x \in Notes |-> NoRow],
   log |-> {}]

-----------------------------------------------------------------------------
(* Helpers *)

\* (SELECT id FROM ... WHERE external_id = ...): NULL when there is no row.
Lookup(table, x) ==
  IF x \in DOMAIN table /\ table[x] # NoRow THEN x ELSE Null

\* COALESCE(EXCLUDED.c, table.c)
Coalesce(new, old) == IF new = Null THEN old ELSE new

\* _to_base: nothing to convert, the base currency itself, or a rate.  fx is
\* the set of currencies that have one.
ToBase(amount, cur) ==
  IF cur \in {Base, Null} THEN amount ELSE amount * Rate[cur]
NoRate(amount, cur, fx) == amount # 0 /\ cur \notin fx \union {Base, Null}

-----------------------------------------------------------------------------
(* Catalog and customer *)

ProductRow(e, old) ==
  [name |-> IF old = NoRow THEN e.p.name ELSE Coalesce(e.p.name, old.name),
   active |-> e.p.active]

HandleProduct(t, e) ==
  CASE e.type \in {"product.created", "product.updated"} ->
         [t EXCEPT !.product[e.obj] = ProductRow(e, @)]
    [] e.type = "product.deleted" ->
         [t EXCEPT !.product[e.obj] =
            IF @ = NoRow THEN NoRow ELSE [@ EXCEPT !.active = FALSE]]

PlanRow(t, e, old) ==
  LET product == Lookup(t.product, e.p.product)
  IN  [product |-> IF old = NoRow THEN product ELSE Coalesce(product, old.product),
       usage |-> IF old = NoRow THEN e.p.usage ELSE Coalesce(e.p.usage, old.usage),
       active |-> e.p.active]

\* A price without an interval is not a recurring plan.
HandlePlan(t, e) ==
  CASE e.type \in {"plan.created", "plan.updated"} ->
         IF e.p.interval = Null THEN t
         ELSE [t EXCEPT !.plan[e.obj] = PlanRow(t, e, @)]
    [] e.type = "plan.deleted" ->
         [t EXCEPT !.plan[e.obj] =
            IF @ = NoRow THEN NoRow ELSE [@ EXCEPT !.active = FALSE]]

HandleCustomer(t, e) ==
  CASE e.type \in {"customer.created", "customer.updated"} ->
         [t EXCEPT !.customer[e.obj] =
            [country |-> IF @ = NoRow THEN e.p.country
                         ELSE Coalesce(e.p.country, @.country)]]
    [] e.type = "customer.deleted" -> [t EXCEPT !.customer[e.obj] = NoRow]

\* The rows with a foreign key to customer c.
Referenced(t, c) ==
  \/ \E x \in Subs : t.sub[x] # NoRow /\ t.sub[x].customer = c
  \/ \E x \in Invoices : t.invoice[x] # NoRow /\ t.invoice[x].customer = c
  \/ \E x \in Payments : t.payment[x] # NoRow /\ t.payment[x].customer = c
  \/ \E x \in Notes : t.note[x] # NoRow /\ t.note[x].customer = c

-----------------------------------------------------------------------------
(* Subscription *)

\* DELETE the subscription's items, then INSERT the payload's; an item that
\* another subscription holds under the same external id moves to this one.
\* items is a function from the payload's items to their plan and amount.
ReplaceItems(t, e, items) ==
  IF t.sub[e.obj] = NoRow THEN t
  ELSE [t EXCEPT !.item =
          [x \in Items |->
             IF x \in DOMAIN items
             THEN [sub |-> e.obj,
                   plan |-> LET plan == Lookup(t.plan, items[x].plan)
                            IN  IF @[x] = NoRow \/ @[x].sub = e.obj THEN plan
                                ELSE Coalesce(plan, @[x].plan),
                   mrr |-> items[x].mrr,
                   base |-> ToBase(items[x].mrr, items[x].cur)]
             ELSE IF @[x] # NoRow /\ @[x].sub = e.obj THEN NoRow ELSE @[x]]]

\* subscription.created: a conflict refreshes the status and the amounts only.
SubscriptionCreated(t, e) ==
  LET new == [customer |-> Lookup(t.customer, e.p.customer),
              plan |-> Lookup(t.plan, e.p.plan), status |-> e.p.status,
              mrr |-> e.p.mrr, base |-> e.p.mrr, pending |-> FALSE,
              canceledAt |-> Null, endedAt |-> Null]
  IN  ReplaceItems(
        [t EXCEPT !.sub[e.obj] =
           IF @ = NoRow THEN new
           ELSE [@ EXCEPT !.status = e.p.status, !.mrr = e.p.mrr,
                          !.base = e.p.mrr]],
        e, e.p.items)

\* An UPDATE of a subscription that may not be there.
UpdateSub(t, e, row) ==
  IF t.sub[e.obj] = NoRow THEN t ELSE [t EXCEPT !.sub[e.obj] = row]

\* Mutant of SubscriptionActive: the end of an earlier life stays.
SubscriptionActiveEnded(t, e) ==
  UpdateSub(t, e, [t.sub[e.obj] EXCEPT !.status = "active", !.mrr = e.p.mrr])

\* subscription.activated, reactivated, resumed
SubscriptionActive(t, e) ==
  UpdateSub(t, e, [t.sub[e.obj] EXCEPT !.status = "active", !.mrr = e.p.mrr,
                     !.endedAt = Null, !.canceledAt = Null, !.pending = FALSE])

\* Mutant of SubscriptionChanged: the difference is added.
SubscriptionChangedByDelta(t, e) ==
  ReplaceItems(
    UpdateSub(t, e, [t.sub[e.obj] EXCEPT !.mrr = @ + e.p.mrr - e.p.prev,
                       !.plan = Coalesce(Lookup(t.plan, e.p.plan), @)]),
    e, e.p.items)

\* Mutant of SubscriptionChanged: the items are left as they are.
SubscriptionChangedNoItems(t, e) ==
  UpdateSub(t, e, [t.sub[e.obj] EXCEPT !.mrr = e.p.mrr,
                     !.plan = Coalesce(Lookup(t.plan, e.p.plan), @)])

SubscriptionChanged(t, e) ==
  ReplaceItems(
    UpdateSub(t, e, [t.sub[e.obj] EXCEPT !.mrr = e.p.mrr,
                       !.plan = Coalesce(Lookup(t.plan, e.p.plan), @)]),
    e, e.p.items)

SubscriptionCanceled(t, e) ==
  UpdateSub(t, e, [t.sub[e.obj] EXCEPT !.status = "canceled", !.pending = TRUE,
                     !.canceledAt = Coalesce(e.p.canceledAt, e.at)])

SubscriptionChurned(t, e) ==
  UpdateSub(t, e, [t.sub[e.obj] EXCEPT !.status = "canceled", !.mrr = 0,
                     !.endedAt = e.at])

SubscriptionPaused(t, e) ==
  UpdateSub(t, e, [t.sub[e.obj] EXCEPT !.status = "paused", !.mrr = 0])

\* The trial events are the trial metric's alone.
HandleSubscription(t, e) ==
  CASE e.type = "subscription.created" -> SubscriptionCreated(t, e)
    [] e.type \in {"subscription.activated", "subscription.reactivated",
                   "subscription.resumed"} -> SubscriptionActive(t, e)
    [] e.type = "subscription.changed" -> SubscriptionChanged(t, e)
    [] e.type = "subscription.canceled" -> SubscriptionCanceled(t, e)
    [] e.type = "subscription.churned" -> SubscriptionChurned(t, e)
    [] e.type = "subscription.paused" -> SubscriptionPaused(t, e)
    [] OTHER -> t

-----------------------------------------------------------------------------
(* Invoice, payment, coupon, credit note *)

\* _resolve_line_kind: the connector's kind, unless it is "other"; then the
\* usage type of the line's price, if its plan is here by now.
LineKind(t, li) ==
  LET plan == Lookup(t.plan, li.price)
      usage == IF plan = Null THEN Null ELSE t.plan[plan].usage
  IN  CASE li.kind # "other" -> li.kind
        [] li.kind = "other" /\ usage = "metered" -> "usage"
        [] li.kind = "other" /\ usage = "licensed" -> "subscription"
        [] OTHER -> IF li.amount < 0 THEN "discount" ELSE "other"

\* _replace_invoice_line_items: the lines are written anew.
Lines(t, e) ==
  {[sub |-> Lookup(t.sub, li.sub), price |-> li.price, kind |-> LineKind(t, li),
    base |-> ToBase(li.amount, Coalesce(li.cur, e.p.cur)),
    coupon |-> Lookup(t.coupon, li.coupon)] : li \in e.p.lines}

\* invoice.created: a conflict overwrites the status and the total.
InvoiceCreated(t, e) ==
  LET new == [customer |-> Lookup(t.customer, e.p.customer),
              sub |-> Lookup(t.sub, e.p.sub), status |-> e.p.status,
              total |-> e.p.total, paidAt |-> Null, voidedAt |-> Null]
  IN  [t EXCEPT
         !.invoice[e.obj] =
            IF @ = NoRow THEN new
            ELSE [@ EXCEPT !.status = e.p.status, !.total = e.p.total],
         !.line[e.obj] = Lines(t, e)]

UpdateInvoice(t, e, row) ==
  IF t.invoice[e.obj] = NoRow THEN t ELSE [t EXCEPT !.invoice[e.obj] = row]

HandleInvoice(t, e) ==
  LET row == t.invoice[e.obj]
  IN  CASE e.type = "invoice.created" -> InvoiceCreated(t, e)
        [] e.type = "invoice.paid" ->
             UpdateInvoice(t, e, [row EXCEPT !.status = "paid",
                                    !.paidAt = Coalesce(e.p.paidAt, e.at)])
        [] e.type = "invoice.voided" ->
             UpdateInvoice(t, e, [row EXCEPT !.status = "void",
                                    !.voidedAt = Coalesce(e.p.voidedAt, e.at)])
        [] e.type = "invoice.uncollectible" ->
             UpdateInvoice(t, e, [row EXCEPT !.status = "uncollectible"])

PaymentRow(t, e, status) ==
  [invoice |-> Lookup(t.invoice, e.p.invoice),
   customer |-> Lookup(t.customer, e.p.customer), status |-> status,
   amount |-> e.p.amount, refundedAt |-> Null]

\* payment.succeeded and payment.failed insert, or set the status; a refund
\* updates the payment it names.
HandlePayment(t, e) ==
  LET Insert(status) ==
        [t EXCEPT !.payment[e.obj] = IF @ = NoRow THEN PaymentRow(t, e, status)
                                     ELSE [@ EXCEPT !.status = status]]
  IN  CASE e.type = "payment.succeeded" -> Insert("succeeded")
        [] e.type = "payment.failed" -> Insert("failed")
        [] e.type = "payment.refunded" ->
             IF Lookup(t.payment, e.obj) = Null THEN t
             ELSE [t EXCEPT !.payment[e.obj].status = "refunded",
                            !.payment[e.obj].refundedAt = Coalesce(e.p.refundedAt, e.at)]

\* amount_off_base_cents is 0, never NULL, when the coupon is a percentage.
HandleCoupon(t, e) ==
  CASE e.type \in {"coupon.created", "coupon.updated"} ->
         LET off == e.p.off
             base == IF off = Null THEN 0 ELSE ToBase(off, e.p.cur)
         IN  [t EXCEPT !.coupon[e.obj] =
                [off |-> IF @ = NoRow THEN off ELSE Coalesce(off, @.off),
                 base |-> base, valid |-> e.p.valid]]
    [] e.type = "coupon.deleted" ->
         [t EXCEPT !.coupon[e.obj] =
            IF @ = NoRow THEN NoRow ELSE [@ EXCEPT !.valid = FALSE]]

\* credit_note.created overwrites status and amounts; voided updates.
HandleCreditNote(t, e) ==
  CASE e.type = "credit_note.created" ->
         LET new == [invoice |-> Lookup(t.invoice, e.p.invoice),
                     customer |-> Lookup(t.customer, e.p.customer),
                     status |-> e.p.status, total |-> e.p.total,
                     base |-> ToBase(e.p.total, e.p.cur), voidedAt |-> Null]
         IN  [t EXCEPT !.note[e.obj] =
                IF @ = NoRow THEN new
                ELSE [@ EXCEPT !.status = new.status, !.total = new.total,
                               !.base = new.base]]
    [] e.type = "credit_note.voided" ->
         [t EXCEPT !.note[e.obj] =
            IF @ = NoRow THEN NoRow
            ELSE [@ EXCEPT !.status = "void",
                           !.voidedAt = Coalesce(e.p.voidedAt, e.at)]]

-----------------------------------------------------------------------------
(* handle_state_event *)

ProductTypes == {"product.created", "product.updated", "product.deleted"}
PlanTypes == {"plan.created", "plan.updated", "plan.deleted"}
CustomerTypes == {"customer.created", "customer.updated", "customer.deleted"}
SubTypes == {"subscription.created", "subscription.activated",
             "subscription.reactivated", "subscription.resumed",
             "subscription.changed", "subscription.canceled",
             "subscription.churned", "subscription.paused",
             "subscription.trial_started", "subscription.trial_converted",
             "subscription.trial_expired"}
InvoiceTypes == {"invoice.created", "invoice.paid", "invoice.voided",
                 "invoice.uncollectible"}
PaymentTypes == {"payment.succeeded", "payment.failed", "payment.refunded"}
CouponTypes == {"coupon.created", "coupon.updated", "coupon.deleted"}
NoteTypes == {"credit_note.created", "credit_note.voided"}

\* _log_event: ON CONFLICT (id) DO NOTHING, and the handler runs regardless.
LogEvent(t, e) == [t EXCEPT !.log = @ \union {EventId(e)}]

\* _HANDLERS
Dispatch(t, e) ==
  CASE e.type \in ProductTypes -> HandleProduct(t, e)
    [] e.type \in PlanTypes -> HandlePlan(t, e)
    [] e.type \in CustomerTypes -> HandleCustomer(t, e)
    [] e.type \in SubTypes -> HandleSubscription(t, e)
    [] e.type \in InvoiceTypes -> HandleInvoice(t, e)
    [] e.type \in PaymentTypes -> HandlePayment(t, e)
    [] e.type \in CouponTypes -> HandleCoupon(t, e)
    [] e.type \in NoteTypes -> HandleCreditNote(t, e)

HandleState(t, e) == Dispatch(LogEvent(t, e), e)

\* Mutant of Raises: nothing is validated.
RaisesNot(t, e, fx) == FALSE

\* A NOT NULL or foreign key constraint, a value that is not canonical, or an
\* amount without a rate.
Raises(t, e, fx) ==
  \/ /\ e.type = "customer.deleted"
     /\ Referenced(t, e.obj)
  \/ /\ e.type = "subscription.created"
     /\ \/ Lookup(t.customer, e.p.customer) = Null
        \/ e.p.status \notin CanonicalSubscriptionStatuses
  \/ /\ e.type \in {"subscription.created", "subscription.changed"}
     /\ e.type = "subscription.changed" => t.sub[e.obj] # NoRow
     /\ \E x \in DOMAIN e.p.items : NoRate(e.p.items[x].mrr, e.p.items[x].cur, fx)
  \/ /\ e.type = "invoice.created"
     /\ \E li \in e.p.lines : NoRate(li.amount, Coalesce(li.cur, e.p.cur), fx)
  \/ /\ e.type \in {"coupon.created", "coupon.updated"}
     /\ e.p.off # Null
     /\ NoRate(e.p.off, e.p.cur, fx)
  \/ /\ e.type = "credit_note.created"
     /\ NoRate(e.p.total, e.p.cur, fx)
=============================================================================
