--------------------------- MODULE BillingPipeline ---------------------------
(***************************************************************************)
(* From a billing provider to the state tables: the provider acts on one   *)
(* customer's objects, its webhooks are translated by the connector and    *)
(* published, catalog events under the empty key and the others under the  *)
(* customer's, and the state consumer handles each partition in order.     *)
(*                                                                         *)
(* Faults: a webhook is delayed or sent again, an event is dead-lettered   *)
(* and replayed (under the empty key), a backfill reports objects again.   *)
(***************************************************************************)
EXTENDS CoreState, SequencesExt

CONSTANTS
  NoCust,      \* the customer_id of catalog events
  Cur,         \* the currency of the prices, not BASE_CURRENCY
  Sources,     \* the connectors: a subset of {"stripe", "chargebee"}
  Scenes,      \* what the provider works on: a subset of {"subs", "bills"}
  MaxTurns,    \* the provider's acts
  MaxFaults,   \* delayed and repeated webhooks, replays, backfills
  MaxBoth      \* acts and faults together

ASSUME BillingAssumption ==
  /\ {} \notin {Products, Customers, Subs, Invoices, Payments, Coupons, Notes}
  /\ Plans = {"monthly", "yearly", "metered"}
  /\ {"item", "monthly", "yearly"} \subseteq Items
  /\ Null \notin {"month", "year"}   \* an absent interval is not an interval
  /\ NoRow \notin {"trialing", "active", "past_due", "incomplete", "unpaid", "paused",
                   "in_trial", "non_renewing", "cancelled"}   \* nor a row a status
  /\ NoCust \notin Customers   \* a catalog event is nobody's
  /\ Null \notin Nat \union Payments   \* an absent time, amount or key is not one
  /\ {MaxTurns, MaxFaults, MaxBoth} \subseteq Nat
  /\ Sources \subseteq {"stripe", "chargebee"} /\ Scenes \subseteq {"subs", "bills"}

Stripe == INSTANCE StripeConnector
Chargebee == INSTANCE ChargebeeConnector
Trial == INSTANCE TrialUpsert

VARIABLES
  source, scene,
  obj,       \* the provider's objects
  turns,     \* acts so far, and the provider's clock
  queue,     \* published and not yet handled, by partition
  late,      \* translated webhooks that have not arrived
  sent,      \* those that have
  faults,
  tables,    \* the state tables
  parked,    \* open dead-letter rows
  fx,        \* currencies with a stored rate
  last,      \* the event handled last: what a crash before the offset repeats
  trial,     \* metric_trial, the row of the subscription
  steady     \* whether the events came as the provider made them, see Undisturbed

state == <<tables, parked, fx, last, trial>>
bus == <<queue, late, sent, faults>>
vars == <<source, scene, obj, turns, queue, late, sent, faults, tables, parked,
          fx, last, trial, steady>>

-----------------------------------------------------------------------------
(* The provider's objects *)

c1 == CHOOSE c \in Customers : TRUE
s1 == CHOOSE s \in Subs : TRUE
i1 == CHOOSE i \in Invoices : TRUE
t1 == CHOOSE p \in Payments : TRUE
k1 == CHOOSE k \in Coupons : TRUE
n1 == CHOOSE n \in Notes : TRUE
prod1 == CHOOSE p \in Products : TRUE

Amount == [monthly |-> 2, yearly |-> 36, metered |-> 1]
Interval == [monthly |-> "month", yearly |-> "year", metered |-> "month"]
Usage(p) == IF p = "metered" THEN "metered" ELSE "licensed"

ProductObj == [id |-> prod1, name |-> "A", active |-> TRUE, createdAt |-> 0]
PriceObj(p) == [id |-> p, product |-> prod1, interval |-> Interval[p],
                usage |-> Usage(p), active |-> TRUE, createdAt |-> 0]
CustomerObj == [id |-> c1, country |-> "DE", createdAt |-> 0]
CouponObj == [id |-> k1, off |-> 1, cur |-> Cur, valid |-> TRUE, createdAt |-> 0]

\* A Chargebee item is named by its subscription and price.
ItemId(p) == IF source = "stripe" THEN "item" ELSE p
ItemsOf(p) ==
  [x \in {ItemId(p)} |-> [price |-> p, usage |-> Usage(p), amount |-> Amount[p],
                          interval |-> Interval[p], quantity |-> 1]]
MonthlyWorth(p) == ComputeMrr(Amount[p], Interval[p], 1, 1)

SubObj(status, now) ==
  LET inTrial == status \in {"trialing", "in_trial"}
  IN  [id |-> s1, customer |-> c1, plan |-> "monthly", status |-> status,
       cur |-> Cur, items |-> ItemsOf("monthly"), mrr |-> MonthlyWorth("monthly"),
       paused |-> FALSE, atEnd |-> FALSE, createdAt |-> now, itemAt |-> now,
       trialStart |-> IF inTrial THEN now ELSE Null,
       trialEnd |-> IF inTrial THEN now + 2 ELSE Null,
       canceledAt |-> Null, endedAt |-> Null]

\* A licensed line, a metered one whose payload carries the price id alone, and
\* a discount by the coupon.
LineObjs ==
  {[sub |-> s1, price |-> "monthly", usage |-> "licensed", amount |-> 2,
    cur |-> Cur, coupon |-> Null],
   [sub |-> s1, price |-> "metered", usage |-> Null, amount |-> 1,
    cur |-> Cur, coupon |-> Null],
   [sub |-> s1, price |-> Null, usage |-> Null, amount |-> -1,
    cur |-> Cur, coupon |-> k1]}

InvoiceObj(now) ==
  [id |-> i1, customer |-> c1, sub |-> Null, total |-> 2, cur |-> Cur,
   status |-> IF source = "stripe" THEN "open" ELSE "payment_due",
   lines |-> LineObjs, createdAt |-> now, paidAt |-> Null, voidedAt |-> Null]
PaymentObj(status, now) ==
  [id |-> t1, customer |-> c1, invoice |-> i1, amount |-> 2, status |-> status,
   createdAt |-> now]
NoteObj == [id |-> n1, customer |-> c1, invoice |-> i1,
            status |-> IF source = "stripe" THEN "issued" ELSE "refund_due",
            total |-> 1, cur |-> Cur, voidedAt |-> Null]

-----------------------------------------------------------------------------
(* Webhooks *)

Partition(e) == IF e.cust = NoCust THEN "catalog" ELSE "customer"

\* The events that go to partition p, in their order.
Keyed(events, p) ==
  LET kept[n \in 0..Len(events)] ==
        IF n = 0 THEN <<>>
        ELSE IF Partition(events[n]) = p THEN Append(kept[n - 1], events[n])
        ELSE kept[n - 1]
  IN  kept[Len(events)]

\* EventProducer.publish, event by event.
Publish(events) ==
  queue' = [p \in DOMAIN queue |-> queue[p] \o Keyed(events, p)]

Fallible == faults < MaxFaults /\ turns + faults < MaxBoth

\* The provider's webhook arrives now or later; one that is of no interest to
\* the connector is answered all the same.
Send(events) ==
  \/ /\ Publish(events)
     /\ sent' = sent \union ({events} \ {<<>>})
     /\ UNCHANGED <<late, faults, steady>>
  \/ /\ events # <<>> /\ Fallible
     /\ late' = late \union {events}
     /\ faults' = faults + 1
     /\ steady' = "disturbed"
     /\ UNCHANGED <<queue, sent>>

\* The consumer keeps up with the customer's partition; the catalog's may lag.
Act(o, events) ==
  /\ turns < MaxTurns /\ turns + faults < MaxBoth
  /\ queue["customer"] = <<>>
  /\ turns' = turns + 1
  /\ obj' = o
  /\ Send(events)
  /\ UNCHANGED <<source, scene, state>>

Now == turns + 1

-----------------------------------------------------------------------------
(* The provider's turns: subscriptions *)

Status == IF obj.sub = NoRow THEN NoRow ELSE obj.sub.status

StripeSubscribe(status) ==
  /\ source = "stripe" /\ scene = "subs" /\ obj.sub = NoRow
  /\ LET sub == SubObj(status, Now)
     IN  Act([obj EXCEPT !.sub = sub], Stripe!SubCreated(sub))

\* The statuses a Stripe subscription moves through by itself.
StripeMoves(status) ==
  CASE status = "trialing" -> {"active", "past_due", "unpaid", "paused"}
    [] status = "active" -> {"past_due"}
    [] status = "past_due" -> {"active", "unpaid"}
    [] status \in {"unpaid", "paused"} -> {"active"}
    [] status = "incomplete" -> {"active", "incomplete_expired"}
    [] OTHER -> {}

StripeUpdate(sub) == Act([obj EXCEPT !.sub = sub], Stripe!SubUpdated(obj.sub, sub, Now))

StripeMove(status) ==
  /\ source = "stripe" /\ status \in StripeMoves(Status)
  /\ StripeUpdate([obj.sub EXCEPT !.status = status,
                     !.trialEnd = IF Status = "trialing" THEN Now ELSE @])

StripeLive == {"trialing", "active", "past_due"}

StripeSwitch(p) ==
  /\ source = "stripe" /\ Status \in StripeLive /\ obj.sub.plan # p
  /\ StripeUpdate([obj.sub EXCEPT !.plan = p, !.items = ItemsOf(p),
                     !.mrr = MonthlyWorth(p), !.itemAt = Now])

StripeHold ==
  /\ source = "stripe" /\ Status \in StripeLive
  /\ StripeUpdate([obj.sub EXCEPT !.paused = ~@])

StripeSchedule ==
  /\ source = "stripe" /\ Status \in StripeLive
  /\ StripeUpdate([obj.sub EXCEPT !.atEnd = ~@,
                     !.canceledAt = IF obj.sub.atEnd THEN Null ELSE Now])

StripeDelete ==
  /\ source = "stripe"
  /\ Status \in StripeLive \union {"unpaid", "paused"}
  /\ LET sub == [obj.sub EXCEPT !.status = "canceled", !.endedAt = Now,
                   !.canceledAt = IF @ = Null THEN Now ELSE @]
     IN  Act([obj EXCEPT !.sub = sub], Stripe!SubDeleted(sub, Now))

ChargebeeSubscribe(status) ==
  /\ source = "chargebee" /\ scene = "subs" /\ obj.sub = NoRow
  /\ LET sub == SubObj(status, Now)
     IN  Act([obj EXCEPT !.sub = sub], Chargebee!SubCreated(sub, Now))

ChargebeeLive == {"in_trial", "active", "non_renewing"}

\* The subscription once it is in another status.
Become(to) ==
  [obj.sub EXCEPT !.status = to,
                  !.canceledAt = IF to = "cancelled" THEN Now ELSE Null]

\* One turn for each webhook of a Chargebee subscription's life.
ChargebeeTurn(from, to, events) ==
  /\ source = "chargebee" /\ Status \in from
  /\ Act([obj EXCEPT !.sub = Become(to)], events)

ChargebeeActivate ==
  ChargebeeTurn({"in_trial", "cancelled"}, "active",
                Chargebee!SubActivated(obj.sub, Become("active"), Now))
ChargebeeSchedule ==
  ChargebeeTurn({"active"}, "non_renewing",
                Chargebee!SubChanged(obj.sub, Become("non_renewing"), Now))
ChargebeePause ==
  ChargebeeTurn({"active"}, "paused", Chargebee!SubPaused(Become("paused"), Now))
ChargebeeResume ==
  ChargebeeTurn({"paused"}, "active", Chargebee!SubResumed(Become("active"), Now))
ChargebeeCancel ==
  ChargebeeTurn(ChargebeeLive, "cancelled",
                Chargebee!SubCancelled(Become("cancelled"), Now))
ChargebeeDelete ==
  ChargebeeTurn(ChargebeeLive \union {"paused", "cancelled"}, "deleted",
                Chargebee!SubDeleted(Become("deleted"), Now))

ChargebeeSwitch(p) ==
  /\ source = "chargebee" /\ Status \in ChargebeeLive /\ obj.sub.plan # p
  /\ LET sub == [obj.sub EXCEPT !.plan = p, !.items = ItemsOf(p),
                                !.mrr = MonthlyWorth(p)]
     IN  Act([obj EXCEPT !.sub = sub], Chargebee!SubChanged(obj.sub, sub, Now))

-----------------------------------------------------------------------------
(* The provider's turns: catalog and customer *)

EditProduct ==
  /\ scene = "subs" /\ obj.product.name = "A"
  /\ LET prod == [obj.product EXCEPT !.name = "B"]
     IN  Act([obj EXCEPT !.product = prod],
             IF source = "stripe" THEN Stripe!Product("product.updated", prod, Now)
             ELSE Chargebee!Item("product.updated", prod, Now))

ArchivePrice ==
  /\ scene = "subs" /\ obj.price["yearly"].active
  /\ LET price == [obj.price["yearly"] EXCEPT !.active = FALSE]
     IN  Act([obj EXCEPT !.price["yearly"] = price],
             IF source = "stripe" THEN Stripe!Price("plan.deleted", price, Now)
             ELSE Chargebee!ItemPrice("plan.deleted", price, Now))

MoveCustomer ==
  /\ scene = "subs" /\ obj.customer # NoRow /\ obj.customer.country = "DE"
  /\ LET cust == [obj.customer EXCEPT !.country = Null]
     IN  Act([obj EXCEPT !.customer = cust],
             IF source = "stripe" THEN Stripe!Customer("customer.updated", cust)
             ELSE Chargebee!Customer("customer.updated", cust, Now))

\* Only a customer whose subscription is over is deleted.
DeleteCustomer ==
  /\ scene = "subs" /\ obj.customer # NoRow
  /\ Status \in {NoRow, "canceled", "cancelled", "deleted"}
  /\ Act([obj EXCEPT !.customer = NoRow],
         IF source = "stripe" THEN Stripe!Customer("customer.deleted", obj.customer)
         ELSE Chargebee!Customer("customer.deleted", obj.customer, Now))

(* The provider's turns: invoices, payments, coupons, credit notes *)

IssueInvoice ==
  /\ scene = "bills" /\ obj.invoice = NoRow
  /\ LET inv == InvoiceObj(Now)
     IN  Act([obj EXCEPT !.invoice = inv],
             IF source = "stripe" THEN Stripe!InvoiceCreated(inv)
             ELSE Chargebee!InvoiceGenerated(inv, Now))

Open == obj.invoice # NoRow /\ obj.invoice.status \in {"open", "payment_due"}

SettleInvoice(status) ==
  /\ Open
  /\ status = "uncollectible" => source = "stripe"
  /\ LET inv == [obj.invoice EXCEPT
                   !.status = IF status = "void" /\ source = "chargebee"
                              THEN "voided" ELSE status,
                   !.paidAt = IF status = "paid" THEN Now ELSE Null,
                   !.voidedAt = IF status = "void" THEN Now ELSE Null]
     IN  Act([obj EXCEPT !.invoice = inv],
             CASE source = "chargebee" -> Chargebee!InvoiceUpdated(inv, Now)
               [] source = "stripe" /\ status = "paid" -> Stripe!InvoicePaid(inv, Now)
               [] source = "stripe" /\ status = "void" -> Stripe!InvoiceVoided(inv, Now)
               [] OTHER -> Stripe!InvoiceUncollectible(inv, Now))

Charge(status) ==
  /\ obj.invoice # NoRow
  /\ obj.payment # NoRow => obj.payment.status = "failed"
  /\ LET pi == PaymentObj(status, Now)
         type == IF status = "failed" THEN "payment.failed" ELSE "payment.succeeded"
     IN  Act([obj EXCEPT !.payment = pi],
             IF source = "stripe" THEN Stripe!Payment(type, pi, Now)
             ELSE Chargebee!Payment(type, pi, Now))

Refund ==
  /\ obj.payment # NoRow /\ obj.payment.status = "succeeded"
  /\ Act([obj EXCEPT !.payment.status = "refunded"],
         IF source = "stripe" THEN Stripe!ChargeRefunded("charge", obj.payment, Now)
         ELSE Chargebee!Refunded("refund", obj.payment, Now))

ExpireCoupon ==
  /\ scene = "bills" /\ obj.coupon.valid
  /\ LET c == [obj.coupon EXCEPT !.valid = FALSE]
     IN  Act([obj EXCEPT !.coupon = c],
             IF source = "stripe" THEN Stripe!Coupon("coupon.deleted", c, Now)
             ELSE Chargebee!Coupon("coupon.deleted", c, Now))

IssueNote ==
  /\ obj.invoice # NoRow /\ obj.note = NoRow
  /\ Act([obj EXCEPT !.note = NoteObj],
         IF source = "stripe" THEN Stripe!NoteCreated(NoteObj, Now)
         ELSE Chargebee!NoteCreated(NoteObj, Now))

VoidNote ==
  /\ obj.note # NoRow /\ obj.note.voidedAt = Null
  /\ LET status == IF source = "stripe" THEN "void" ELSE "voided"
         cn == [obj.note EXCEPT !.status = status, !.voidedAt = Now]
     IN  Act([obj EXCEPT !.note = cn],
             IF source = "stripe" THEN Stripe!NoteVoided(cn, Now)
             ELSE Chargebee!NoteUpdated(cn, Now))

-----------------------------------------------------------------------------
(* Delivery *)

Arrive ==
  \E events \in late :
    /\ Publish(events)
    /\ late' = late \ {events}
    /\ sent' = sent \union {events}
    /\ steady' = "disturbed"
    /\ UNCHANGED <<source, scene, obj, turns, faults, state>>

\* The provider got no 200 and sends a webhook again.
Resend ==
  \E events \in sent :
    /\ Fallible
    /\ faults' = faults + 1
    /\ Publish(events)
    /\ steady' = "disturbed"
    /\ UNCHANGED <<source, scene, obj, turns, late, sent, state>>

\* dlq-replay: the rebuilt event has no customer, so it goes under the empty key.
Replay ==
  \E e \in parked :
    /\ Fallible
    /\ faults' = faults + 1
    /\ queue' = [queue EXCEPT !["catalog"] = Append(@, e)]
    /\ steady' = "disturbed"
    /\ UNCHANGED <<source, scene, obj, turns, late, sent, state>>

\* The connector's backfill reports what there is, as created just now.
BackfillEvents ==
  Stripe!Product("product.created", obj.product, Now)
  \o Stripe!Price("plan.created", obj.price["monthly"], Now)
  \o Stripe!Price("plan.created", obj.price["yearly"], Now)
  \o Stripe!Price("plan.created", obj.price["metered"], Now)
  \o (IF obj.customer = NoRow THEN <<>>
      ELSE Stripe!Customer("customer.created", obj.customer))
  \o (IF obj.sub = NoRow THEN <<>> ELSE Stripe!SubBackfill(obj.sub))
  \o (IF obj.invoice = NoRow THEN <<>> ELSE Stripe!InvoiceBackfill(obj.invoice))
  \o (IF obj.payment = NoRow THEN <<>> ELSE Stripe!PaymentBackfill(obj.payment))

Backfill ==
  /\ source = "stripe" /\ Fallible
  /\ faults' = faults + 1
  /\ Publish(BackfillEvents)
  /\ steady' = IF queue["catalog"] = <<>> THEN "refreshed" ELSE "disturbed"
  /\ UNCHANGED <<source, scene, obj, turns, late, sent, state>>

\* The FX sync stores a rate for the currency.
RatesArrive ==
  /\ Cur \notin fx
  /\ fx' = fx \union {Cur}
  /\ UNCHANGED <<source, scene, obj, turns, bus, tables, parked, last, trial, steady>>

-----------------------------------------------------------------------------
(* The state consumer *)

\* The trials metric is a consumer of its own; it never raises.
HandledTrial(e) ==
  CASE e.type = "subscription.trial_started" -> Trial!HandleTrial(trial, "started", e.at)
    [] e.type = "subscription.trial_converted" -> Trial!HandleTrial(trial, "converted", e.at)
    [] e.type = "subscription.trial_expired" -> Trial!HandleTrial(trial, "expired", e.at)
    [] OTHER -> trial

\* The handler commits; an open row of the same event id is resolved.
Handle(p, e) ==
  /\ ~Raises(tables, e, fx)
  /\ tables' = HandleState(tables, e)
  /\ parked' = {d \in parked : EventId(d) # EventId(e)}
  /\ trial' = HandledTrial(e)
  /\ last' = e
  /\ UNCHANGED steady

\* Mutant of SetAside: the failure is logged and the offset moves on.
SetAsideLogged(p, e) ==
  /\ Raises(tables, e, fx)
  /\ last' = Null
  /\ steady' = "disturbed"
  /\ UNCHANGED <<tables, parked, trial>>

\* It raises: a row keeps the payload of the first failure under its id.
SetAside(p, e) ==
  /\ Raises(tables, e, fx)
  /\ parked' = IF \E d \in parked : EventId(d) = EventId(e) THEN parked
               ELSE parked \union {e}
  /\ last' = Null
  /\ steady' = "disturbed"
  /\ UNCHANGED <<tables, trial>>

Consume(p) ==
  /\ queue[p] # <<>>
  /\ queue' = [queue EXCEPT ![p] = Tail(@)]
  /\ \/ Handle(p, Head(queue[p]))
     \/ SetAside(p, Head(queue[p]))
  /\ UNCHANGED <<source, scene, obj, turns, late, sent, faults, fx>>

-----------------------------------------------------------------------------
Opening ==
  IF source = "stripe"
  THEN <<Stripe!Product("product.created", ProductObj, 0),
         Stripe!Price("plan.created", PriceObj("monthly"), 0),
         Stripe!Price("plan.created", PriceObj("yearly"), 0),
         Stripe!Price("plan.created", PriceObj("metered"), 0),
         Stripe!Coupon("coupon.created", CouponObj, 0),
         Stripe!Customer("customer.created", CustomerObj)>>
  ELSE <<Chargebee!Item("product.created", ProductObj, 0),
         Chargebee!ItemPrice("plan.created", PriceObj("monthly"), 0),
         Chargebee!ItemPrice("plan.created", PriceObj("yearly"), 0),
         Chargebee!ItemPrice("plan.created", PriceObj("metered"), 0),
         Chargebee!Coupon("coupon.created", CouponObj, 0),
         Chargebee!Customer("customer.created", CustomerObj, 0)>>

\* The catalog is reported first; the part of it that the scene is about is
\* still in its partition.  The customer's webhook may be the delayed one.
Init ==
  /\ source \in Sources /\ scene \in Scenes
  /\ obj = [product |-> ProductObj,
            price |-> [p \in {"monthly", "yearly", "metered"} |-> PriceObj(p)],
            customer |-> CustomerObj, coupon |-> CouponObj, sub |-> NoRow,
            invoice |-> NoRow, payment |-> NoRow, note |-> NoRow]
  /\ turns = 0
  /\ LET two == HandleState(HandleState(NoTables, Head(Opening[1])), Head(Opening[2]))
         lagging == IF scene = "subs" THEN Opening[3] ELSE Opening[4] \o Opening[5]
     IN  /\ tables = IF scene = "subs" THEN two ELSE HandleState(two, Head(Opening[3]))
         /\ \/ /\ queue = [catalog |-> lagging, customer |-> Opening[6]]
               /\ late = {} /\ faults = 0 /\ sent = {Opening[6]}
            \/ /\ queue = [catalog |-> lagging, customer |-> <<>>]
               /\ late = {Opening[6]} /\ faults = 1 /\ sent = {}
               /\ MaxFaults > 0
  /\ parked = {} /\ fx = {} /\ last = Null /\ trial = NoRow
  /\ steady = IF late = {} THEN "calm" ELSE "disturbed"

Turn ==
  \/ \E status \in {"trialing", "active", "incomplete"} : StripeSubscribe(status)
  \/ \E status \in {"active", "past_due", "unpaid", "paused",
                    "incomplete_expired"} : StripeMove(status)
  \/ \E p \in {"monthly", "yearly"} : StripeSwitch(p)
  \/ StripeHold \/ StripeSchedule \/ StripeDelete
  \/ \E status \in {"in_trial", "active"} : ChargebeeSubscribe(status)
  \/ ChargebeeActivate \/ ChargebeeSchedule \/ ChargebeePause \/ ChargebeeResume
  \/ ChargebeeCancel \/ ChargebeeDelete
  \/ \E p \in {"monthly", "yearly"} : ChargebeeSwitch(p)
  \/ EditProduct
  \/ ArchivePrice
  \/ MoveCustomer
  \/ DeleteCustomer
  \/ IssueInvoice
  \/ \E status \in {"paid", "void", "uncollectible"} : SettleInvoice(status)
  \/ \E status \in {"failed", "succeeded"} : Charge(status)
  \/ Refund \/ ExpireCoupon \/ IssueNote \/ VoidNote

Next ==
  \/ Turn
  \/ Arrive \/ Resend \/ Replay \/ Backfill \/ RatesArrive
  \/ \E p \in {"catalog", "customer"} : Consume(p)

Spec == Init /\ [][Next]_vars

-----------------------------------------------------------------------------
(* Properties *)

TypeOK ==
  /\ tables.sub \in [Subs -> [customer : Customers \union {Null},
                              plan : Plans \union {Null},
                              status : CanonicalSubscriptionStatuses,
                              mrr : 0..3, base : 0..3, pending : BOOLEAN,
                              canceledAt : 0..MaxTurns \union {Null},
                              endedAt : 0..MaxTurns \union {Null}] \union {NoRow}]
  /\ \A x \in Items : tables.item[x] # NoRow =>
       tables.item[x].sub \in Subs /\ tables.item[x].plan \in Plans \union {Null}
  /\ \A i \in Invoices : tables.invoice[i] # NoRow =>
       tables.invoice[i].status \in CanonicalInvoiceStatuses
  /\ \A i \in Invoices : \A li \in tables.line[i] : li.kind \in CanonicalLineKinds
  /\ \A p \in Payments : tables.payment[p] # NoRow =>
       tables.payment[p].status \in CanonicalPaymentStatuses
  /\ \A n \in Notes : tables.note[n] # NoRow =>
       tables.note[n].status \in CanonicalNoteStatuses
  /\ DOMAIN queue = {"catalog", "customer"}
  /\ \A e \in Range(queue["customer"]) : Partition(e) = "customer"
  /\ steady \in {"calm", "refreshed", "disturbed"}

\* The worker stops after a handler's commit and before the offset's: the event
\* is handled once more, by the same handler, and the tables stay as they are.
RedeliveryChangesNothing ==
  last # Null => /\ ~Raises(tables, last, fx)
                 /\ HandleState(tables, last) = tables
                 /\ HandledTrial(last) = trial

Idle == queue = [p \in DOMAIN queue |-> <<>>] /\ late = {}

\* No webhook was late or repeated and nothing was dead-lettered; or a backfill
\* came after all that and nothing of the kind since.
Undisturbed == Idle /\ steady # "disturbed"

Live == {"trialing", "active", "past_due", "in_trial", "non_renewing"}

\* Through any life of the subscription, the row of a live one has the
\* provider's monthly amount and no end, and an ended one is canceled, worth
\* nothing and dated.  A backfill restores this after faults.
AmountFollows ==
  Undisturbed /\ obj.sub # NoRow =>
    LET r == tables.sub[s1]
    IN  /\ Status \in Live =>
             r # NoRow /\ r.mrr = obj.sub.mrr /\ r.endedAt = Null
        /\ Status \in {"canceled", "deleted"} =>
             r # NoRow /\ r.status = "canceled" /\ r.mrr = 0 /\ r.endedAt # Null

\* The items of a Stripe subscription are the provider's and add up to its MRR.
ItemsAddUp ==
  Undisturbed /\ source = "stripe" /\ Status \in Live =>
    LET mine == {x \in Items : tables.item[x] # NoRow /\ tables.item[x].sub = s1}
    IN  /\ mine = DOMAIN obj.sub.items
        /\ MapThenSumSet(LAMBDA x : tables.item[x].mrr, mine) = tables.sub[s1].mrr

\* With nothing on its way and nothing parked, whatever was late, repeated or
\* dead-lettered before: every object the provider has is in its table.
NothingLost ==
  Idle /\ parked = {} =>
    /\ obj.customer # NoRow => tables.customer[c1] # NoRow
    /\ obj.sub # NoRow => tables.sub[s1] # NoRow
    /\ obj.invoice # NoRow => tables.invoice[i1] # NoRow /\ tables.line[i1] # {}
    /\ obj.payment # NoRow => tables.payment[t1] # NoRow
    /\ obj.note # NoRow => tables.note[n1] # NoRow
    /\ scene = "bills" => tables.coupon[k1] # NoRow
    /\ \A p \in Plans : tables.plan[p] # NoRow \/ (scene = "subs" /\ p = "metered")

CanonicalInvoice(status) ==
  CASE status = "payment_due" -> "open" [] status = "voided" -> "void" [] OTHER -> status

\* Invoice, payment, credit note and coupon end in the provider's status; a
\* refund reaches the payment it reverses, from Chargebee.
BillsFollowCalm ==
  Idle /\ steady = "calm" =>
    /\ obj.invoice # NoRow =>
         LET r == tables.invoice[i1]
         IN  /\ r.status = CanonicalInvoice(obj.invoice.status)
             /\ r.total = obj.invoice.total
             /\ r.paidAt = obj.invoice.paidAt /\ r.voidedAt = obj.invoice.voidedAt
    /\ obj.payment # NoRow =>
         \/ tables.payment[t1].status = obj.payment.status
         \/ source = "stripe" /\ obj.payment.status = "refunded"
    /\ obj.note # NoRow =>
         /\ tables.note[n1].status = "void" <=> obj.note.voidedAt # Null
         /\ tables.note[n1].invoice = i1
    /\ scene = "bills" => tables.coupon[k1].valid = obj.coupon.valid

\* ... and a paid invoice has its date, after a backfill too.  (A creation that
\* was dead-lettered and replayed after the payment leaves it without one.)
BillsFollow ==
  /\ BillsFollowCalm
  /\ Undisturbed => \A i \in Invoices :
       tables.invoice[i] # NoRow /\ tables.invoice[i].status = "paid" =>
         tables.invoice[i].paidAt # Null

\* No order, repetition or replay of events makes an invoice paid that the
\* provider has not been paid.
PaidIsReal ==
  \A i \in Invoices :
    tables.invoice[i] # NoRow /\ tables.invoice[i].status = "paid" =>
      obj.invoice # NoRow /\ obj.invoice.status = "paid"

\* A Stripe trial has one outcome, and one that was canceled before its end has
\* expired.
TrialOutcome ==
  Idle /\ steady = "calm" /\ source = "stripe" /\ trial # NoRow =>
    /\ trial.converted = Null \/ trial.expired = Null
    /\ Status = "canceled" /\ obj.sub.endedAt < obj.sub.trialEnd =>
         trial.expired # Null
    /\ Status = "trialing" => trial.expired = Null /\ trial.converted = Null
=============================================================================
