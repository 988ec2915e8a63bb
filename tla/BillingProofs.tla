---------------------------- MODULE BillingProofs ----------------------------
(***************************************************************************)
(* Proofs about the way from a billing provider to the state tables, for   *)
(* any number of turns and faults: what is on the bus is what the provider *)
(* reported, nothing of it is lost, and handling it again changes nothing. *)
(***************************************************************************)
EXTENDS BillingPipeline, DataLemmas

-----------------------------------------------------------------------------
(* The partitions of a sequence of events *)

\* What Keyed makes of the first n events, given what it makes of fewer.
KeyedStep(s, p, f, n) ==
  IF n = 0 THEN <<>>
  ELSE IF Partition(s[n]) = p THEN Append(f[n - 1], s[n])
  ELSE f[n - 1]
IsKeyed(s, p, m, f) == f = [n \in 0..m |-> KeyedStep(s, p, f, n)]

\* There is the function that Keyed is defined by.
LEMMA KeyedExists ==
  ASSUME NEW s, NEW p, NEW k \in Nat
  PROVE  \E f : IsKeyed(s, p, k, f)
<1> DEFINE P == {m \in Nat : \E f : IsKeyed(s, p, m, f)}
<1>1. 0 \in P
  <2>1. IsKeyed(s, p, 0, [n \in 0..0 |-> <<>>])
    BY DEF IsKeyed, KeyedStep
  <2> QED
    BY <2>1
<1>2. ASSUME NEW m \in Nat, m \in P PROVE m + 1 \in P
  <2>1. PICK f : IsKeyed(s, p, m, f)
    BY <1>2
  <2> DEFINE g == [n \in 0..(m + 1) |->
                     IF n = m + 1 THEN KeyedStep(s, p, f, n) ELSE f[n]]
  <2>2. ASSUME NEW n \in 0..(m + 1) PROVE g[n] = KeyedStep(s, p, g, n)
    <3>1. CASE n = 0
      BY <2>1, <3>1 DEF IsKeyed, KeyedStep
    <3>2. CASE n # 0
      <4>1. n - 1 \in 0..m /\ g[n - 1] = f[n - 1]
        BY <3>2
      <4>2. g[n] = KeyedStep(s, p, f, n)
        BY <2>1 DEF IsKeyed
      <4> HIDE DEF g
      <4> QED
        BY <3>2, <4>1, <4>2 DEF KeyedStep
    <3> QED
      BY <3>1, <3>2
  <2>3. IsKeyed(s, p, m + 1, g)
    BY <2>2 DEF IsKeyed
  <2> QED
    BY <2>3
<1> HIDE DEF P
<1>3. Nat \subseteq P
  BY <1>1, <1>2, SetInduction
<1> QED
  BY <1>3 DEF P

\* Keyed keeps the events of its partition, and no other.
LEMMA KeyedIs ==
  ASSUME NEW s, NEW p, IsStream(s)
  PROVE  /\ IsStream(Keyed(s, p))
         /\ Range(Keyed(s, p)) = {e \in Range(s) : Partition(e) = p}
<1> DEFINE f == CHOOSE g : IsKeyed(s, p, Len(s), g)
<1>1. Len(s) \in Nat /\ Range(s) = {s[i] : i \in 1..Len(s)}
  BY LenProperties, RangeEquality DEF IsStream
<1>2. IsKeyed(s, p, Len(s), f)
  BY <1>1, KeyedExists
<1>3. Keyed(s, p) = f[Len(s)]
  BY DEF Keyed, IsKeyed, KeyedStep
<1> HIDE DEF f
<1> DEFINE Upto(n) == {e \in {s[i] : i \in 1..n} : Partition(e) = p}
           P == {n \in Nat : n <= Len(s) => IsStream(f[n]) /\ Range(f[n]) = Upto(n)}
<1>4. 0 \in P
  BY <1>1, <1>2, NoEvents DEF IsKeyed, KeyedStep
<1>5. ASSUME NEW n \in Nat, n \in P PROVE n + 1 \in P
  <2> SUFFICES ASSUME n + 1 <= Len(s)
               PROVE  IsStream(f[n + 1]) /\ Range(f[n + 1]) = Upto(n + 1)
    OBVIOUS
  <2>1. IsStream(f[n]) /\ Range(f[n]) = Upto(n)
    BY <1>1, <1>5
  <2>2. n + 1 \in 0..Len(s) /\ n + 1 # 0 /\ (n + 1) - 1 = n
    BY <1>1
  <2>3. f[n + 1] = KeyedStep(s, p, f, n + 1)
    BY <1>2, <2>2 DEF IsKeyed
  <2>4. {s[i] : i \in 1..(n + 1)} = {s[i] : i \in 1..n} \union {s[n + 1]}
    OBVIOUS
  <2>5. CASE Partition(s[n + 1]) = p
    BY <2>1, <2>2, <2>3, <2>4, <2>5, Appended DEF KeyedStep
  <2>6. CASE Partition(s[n + 1]) # p
    BY <2>1, <2>2, <2>3, <2>4, <2>6 DEF KeyedStep
  <2> QED
    BY <2>5, <2>6
<1>6. Nat \subseteq P
  BY <1>4, <1>5, SetInduction
<1>7. IsStream(f[Len(s)]) /\ Range(f[Len(s)]) = Upto(Len(s))
  BY <1>1, <1>6
<1> QED
  BY <1>1, <1>3, <1>7

-----------------------------------------------------------------------------
(* What the connectors report *)

\* A stream of events of some types, all about object x.
Says(s, types, x) ==
  /\ IsStream(s)
  /\ \A e \in Range(s) : e.type \in types /\ e.obj = x

\* No events are about anything.
LEMMA SaysNothing ==
  ASSUME NEW types, NEW x
  PROVE  Says(<<>>, types, x)
BY NoEvents DEF Says

\* An event is about its object.
LEMMA SaysOne ==
  ASSUME NEW e, NEW types, e.type \in types
  PROVE  Says(<<e>>, types, e.obj)
BY OneEvent DEF Says

\* Two reports about an object are one.
LEMMA SaysBoth ==
  ASSUME NEW s, NEW t, NEW types, NEW x, Says(s, types, x), Says(t, types, x)
  PROVE  Says(s \o t, types, x)
BY Joined DEF Says

\* So is a report that may be missing.
LEMMA SaysIf ==
  ASSUME NEW s, NEW types, NEW x, Says(s, types, x), NEW condition
  PROVE  Says(Stripe!If(condition, s), types, x)
BY SaysNothing DEF Stripe!If

\* Every subscription webhook reports events of the subscription.
LEMMA StripeSubEvents ==
  ASSUME NEW sub, NEW at, NEW p, NEW type \in SubTypes
  PROVE  Says(<<Stripe!SubEvent(type, sub, at, p)>>, SubTypes, sub.id)
BY SaysOne DEF Stripe!SubEvent, Stripe!Make

\* A Stripe subscription is reported created, first of all.
LEMMA StripeSubCreatedSays ==
  ASSUME NEW sub
  PROVE  /\ Says(Stripe!SubCreated(sub), SubTypes, sub.id)
         /\ \E e \in Range(Stripe!SubCreated(sub)) :
              e.type = "subscription.created" /\ e.obj = sub.id
<1> DEFINE first == Stripe!SubEvent("subscription.created", sub, sub.createdAt,
                                    Stripe!SubCreatedPayload(sub))
           second == <<Stripe!SubEvent("subscription.activated", sub, sub.createdAt,
                                       Stripe!MrrOf(sub))>>
           third == <<Stripe!SubEvent("subscription.trial_started", sub,
                                      sub.createdAt, Stripe!MrrOf(sub))>>
<1>1. /\ Says(<<first>>, SubTypes, sub.id)
      /\ Says(second, SubTypes, sub.id) /\ Says(third, SubTypes, sub.id)
  BY StripeSubEvents DEF SubTypes
<1>2. first.type = "subscription.created" /\ first.obj = sub.id
  BY DEF Stripe!SubEvent, Stripe!Make
<1>3. Stripe!SubCreated(sub) =
        (<<first>> \o Stripe!If(sub.status = "active", second))
        \o Stripe!If(sub.status = "trialing", third)
  BY DEF Stripe!SubCreated
<1> HIDE DEF first, second, third
<1>4. /\ Says(Stripe!If(sub.status = "active", second), SubTypes, sub.id)
      /\ Says(Stripe!If(sub.status = "trialing", third), SubTypes, sub.id)
  BY <1>1, SaysIf
<1> DEFINE head == <<first>> \o Stripe!If(sub.status = "active", second)
<1>5. Says(head, SubTypes, sub.id) /\ first \in Range(head)
  BY <1>1, <1>4, SaysBoth, OneEvent, Joined DEF Says
<1> HIDE DEF head
<1>6. /\ Says(Stripe!SubCreated(sub), SubTypes, sub.id)
      /\ first \in Range(Stripe!SubCreated(sub))
  BY <1>3, <1>4, <1>5, SaysBoth, Joined DEF Says, head
<1> QED
  BY <1>2, <1>6

\* An update of a Stripe subscription is about it, whatever changed.
LEMMA StripeSubUpdatedSays ==
  ASSUME NEW prev, NEW sub, NEW now
  PROVE  Says(Stripe!SubUpdated(prev, sub, now), SubTypes, sub.id)
<1> DEFINE at == Stripe!SubOccurred(sub, now)
           resumed == <<Stripe!SubEvent("subscription.resumed", sub, at,
                                        Stripe!MrrOf(sub))>>
           canceled == <<Stripe!SubEvent("subscription.canceled", sub, at,
                                         Stripe!CanceledPayload(sub))>>
           changed == <<Stripe!SubEvent("subscription.changed", sub, at,
                          [plan |-> sub.plan, prev |-> Stripe!SubMrr(prev.items),
                           mrr |-> Stripe!SubMrr(sub.items), cur |-> sub.cur,
                           items |-> Stripe!SerializeItems(sub)])>>
           one == Stripe!If(prev.paused /\ ~sub.paused, resumed)
           two == Stripe!If(~prev.atEnd /\ sub.atEnd, canceled)
           three == Stripe!If(Stripe!SubMrr(prev.items) # Stripe!SubMrr(sub.items),
                              changed)
           moves == Stripe!StatusEvents(prev, sub, at)
<1>1. Says(moves, SubTypes, sub.id)
  <2>1. Says(<<>>, SubTypes, sub.id)
    BY SaysNothing
  <2>2. /\ Says(<<Stripe!SubEvent("subscription.trial_converted", sub, at,
                                  Stripe!MrrOf(sub))>>, SubTypes, sub.id)
        /\ Says(<<Stripe!SubEvent("subscription.activated", sub, at,
                                  Stripe!MrrOf(sub))>>, SubTypes, sub.id)
        /\ Says(<<Stripe!SubEvent("subscription.trial_expired", sub, at,
                                  Stripe!MrrOf(sub))>>, SubTypes, sub.id)
        /\ Says(canceled, SubTypes, sub.id)
        /\ Says(<<Stripe!SubEvent("subscription.paused", sub, at,
                                  Stripe!MrrOf(sub))>>, SubTypes, sub.id)
        /\ Says(<<Stripe!SubEvent("subscription.churned", sub, at,
                                  Stripe!ChurnedPayload(sub))>>, SubTypes, sub.id)
    BY StripeSubEvents DEF SubTypes
  <2>3. Says(<<Stripe!SubEvent("subscription.trial_converted", sub, at,
                               Stripe!MrrOf(sub)),
               Stripe!SubEvent("subscription.activated", sub, at,
                               Stripe!MrrOf(sub))>>, SubTypes, sub.id)
    <3> DEFINE a == Stripe!SubEvent("subscription.trial_converted", sub, at,
                                    Stripe!MrrOf(sub))
               b == Stripe!SubEvent("subscription.activated", sub, at,
                                    Stripe!MrrOf(sub))
    <3> HIDE DEF a, b
    <3>1. Says(<<a>>, SubTypes, sub.id) /\ Says(<<b>>, SubTypes, sub.id)
      BY <2>2 DEF a, b
    <3>2. Says(<<a, b>>, SubTypes, sub.id)
      BY <3>1, OneEvent, TwoEvents DEF Says
    <3> QED
      BY <3>2 DEF a, b
  <2> HIDE DEF at
  <2> QED
    BY <2>1, <2>2, <2>3, Zenon DEF Stripe!StatusEvents
<1>2. Says(resumed, SubTypes, sub.id) /\ Says(canceled, SubTypes, sub.id)
      /\ Says(changed, SubTypes, sub.id)
  BY StripeSubEvents DEF SubTypes
<1>3. Stripe!SubUpdated(prev, sub, now) = moves \o one \o two \o three
  BY DEF Stripe!SubUpdated
<1> HIDE DEF moves, resumed, canceled, changed
<1>4. Says(one, SubTypes, sub.id) /\ Says(two, SubTypes, sub.id)
      /\ Says(three, SubTypes, sub.id)
  BY <1>2, SaysIf
<1> HIDE DEF one, two, three
<1>5. Says((moves \o one) \o two, SubTypes, sub.id)
  BY <1>1, <1>4, SaysBoth
<1> QED
  BY <1>3, <1>4, <1>5, SaysBoth

\* So is its deletion ...
LEMMA StripeSubDeletedSays ==
  ASSUME NEW sub, NEW now
  PROVE  Says(Stripe!SubDeleted(sub, now), SubTypes, sub.id)
<1> DEFINE at == Stripe!SubOccurred(sub, now)
           churned == <<Stripe!SubEvent("subscription.churned", sub, at,
                                        Stripe!ChurnedPayload(sub))>>
           expired == <<Stripe!SubEvent("subscription.trial_expired", sub, at,
                                        Stripe!MrrOf(sub))>>
           over == Stripe!If(sub.status = "trialing" \/ Stripe!CanceledInTrial(sub),
                             expired)
<1>1. Says(churned, SubTypes, sub.id) /\ Says(expired, SubTypes, sub.id)
  BY StripeSubEvents DEF SubTypes
<1>2. Stripe!SubDeleted(sub, now) = churned \o over
  BY DEF Stripe!SubDeleted
<1> HIDE DEF churned, expired
<1>3. Says(over, SubTypes, sub.id)
  BY <1>1, SaysIf
<1> QED
  BY <1>1, <1>2, <1>3, SaysBoth

\* ... and what a backfill makes of it.
LEMMA StripeSubBackfillSays ==
  ASSUME NEW sub
  PROVE  Says(Stripe!SubBackfill(sub), SubTypes, sub.id)
<1> DEFINE created == <<Stripe!SubEvent("subscription.created", sub, sub.createdAt,
                                        Stripe!SubCreatedPayload(sub))>>
           activated == <<Stripe!SubEvent("subscription.activated", sub,
                                          sub.createdAt, Stripe!MrrOf(sub))>>
           churned == <<Stripe!SubEvent("subscription.churned", sub, sub.createdAt,
                                        Stripe!ChurnedPayload(sub))>>
           started == <<Stripe!SubEvent("subscription.trial_started", sub,
                                        sub.trialStart, Stripe!MrrOf(sub))>>
           converted == <<Stripe!SubEvent("subscription.trial_converted", sub,
                                          sub.trialEnd, Stripe!MrrOf(sub))>>
           expired(at) == <<Stripe!SubEvent("subscription.trial_expired", sub, at,
                                            Stripe!MrrOf(sub))>>
           active == Stripe!If(sub.status = "active", activated)
           over == Stripe!If(sub.status \in {"canceled", "incomplete_expired",
                                             "unpaid"}, churned)
<1>1. /\ Says(created, SubTypes, sub.id) /\ Says(activated, SubTypes, sub.id)
      /\ Says(churned, SubTypes, sub.id) /\ Says(started, SubTypes, sub.id)
      /\ Says(converted, SubTypes, sub.id)
      /\ Says(expired(sub.trialEnd), SubTypes, sub.id)
      /\ Says(expired(sub.endedAt), SubTypes, sub.id)
  BY StripeSubEvents DEF SubTypes
<1>2. Says(Stripe!TrialBackfill(sub), SubTypes, sub.id)
  BY <1>1, SaysNothing, SaysBoth, SaysIf DEF Stripe!TrialBackfill
<1>3. Stripe!SubBackfill(sub) = created \o active \o over \o Stripe!TrialBackfill(sub)
  BY DEF Stripe!SubBackfill
<1> HIDE DEF created, activated, churned
<1>4. Says(active, SubTypes, sub.id) /\ Says(over, SubTypes, sub.id)
  BY <1>1, SaysIf
<1> HIDE DEF active, over
<1>5. Says((created \o active) \o over, SubTypes, sub.id)
  BY <1>1, <1>4, SaysBoth
<1> QED
  BY <1>2, <1>3, <1>5, SaysBoth

\* Every Chargebee event of a subscription is about it.
LEMMA ChargebeeSubEvents ==
  ASSUME NEW sub, NEW at, NEW p, NEW type \in SubTypes
  PROVE  Says(<<Chargebee!SubEvent(type, sub, at, p)>>, SubTypes, sub.id)
BY SaysOne DEF Chargebee!SubEvent, Chargebee!Make

\* A Chargebee subscription is reported created, first of all.
LEMMA ChargebeeSubCreatedSays ==
  ASSUME NEW sub, NEW now
  PROVE  /\ Says(Chargebee!SubCreated(sub, now), SubTypes, sub.id)
         /\ \E e \in Range(Chargebee!SubCreated(sub, now)) :
              e.type = "subscription.created" /\ e.obj = sub.id
<1>1. PICK p, more :
        /\ Chargebee!SubCreated(sub, now) =
             <<Chargebee!SubEvent("subscription.created", sub, now, p)>> \o more
        /\ more \in {<<>>, <<Chargebee!SubEvent("subscription.trial_started", sub,
                                                now, Chargebee!MrrOf(sub))>>,
                     <<Chargebee!SubEvent("subscription.activated", sub, now,
                                          Chargebee!MrrOf(sub))>>}
  BY Zenon DEF Chargebee!SubCreated
<1> DEFINE first == Chargebee!SubEvent("subscription.created", sub, now, p)
<1>2. Says(<<first>>, SubTypes, sub.id) /\ Says(more, SubTypes, sub.id)
  BY <1>1, SaysNothing, ChargebeeSubEvents DEF SubTypes
<1>3. first.type = "subscription.created" /\ first.obj = sub.id
  BY DEF Chargebee!SubEvent, Chargebee!Make
<1> HIDE DEF first
<1>4. Says(<<first>> \o more, SubTypes, sub.id) /\ first \in Range(<<first>> \o more)
  BY <1>2, SaysBoth, OneEvent, Joined DEF Says
<1>5. Chargebee!SubCreated(sub, now) = <<first>> \o more
  BY <1>1 DEF first
<1> QED
  BY <1>3, <1>4, <1>5

\* Its other webhooks are about it.
LEMMA ChargebeeSubSays ==
  ASSUME NEW prior, NEW sub, NEW now
  PROVE  /\ Says(Chargebee!SubActivated(prior, sub, now), SubTypes, sub.id)
         /\ Says(Chargebee!SubChanged(prior, sub, now), SubTypes, sub.id)
         /\ Says(Chargebee!SubCancelled(sub, now), SubTypes, sub.id)
         /\ Says(Chargebee!SubPaused(sub, now), SubTypes, sub.id)
         /\ Says(Chargebee!SubResumed(sub, now), SubTypes, sub.id)
         /\ Says(Chargebee!SubDeleted(sub, now), SubTypes, sub.id)
<1>1. Says(Chargebee!SubActivated(prior, sub, now), SubTypes, sub.id)
  <2> DEFINE activated == <<Chargebee!SubEvent("subscription.activated", sub, now,
                                               Chargebee!MrrOf(sub))>>
  <2>1. PICK more :
          /\ Chargebee!SubActivated(prior, sub, now) = more \o activated
          /\ more \in {<<>>, <<Chargebee!SubEvent("subscription.trial_converted",
                                                  sub, now, Chargebee!MrrOf(sub))>>}
    BY Zenon DEF Chargebee!SubActivated
  <2>2. Says(activated, SubTypes, sub.id) /\ Says(more, SubTypes, sub.id)
    BY <2>1, SaysNothing, ChargebeeSubEvents DEF SubTypes
  <2> HIDE DEF activated
  <2> QED
    BY <2>1, <2>2, SaysBoth
<1>2. Says(Chargebee!SubChanged(prior, sub, now), SubTypes, sub.id)
  BY SaysNothing, ChargebeeSubEvents DEF SubTypes, Chargebee!SubChanged
<1>3. Says(Chargebee!SubCancelled(sub, now), SubTypes, sub.id)
  BY ChargebeeSubEvents DEF SubTypes, Chargebee!SubCancelled
<1>4. Says(Chargebee!SubPaused(sub, now), SubTypes, sub.id)
  BY ChargebeeSubEvents DEF SubTypes, Chargebee!SubPaused
<1>5. Says(Chargebee!SubResumed(sub, now), SubTypes, sub.id)
  BY ChargebeeSubEvents DEF SubTypes, Chargebee!SubResumed
<1>6. Says(Chargebee!SubDeleted(sub, now), SubTypes, sub.id)
  BY ChargebeeSubEvents DEF SubTypes, Chargebee!SubDeleted
<1> QED
  BY <1>1, <1>2, <1>3, <1>4, <1>5, <1>6

-----------------------------------------------------------------------------
(* What the provider's objects account for *)

PaidNow(o) == o.invoice # NoRow /\ o.invoice.status = "paid"

AllTypes == ProductTypes \union PlanTypes \union CustomerTypes \union SubTypes
            \union InvoiceTypes \union PaymentTypes \union CouponTypes \union NoteTypes

\* An event that objects o account for: it is of a type that has a handler and
\* of the subscription, if of any; a payment is reported of a paid invoice and a
\* deletion of a deleted customer; invoices have lines and plans intervals.
Sound(e, o) ==
  /\ e.type \in AllTypes
  /\ e.type \in SubTypes => e.obj = s1
  /\ e.type = "invoice.paid" => PaidNow(o)
  /\ e.type = "invoice.created" =>
       (e.p.status = "paid" => PaidNow(o)) /\ e.p.lines # {}
  /\ e.type = "customer.deleted" => o.customer = NoRow
  /\ e.type \in {"plan.created", "plan.updated"} => e.p.interval # Null

SoundStream(s, o) == IsStream(s) /\ \A e \in Range(s) : Sound(e, o)
Has(E, type, x) == \E e \in E : e.type = type /\ e.obj = x

\* The types whose events every object accounts for.
Plain == ProductTypes \union {"plan.deleted", "customer.created", "customer.updated",
                              "invoice.voided", "invoice.uncollectible"}
         \union PaymentTypes \union CouponTypes \union NoteTypes

\* Events of the plain types are sound of any objects.
LEMMA PlainIsSound ==
  ASSUME NEW e, NEW o, e.type \in Plain
  PROVE  Sound(e, o)
BY DEF Sound, Plain, AllTypes, ProductTypes, PlanTypes, CustomerTypes, SubTypes,
       InvoiceTypes, PaymentTypes, CouponTypes, NoteTypes

\* So are those of the subscription.
LEMMA SubIsSound ==
  ASSUME NEW e, NEW o, e.type \in SubTypes, e.obj = s1
  PROVE  Sound(e, o)
BY DEF Sound, AllTypes, SubTypes

\* No events are sound of any objects.
LEMMA SoundNothing == ASSUME NEW o PROVE SoundStream(<<>>, o)
BY NoEvents DEF SoundStream

\* Two sound streams are one.
LEMMA SoundBoth ==
  ASSUME NEW s, NEW t, NEW o, SoundStream(s, o), SoundStream(t, o)
  PROVE  SoundStream(s \o t, o)
BY Joined DEF SoundStream

\* What is reported of the subscription is sound.
LEMMA SubSoundStream ==
  ASSUME NEW s, NEW o, Says(s, SubTypes, s1)
  PROVE  SoundStream(s, o)
BY SubIsSound DEF Says, SoundStream

\* Webhooks that are reported by one event.
Single(s, type, x) == \E e : s = <<e>> /\ e.type = type /\ e.obj = x

\* A webhook of one plain event is sound, and has that event.
LEMMA SingleSound ==
  ASSUME NEW s, NEW type \in Plain, NEW x, NEW o, Single(s, type, x)
  PROVE  SoundStream(s, o) /\ Has(Range(s), type, x)
BY PlainIsSound, OneEvent DEF Single, SoundStream, Has

\* The Stripe webhooks that are one event each.
LEMMA StripeSingles ==
  ASSUME NEW type, NEW x, NEW at
  PROVE  /\ Single(Stripe!Product(type, x, at), type, x.id)
         /\ Single(Stripe!Customer(type, x), type, x.id)
         /\ Single(Stripe!InvoiceVoided(x, at), "invoice.voided", x.id)
         /\ Single(Stripe!InvoiceUncollectible(x, at), "invoice.uncollectible", x.id)
         /\ Single(Stripe!Payment(type, x, at), type, x.id)
         /\ Single(Stripe!ChargeRefunded("charge", x, at), "payment.refunded", "charge")
         /\ Single(Stripe!Coupon(type, x, at), type, x.id)
         /\ Single(Stripe!NoteCreated(x, at), "credit_note.created", x.id)
         /\ Single(Stripe!NoteVoided(x, at), "credit_note.voided", x.id)
<1>1. ASSUME NEW k, NEW y, NEW c, NEW w, NEW p
      PROVE  Single(<<Stripe!Make(k, y, c, w, p)>>, k, y)
  <2>1. Stripe!Make(k, y, c, w, p).type = k /\ Stripe!Make(k, y, c, w, p).obj = y
    BY DEF Stripe!Make
  <2> QED
    BY <2>1 DEF Single
<1>2. Single(Stripe!Product(type, x, at), type, x.id)
  BY <1>1 DEF Stripe!Product
<1>3. Single(Stripe!Customer(type, x), type, x.id)
  BY <1>1 DEF Stripe!Customer
<1>4. Single(Stripe!InvoiceVoided(x, at), "invoice.voided", x.id)
  BY <1>1 DEF Stripe!InvoiceVoided, Stripe!InvoiceEvent
<1>5. Single(Stripe!InvoiceUncollectible(x, at), "invoice.uncollectible", x.id)
  BY <1>1 DEF Stripe!InvoiceUncollectible, Stripe!InvoiceEvent
<1>6. Single(Stripe!Payment(type, x, at), type, x.id)
  BY <1>1 DEF Stripe!Payment
<1>7. Single(Stripe!ChargeRefunded("charge", x, at), "payment.refunded", "charge")
  BY <1>1 DEF Stripe!ChargeRefunded
<1>8. Single(Stripe!Coupon(type, x, at), type, x.id)
  BY <1>1 DEF Stripe!Coupon
<1>9. Single(Stripe!NoteCreated(x, at), "credit_note.created", x.id)
  BY <1>1 DEF Stripe!NoteCreated
<1>10. Single(Stripe!NoteVoided(x, at), "credit_note.voided", x.id)
  BY <1>1 DEF Stripe!NoteVoided
<1> QED
  BY <1>2, <1>3, <1>4, <1>5, <1>6, <1>7, <1>8, <1>9, <1>10

\* The Chargebee webhooks that are one event each.
LEMMA ChargebeeSingles ==
  ASSUME NEW type, NEW x, NEW at
  PROVE  /\ Single(Chargebee!Item(type, x, at), type, x.id)
         /\ Single(Chargebee!Customer(type, x, at), type, x.id)
         /\ Single(Chargebee!Payment(type, x, at), type, x.id)
         /\ Single(Chargebee!Refunded("refund", x, at), "payment.refunded", x.id)
         /\ Single(Chargebee!Coupon(type, x, at), type, x.id)
         /\ Single(Chargebee!NoteCreated(x, at), "credit_note.created", x.id)
         /\ Single(Chargebee!NoteVoided(x, at), "credit_note.voided", x.id)
<1>1. ASSUME NEW k, NEW y, NEW c, NEW w, NEW p
      PROVE  Single(<<Chargebee!Make(k, y, c, w, p)>>, k, y)
  <2>1. Chargebee!Make(k, y, c, w, p).type = k /\ Chargebee!Make(k, y, c, w, p).obj = y
    BY DEF Chargebee!Make
  <2> QED
    BY <2>1 DEF Single
<1>2. Single(Chargebee!Item(type, x, at), type, x.id)
  BY <1>1 DEF Chargebee!Item
<1>3. Single(Chargebee!Customer(type, x, at), type, x.id)
  BY <1>1 DEF Chargebee!Customer
<1>4. Single(Chargebee!Payment(type, x, at), type, x.id)
  BY <1>1 DEF Chargebee!Payment
<1>5. Single(Chargebee!Refunded("refund", x, at), "payment.refunded", x.id)
  BY <1>1 DEF Chargebee!Refunded
<1>6. Single(Chargebee!Coupon(type, x, at), type, x.id)
  BY <1>1 DEF Chargebee!Coupon
<1>7. Single(Chargebee!NoteCreated(x, at), "credit_note.created", x.id)
  BY <1>1 DEF Chargebee!NoteCreated
<1>8. Single(Chargebee!NoteVoided(x, at), "credit_note.voided", x.id)
  BY <1>1 DEF Chargebee!NoteVoided
<1> QED
  BY <1>2, <1>3, <1>4, <1>5, <1>6, <1>7, <1>8

\* A sound event is a sound stream.
LEMMA SoundOne ==
  ASSUME NEW e, NEW o, Sound(e, o)
  PROVE  SoundStream(<<e>>, o) /\ Has(Range(<<e>>), e.type, e.obj)
BY OneEvent DEF SoundStream, Has

\* A customer's deletion is sound once the customer is gone.
LEMMA DeletionSound ==
  ASSUME NEW s, NEW x, NEW o, Single(s, "customer.deleted", x), o.customer = NoRow
  PROVE  SoundStream(s, o)
BY SoundOne DEF Single, Sound, AllTypes, CustomerTypes, SubTypes

\* A recurring price is reported with its interval.
LEMMA PricesSound ==
  ASSUME NEW type \in PlanTypes, NEW price, NEW at, NEW o, price.interval # Null
  PROVE  /\ SoundStream(Stripe!Price(type, price, at), o)
         /\ Has(Range(Stripe!Price(type, price, at)), type, price.id)
         /\ Stripe!Price(type, price, at) # <<>>
         /\ SoundStream(Chargebee!ItemPrice(type, price, at), o)
         /\ Has(Range(Chargebee!ItemPrice(type, price, at)), type, price.id)
         /\ Chargebee!ItemPrice(type, price, at) # <<>>
BY SoundOne
   DEF Sound, AllTypes, PlanTypes, SubTypes, Stripe!Price, Stripe!If, Stripe!Make,
       Chargebee!ItemPrice, Chargebee!ItemPricePayload, Chargebee!Make

-----------------------------------------------------------------------------
(* Invoices *)

\* The invoice is reported created, in its status and with its lines.
LEMMA StripeInvoiceSound ==
  ASSUME NEW o, NEW at, o.invoice # NoRow, o.invoice.lines # {}
  PROVE  /\ SoundStream(Stripe!InvoiceCreated(o.invoice), o)
         /\ Has(Range(Stripe!InvoiceCreated(o.invoice)), "invoice.created", o.invoice.id)
         /\ SoundStream(Stripe!InvoiceBackfill(o.invoice), o)
         /\ o.invoice.status = "paid" => SoundStream(Stripe!InvoicePaid(o.invoice, at), o)
<1> DEFINE created == Stripe!InvoiceEvent("invoice.created", o.invoice,
                        o.invoice.createdAt, Stripe!InvoicePayload(o.invoice))
           paid(w) == Stripe!InvoiceEvent("invoice.paid", o.invoice, w,
                                          Stripe!PaidPayload(o.invoice))
<1>1. /\ created.type = "invoice.created" /\ created.obj = o.invoice.id
      /\ created.p.status = o.invoice.status /\ created.p.lines # {}
  BY DEF Stripe!InvoiceEvent, Stripe!Make, Stripe!InvoicePayload
<1>2. ASSUME NEW w PROVE paid(w).type = "invoice.paid"
  BY DEF Stripe!InvoiceEvent, Stripe!Make
<1>3. Sound(created, o)
  BY <1>1 DEF Sound, PaidNow, AllTypes, InvoiceTypes, SubTypes
<1>4. ASSUME NEW w, o.invoice.status = "paid" PROVE Sound(paid(w), o)
  BY <1>2, <1>4 DEF Sound, PaidNow, AllTypes, InvoiceTypes, SubTypes
<1>5. /\ Stripe!InvoiceCreated(o.invoice) = <<created>>
      /\ Stripe!InvoicePaid(o.invoice, at) = <<paid(at)>>
  BY DEF Stripe!InvoiceCreated, Stripe!InvoicePaid
<1>6. Stripe!InvoiceBackfill(o.invoice) =
        <<created>> \o (IF o.invoice.status = "paid"
                        THEN <<paid(o.invoice.createdAt)>> ELSE <<>>)
  BY DEF Stripe!InvoiceBackfill, Stripe!InvoiceCreated, Stripe!If
<1> HIDE DEF created, paid
<1>7. SoundStream(<<created>>, o) /\ Has(Range(<<created>>), "invoice.created", o.invoice.id)
  BY <1>1, <1>3, SoundOne
<1>8. o.invoice.status = "paid" => /\ SoundStream(<<paid(at)>>, o)
                                   /\ SoundStream(<<paid(o.invoice.createdAt)>>, o)
  BY <1>4, SoundOne
<1>9. SoundStream(Stripe!InvoiceBackfill(o.invoice), o)
  BY <1>6, <1>7, <1>8, SoundNothing, SoundBoth
<1> QED
  BY <1>5, <1>7, <1>8, <1>9

\* A Chargebee invoice is reported with its lines, and paid when it is.
LEMMA ChargebeeInvoiceSound ==
  ASSUME NEW o, NEW now, o.invoice # NoRow, o.invoice.lines # {}
  PROVE  /\ o.invoice.status = "payment_due" =>
              /\ SoundStream(Chargebee!InvoiceGenerated(o.invoice, now), o)
              /\ Has(Range(Chargebee!InvoiceGenerated(o.invoice, now)),
                     "invoice.created", o.invoice.id)
         /\ SoundStream(Chargebee!InvoiceUpdated(o.invoice, now), o)
<1> DEFINE created == Chargebee!InvoiceEvent("invoice.created", o.invoice, now,
                                             Chargebee!InvoicePayload(o.invoice))
<1>1. ASSUME o.invoice.status = "payment_due"
      PROVE  /\ SoundStream(Chargebee!InvoiceGenerated(o.invoice, now), o)
             /\ Has(Range(Chargebee!InvoiceGenerated(o.invoice, now)),
                    "invoice.created", o.invoice.id)
  <2>1. /\ created.type = "invoice.created" /\ created.obj = o.invoice.id
        /\ created.p.status = Chargebee!InvoiceStatus(o.invoice.status)
        /\ created.p.lines # {}
    BY DEF Chargebee!InvoiceEvent, Chargebee!Make, Chargebee!InvoicePayload
  <2>2. Chargebee!InvoiceStatus(o.invoice.status) = "open"
    BY <1>1 DEF Chargebee!InvoiceStatus
  <2>3. Chargebee!InvoiceGenerated(o.invoice, now) = <<created>> \o <<>>
    BY <1>1 DEF Chargebee!InvoiceGenerated
  <2> HIDE DEF created
  <2>4. Sound(created, o)
    BY <2>1, <2>2 DEF Sound, AllTypes, InvoiceTypes, SubTypes
  <2>5. SoundStream(<<created>>, o) /\ created \in Range(<<created>>)
    BY <2>4, SoundOne, OneEvent
  <2>6. SoundStream(<<created>> \o <<>>, o) /\ created \in Range(<<created>> \o <<>>)
    BY <2>5, SoundNothing, SoundBoth, Joined DEF SoundStream
  <2> QED
    BY <2>1, <2>3, <2>6 DEF Has
<1>2. SoundStream(Chargebee!InvoiceUpdated(o.invoice, now), o)
  BY SoundOne, PlainIsSound, SoundNothing
     DEF Chargebee!InvoiceUpdated, Chargebee!Paid, Chargebee!InvoiceEvent,
         Chargebee!Make, Sound, PaidNow, AllTypes, InvoiceTypes, SubTypes, Plain
<1> QED
  BY <1>1, <1>2

-----------------------------------------------------------------------------
(* What a handler makes of the tables *)

\* An absent row is not a record.
NoRowIsNoRecord == NoRow # [x \in DOMAIN NoRow |-> NoRow[x]]

TableNames == {"product", "plan", "customer", "sub", "item", "invoice", "line",
               "payment", "coupon", "note", "log"}

\* Tables of the right keys; invoices have a status, and the items are of the
\* subscription.
IsTables(t) ==
  /\ t = [x \in DOMAIN t |-> t[x]] /\ DOMAIN t = TableNames
  /\ DOMAIN t.plan = Plans /\ DOMAIN t.customer = Customers /\ DOMAIN t.sub = Subs
  /\ DOMAIN t.item = Items /\ DOMAIN t.invoice = Invoices /\ DOMAIN t.line = Invoices
  /\ DOMAIN t.payment = Payments /\ DOMAIN t.coupon = Coupons /\ DOMAIN t.note = Notes
  /\ \A i \in Invoices : t.invoice[i] # NoRow => "status" \in DOMAIN t.invoice[i]
  /\ \A x \in Items : t.item[x] = NoRow \/ t.item[x].sub = s1

\* Tables t and u are the same but for those in names.
SameBut(t, u, names) == \A x \in TableNames \ names : u[x] = t[x]

\* A product handler writes the product table alone, and once.
LEMMA ProductHandled ==
  ASSUME NoRowIsNoRecord, NEW t, NEW e, IsTables(t), e.type \in ProductTypes,
         NEW u, u = HandleProduct(t, e)
  PROVE  /\ IsTables(u) /\ SameBut(t, u, {"product"})
         /\ HandleProduct(u, e) = u
<1>1. IsTables(u) /\ SameBut(t, u, {"product"})
  BY DEF HandleProduct, ProductTypes, IsTables, SameBut, TableNames
<1>2. CASE e.type \in {"product.created", "product.updated"}
  <2>1. HandleProduct(HandleProduct(t, e), e) = HandleProduct(t, e)
    BY <1>2 DEF NoRowIsNoRecord, HandleProduct, ProductRow, Coalesce
  <2> QED
    BY <1>1, <2>1
<1>3. CASE e.type = "product.deleted"
  <2>1. HandleProduct(HandleProduct(t, e), e) = HandleProduct(t, e)
    BY <1>3 DEF NoRowIsNoRecord, HandleProduct
  <2> QED
    BY <1>1, <2>1
<1> QED
  BY <1>2, <1>3 DEF ProductTypes

\* A plan handler writes the plan table alone, and once; no plan is removed.
LEMMA PlanHandled ==
  ASSUME NoRowIsNoRecord, NEW t, NEW e, IsTables(t), e.type \in PlanTypes,
         NEW u, u = HandlePlan(t, e)
  PROVE  /\ IsTables(u) /\ SameBut(t, u, {"plan"})
         /\ HandlePlan(u, e) = u
         /\ \A x \in Plans : t.plan[x] # NoRow => u.plan[x] # NoRow
         /\ e.type # "plan.deleted" /\ e.p.interval # Null /\ e.obj \in Plans =>
              u.plan[e.obj] # NoRow
<1>1. IsTables(u) /\ SameBut(t, u, {"plan"})
  BY DEF HandlePlan, PlanTypes, IsTables, SameBut, TableNames
<1>2. HandlePlan(u, e) = u
  <2>1. CASE e.type \in {"plan.created", "plan.updated"} /\ e.p.interval = Null
    BY <2>1 DEF HandlePlan
  <2>2. CASE e.type \in {"plan.created", "plan.updated"} /\ e.p.interval # Null
    <3> DEFINE r == PlanRow(t, e, t.plan[e.obj])
               q == PlanRow(u, e, u.plan[e.obj])
    <3>1. u = [t EXCEPT !.plan[e.obj] = r]
      BY <2>2 DEF HandlePlan
    <3>2. u.product = t.product
      BY <1>1 DEF SameBut, TableNames
    <3>3. HandlePlan(u, e) = [u EXCEPT !.plan[e.obj] = q]
      BY <2>2 DEF HandlePlan
    <3>4. PlanRow(t, e, r) = r
      BY DEF NoRowIsNoRecord, PlanRow, Coalesce
    <3>5. PlanRow(u, e, r) = PlanRow(t, e, r)
      BY <3>2 DEF PlanRow
    <3>6. e.obj \in Plans => u.plan[e.obj] = r
      <4> HIDE DEF r
      <4> QED
        BY <3>1 DEF IsTables, TableNames
    <3>7. e.obj \in Plans => q = r
      BY <3>4, <3>5, <3>6
    <3> HIDE DEF r, q
    <3>8. [u EXCEPT !.plan[e.obj] = r] = u
      BY <3>1
    <3>9. e.obj \notin Plans => [u EXCEPT !.plan[e.obj] = q] = u
      BY <3>1 DEF IsTables
    <3> QED
      BY <3>3, <3>7, <3>8, <3>9
  <2>3. CASE e.type = "plan.deleted"
    <3>1. HandlePlan(HandlePlan(t, e), e) = HandlePlan(t, e)
      BY <2>3 DEF NoRowIsNoRecord, HandlePlan
    <3> QED
      BY <3>1
  <2> QED
    BY <2>1, <2>2, <2>3 DEF PlanTypes
<1>3. \A x \in Plans : t.plan[x] # NoRow => u.plan[x] # NoRow
  BY DEF NoRowIsNoRecord, HandlePlan, PlanTypes, PlanRow, IsTables, TableNames
<1>4. e.type # "plan.deleted" /\ e.p.interval # Null /\ e.obj \in Plans =>
        u.plan[e.obj] # NoRow
  BY DEF NoRowIsNoRecord, HandlePlan, PlanTypes, PlanRow, IsTables, TableNames
<1> QED
  BY <1>1, <1>2, <1>3, <1>4

\* A customer handler writes the customer table alone, and once.
LEMMA CustomerHandled ==
  ASSUME NoRowIsNoRecord, NEW t, NEW e, IsTables(t), e.type \in CustomerTypes,
         NEW u, u = HandleCustomer(t, e)
  PROVE  /\ IsTables(u) /\ SameBut(t, u, {"customer"})
         /\ HandleCustomer(u, e) = u
         /\ e.type # "customer.deleted" =>
              /\ \A x \in Customers : t.customer[x] # NoRow => u.customer[x] # NoRow
              /\ e.obj \in Customers => u.customer[e.obj] # NoRow
<1>1. IsTables(u) /\ SameBut(t, u, {"customer"})
  BY DEF HandleCustomer, CustomerTypes, IsTables, SameBut, TableNames
<1>2. HandleCustomer(u, e) = u
  BY DEF NoRowIsNoRecord, HandleCustomer, CustomerTypes, Coalesce, IsTables, TableNames
<1>3. e.type # "customer.deleted" =>
        /\ \A x \in Customers : t.customer[x] # NoRow => u.customer[x] # NoRow
        /\ e.obj \in Customers => u.customer[e.obj] # NoRow
  BY DEF NoRowIsNoRecord, HandleCustomer, CustomerTypes, IsTables, TableNames
<1> QED
  BY <1>1, <1>2, <1>3

-----------------------------------------------------------------------------
(* What a subscription handler makes of the tables *)

\* The provider's objects have keys of the tables.
LEMMA TheObjects ==
  /\ c1 \in Customers /\ s1 \in Subs /\ i1 \in Invoices /\ t1 \in Payments
  /\ k1 \in Coupons /\ n1 \in Notes
BY BillingAssumption DEF c1, s1, i1, t1, k1, n1

PutSub(t, r) == [t EXCEPT !.sub[s1] = r]

\* A row of the subscription, written once or twice.
LEMMA SubWritten ==
  ASSUME NEW t, IsTables(t), NEW r, r # NoRow
  PROVE  /\ IsTables(PutSub(t, r)) /\ SameBut(t, PutSub(t, r), {"sub"})
         /\ PutSub(t, r).sub[s1] = r /\ PutSub(PutSub(t, r), r) = PutSub(t, r)
         /\ \A x \in Subs : t.sub[x] # NoRow => PutSub(t, r).sub[x] # NoRow
BY TheObjects DEF IsTables, SameBut, TableNames, PutSub

\* As all items are the subscription's, those of the payload take their place,
\* whatever they were.
ItemsNow(plans, items) ==
  [x \in Items |-> IF x \in DOMAIN items
                   THEN [sub |-> s1, plan |-> Lookup(plans, items[x].plan),
                         mrr |-> items[x].mrr,
                         base |-> ToBase(items[x].mrr, items[x].cur)]
                   ELSE NoRow]

PutItems(t, items) == [t EXCEPT !.item = ItemsNow(t.plan, items)]

\* The subscription's items are replaced only where its row is.
LEMMA ItemsReplaced ==
  ASSUME NEW t, IsTables(t), NEW e, e.obj = s1, NEW items
  PROVE  /\ IsTables(ReplaceItems(t, e, items))
         /\ SameBut(t, ReplaceItems(t, e, items), {"item"})
         /\ t.sub[s1] = NoRow => ReplaceItems(t, e, items) = t
         /\ t.sub[s1] # NoRow => ReplaceItems(t, e, items) = PutItems(t, items)
<1> DEFINE u == ReplaceItems(t, e, items)
<1>1. CASE t.sub[s1] = NoRow
  BY <1>1 DEF ReplaceItems, SameBut
<1>2. CASE t.sub[s1] # NoRow
  <2> DEFINE new == [x \in Items |->
             IF x \in DOMAIN items
             THEN [sub |-> e.obj,
                   plan |-> LET plan == Lookup(t.plan, items[x].plan)
                            IN  IF t.item[x] = NoRow \/ t.item[x].sub = e.obj THEN plan
                                ELSE Coalesce(plan, t.item[x].plan),
                   mrr |-> items[x].mrr,
                   base |-> ToBase(items[x].mrr, items[x].cur)]
             ELSE IF t.item[x] # NoRow /\ t.item[x].sub = e.obj THEN NoRow
             ELSE t.item[x]]
  <2>1. u = [t EXCEPT !.item = new]
    BY <1>2 DEF ReplaceItems
  <2>2. ASSUME NEW x \in Items PROVE new[x] = ItemsNow(t.plan, items)[x]
    BY DEF IsTables, ItemsNow
  <2>3. new = ItemsNow(t.plan, items)
    BY <2>2 DEF ItemsNow
  <2>4. \A x \in Items : \/ ItemsNow(t.plan, items)[x] = NoRow
                          \/ ItemsNow(t.plan, items)[x].sub = s1
    BY DEF ItemsNow
  <2>5. DOMAIN ItemsNow(t.plan, items) = Items
    BY DEF ItemsNow
  <2> HIDE DEF new
  <2>6. u = [t EXCEPT !.item = ItemsNow(t.plan, items)]
    BY <2>1, <2>3
  <2> HIDE DEF u
  <2>7. IsTables(u) /\ SameBut(t, u, {"item"})
    BY <2>4, <2>5, <2>6 DEF IsTables, SameBut, TableNames
  <2> QED
    BY <1>2, <2>6, <2>7 DEF u, PutItems
<1> QED
  BY <1>1, <1>2

\* What a subscription handler leaves as it is.
SubHandled(t, u) ==
  /\ IsTables(u) /\ SameBut(t, u, {"sub", "item"})
  /\ \A x \in Subs : t.sub[x] # NoRow => u.sub[x] # NoRow

\* A subscription handler may do nothing.
LEMMA SubUntouched ==
  ASSUME NEW t, IsTables(t)
  PROVE  SubHandled(t, t)
BY DEF SubHandled, SameBut

\* The handlers that write the subscription's row alone.

\* subscription.activated, reactivated, resumed: once is enough.
LEMMA ActiveHandled ==
  ASSUME NoRowIsNoRecord, NEW t, IsTables(t), NEW e, e.obj = s1,
         NEW u, u = SubscriptionActive(t, e)
  PROVE  /\ SubHandled(t, u) /\ SubscriptionActive(u, e) = u
         /\ t.sub[s1] = NoRow => u = t
<1>1. CASE t.sub[s1] = NoRow
  BY <1>1, SubUntouched DEF SubscriptionActive, UpdateSub
<1>2. CASE t.sub[s1] # NoRow
  <2> DEFINE r == [t.sub[e.obj] EXCEPT !.status = "active", !.mrr = e.p.mrr,
                              !.endedAt = Null, !.canceledAt = Null, !.pending = FALSE]
             q == [u.sub[e.obj] EXCEPT !.status = "active", !.mrr = e.p.mrr,
                              !.endedAt = Null, !.canceledAt = Null, !.pending = FALSE]
  <2>1. SubscriptionActive(t, e) = UpdateSub(t, e, r)
    BY DEF SubscriptionActive
  <2>2. r # NoRow
    BY DEF NoRowIsNoRecord
  <2>3. [r EXCEPT !.status = "active", !.mrr = e.p.mrr,
                              !.endedAt = Null, !.canceledAt = Null, !.pending = FALSE] = r
    OBVIOUS
  <2> HIDE DEF r
  <2>4. u.sub[e.obj] = r /\ PutSub(u, r) = u /\ SubHandled(t, u)
    <3>1. u = PutSub(t, r)
      BY <1>2, <2>1 DEF UpdateSub, PutSub
    <3>2. /\ IsTables(u) /\ SameBut(t, u, {"sub"})
          /\ u.sub[s1] = r /\ PutSub(u, r) = u
          /\ \A x \in Subs : t.sub[x] # NoRow => u.sub[x] # NoRow
      BY <2>2, <3>1, SubWritten
    <3> QED
      BY <3>2 DEF SubHandled, SameBut
  <2>5. q = r
    BY <2>3, <2>4
  <2>6. SubscriptionActive(u, e) = UpdateSub(u, e, q)
    BY DEF SubscriptionActive
  <2> HIDE DEF q
  <2> QED
    BY <1>2, <2>2, <2>4, <2>5, <2>6 DEF UpdateSub, PutSub
<1> QED
  BY <1>1, <1>2

\* subscription.canceled: once is enough.
LEMMA CanceledHandled ==
  ASSUME NoRowIsNoRecord, NEW t, IsTables(t), NEW e, e.obj = s1,
         NEW u, u = SubscriptionCanceled(t, e)
  PROVE  /\ SubHandled(t, u) /\ SubscriptionCanceled(u, e) = u
         /\ t.sub[s1] = NoRow => u = t
<1>1. CASE t.sub[s1] = NoRow
  BY <1>1, SubUntouched DEF SubscriptionCanceled, UpdateSub
<1>2. CASE t.sub[s1] # NoRow
  <2> DEFINE r == [t.sub[e.obj] EXCEPT !.status = "canceled", !.pending = TRUE,
                              !.canceledAt = Coalesce(e.p.canceledAt, e.at)]
             q == [u.sub[e.obj] EXCEPT !.status = "canceled", !.pending = TRUE,
                              !.canceledAt = Coalesce(e.p.canceledAt, e.at)]
  <2>1. SubscriptionCanceled(t, e) = UpdateSub(t, e, r)
    BY DEF SubscriptionCanceled
  <2>2. r # NoRow
    BY DEF NoRowIsNoRecord
  <2>3. [r EXCEPT !.status = "canceled", !.pending = TRUE,
                              !.canceledAt = Coalesce(e.p.canceledAt, e.at)] = r
    OBVIOUS
  <2> HIDE DEF r
  <2>4. u.sub[e.obj] = r /\ PutSub(u, r) = u /\ SubHandled(t, u)
    <3>1. u = PutSub(t, r)
      BY <1>2, <2>1 DEF UpdateSub, PutSub
    <3>2. /\ IsTables(u) /\ SameBut(t, u, {"sub"})
          /\ u.sub[s1] = r /\ PutSub(u, r) = u
          /\ \A x \in Subs : t.sub[x] # NoRow => u.sub[x] # NoRow
      BY <2>2, <3>1, SubWritten
    <3> QED
      BY <3>2 DEF SubHandled, SameBut
  <2>5. q = r
    BY <2>3, <2>4
  <2>6. SubscriptionCanceled(u, e) = UpdateSub(u, e, q)
    BY DEF SubscriptionCanceled
  <2> HIDE DEF q
  <2> QED
    BY <1>2, <2>2, <2>4, <2>5, <2>6 DEF UpdateSub, PutSub
<1> QED
  BY <1>1, <1>2

\* subscription.churned: once is enough.
LEMMA ChurnedHandled ==
  ASSUME NoRowIsNoRecord, NEW t, IsTables(t), NEW e, e.obj = s1,
         NEW u, u = SubscriptionChurned(t, e)
  PROVE  /\ SubHandled(t, u) /\ SubscriptionChurned(u, e) = u
         /\ t.sub[s1] = NoRow => u = t
<1>1. CASE t.sub[s1] = NoRow
  BY <1>1, SubUntouched DEF SubscriptionChurned, UpdateSub
<1>2. CASE t.sub[s1] # NoRow
  <2> DEFINE r == [t.sub[e.obj] EXCEPT !.status = "canceled", !.mrr = 0,
                              !.endedAt = e.at]
             q == [u.sub[e.obj] EXCEPT !.status = "canceled", !.mrr = 0,
                              !.endedAt = e.at]
  <2>1. SubscriptionChurned(t, e) = UpdateSub(t, e, r)
    BY DEF SubscriptionChurned
  <2>2. r # NoRow
    BY DEF NoRowIsNoRecord
  <2>3. [r EXCEPT !.status = "canceled", !.mrr = 0,
                              !.endedAt = e.at] = r
    OBVIOUS
  <2> HIDE DEF r
  <2>4. u.sub[e.obj] = r /\ PutSub(u, r) = u /\ SubHandled(t, u)
    <3>1. u = PutSub(t, r)
      BY <1>2, <2>1 DEF UpdateSub, PutSub
    <3>2. /\ IsTables(u) /\ SameBut(t, u, {"sub"})
          /\ u.sub[s1] = r /\ PutSub(u, r) = u
          /\ \A x \in Subs : t.sub[x] # NoRow => u.sub[x] # NoRow
      BY <2>2, <3>1, SubWritten
    <3> QED
      BY <3>2 DEF SubHandled, SameBut
  <2>5. q = r
    BY <2>3, <2>4
  <2>6. SubscriptionChurned(u, e) = UpdateSub(u, e, q)
    BY DEF SubscriptionChurned
  <2> HIDE DEF q
  <2> QED
    BY <1>2, <2>2, <2>4, <2>5, <2>6 DEF UpdateSub, PutSub
<1> QED
  BY <1>1, <1>2

\* subscription.paused: once is enough.
LEMMA PausedHandled ==
  ASSUME NoRowIsNoRecord, NEW t, IsTables(t), NEW e, e.obj = s1,
         NEW u, u = SubscriptionPaused(t, e)
  PROVE  /\ SubHandled(t, u) /\ SubscriptionPaused(u, e) = u
         /\ t.sub[s1] = NoRow => u = t
<1>1. CASE t.sub[s1] = NoRow
  BY <1>1, SubUntouched DEF SubscriptionPaused, UpdateSub
<1>2. CASE t.sub[s1] # NoRow
  <2> DEFINE r == [t.sub[e.obj] EXCEPT !.status = "paused", !.mrr = 0]
             q == [u.sub[e.obj] EXCEPT !.status = "paused", !.mrr = 0]
  <2>1. SubscriptionPaused(t, e) = UpdateSub(t, e, r)
    BY DEF SubscriptionPaused
  <2>2. r # NoRow
    BY DEF NoRowIsNoRecord
  <2>3. [r EXCEPT !.status = "paused", !.mrr = 0] = r
    OBVIOUS
  <2> HIDE DEF r
  <2>4. u.sub[e.obj] = r /\ PutSub(u, r) = u /\ SubHandled(t, u)
    <3>1. u = PutSub(t, r)
      BY <1>2, <2>1 DEF UpdateSub, PutSub
    <3>2. /\ IsTables(u) /\ SameBut(t, u, {"sub"})
          /\ u.sub[s1] = r /\ PutSub(u, r) = u
          /\ \A x \in Subs : t.sub[x] # NoRow => u.sub[x] # NoRow
      BY <2>2, <3>1, SubWritten
    <3> QED
      BY <3>2 DEF SubHandled, SameBut
  <2>5. q = r
    BY <2>3, <2>4
  <2>6. SubscriptionPaused(u, e) = UpdateSub(u, e, q)
    BY DEF SubscriptionPaused
  <2> HIDE DEF q
  <2> QED
    BY <1>2, <2>2, <2>4, <2>5, <2>6 DEF UpdateSub, PutSub
<1> QED
  BY <1>1, <1>2

\* A row is written and the items are replaced, twice as once.
LEMMA WrittenWithItems ==
  ASSUME NEW t, IsTables(t), NEW r, r # NoRow, NEW e, e.obj = s1, NEW items,
         NEW u, u = ReplaceItems(PutSub(t, r), e, items)
  PROVE  /\ SubHandled(t, u) /\ u.sub[s1] = r
         /\ u.plan = t.plan /\ u.customer = t.customer
         /\ ReplaceItems(PutSub(u, r), e, items) = u
<1> DEFINE w == PutSub(t, r)
<1>1. /\ IsTables(w) /\ SameBut(t, w, {"sub"}) /\ w.sub[s1] = r
      /\ \A x \in Subs : t.sub[x] # NoRow => w.sub[x] # NoRow
  BY SubWritten
<1>2. PutSub(w, r) = w
  BY SubWritten
<1> HIDE DEF w
<1>3. u = ReplaceItems(w, e, items)
  BY DEF w
<1>4. u = PutItems(w, items) /\ IsTables(u) /\ SameBut(w, u, {"item"})
  BY <1>1, <1>3, ItemsReplaced
<1>5. u.sub = w.sub /\ u.plan = w.plan /\ u.customer = w.customer
  BY <1>4 DEF SameBut, TableNames
<1>6. w.plan = t.plan /\ w.customer = t.customer
  BY <1>1 DEF SameBut, TableNames
<1>7. SubHandled(t, u)
  BY <1>1, <1>4, <1>5 DEF SubHandled, SameBut
<1>8. PutSub(u, r) = u
  BY <1>2, <1>4 DEF PutSub, PutItems, IsTables, TableNames
<1>9. PutItems(u, items) = u
  BY <1>4, <1>5 DEF PutItems
<1>10. ReplaceItems(u, e, items) = PutItems(u, items)
  BY <1>1, <1>4, <1>5, ItemsReplaced
<1> QED
  BY <1>1, <1>5, <1>6, <1>7, <1>8, <1>9, <1>10

\* subscription.created: once is enough, and the row is there.
LEMMA CreatedHandled ==
  ASSUME NoRowIsNoRecord, NEW t, IsTables(t), NEW e, e.obj = s1,
         NEW u, u = SubscriptionCreated(t, e)
  PROVE  /\ SubHandled(t, u) /\ SubscriptionCreated(u, e) = u
         /\ u.sub[s1] # NoRow /\ u.customer = t.customer
<1> DEFINE New(v) == [customer |-> Lookup(v.customer, e.p.customer),
                      plan |-> Lookup(v.plan, e.p.plan), status |-> e.p.status,
                      mrr |-> e.p.mrr, base |-> e.p.mrr, pending |-> FALSE,
                      canceledAt |-> Null, endedAt |-> Null]
           Row(v, old) == IF old = NoRow THEN New(v)
                          ELSE [old EXCEPT !.status = e.p.status, !.mrr = e.p.mrr,
                                           !.base = e.p.mrr]
           r == Row(t, t.sub[s1])
<1>1. ASSUME NEW v
      PROVE  SubscriptionCreated(v, e) =
               ReplaceItems(PutSub(v, Row(v, v.sub[s1])), e, e.p.items)
  BY DEF SubscriptionCreated, PutSub
<1>2. r # NoRow
  BY DEF NoRowIsNoRecord
<1>3. [r EXCEPT !.status = e.p.status, !.mrr = e.p.mrr, !.base = e.p.mrr] = r
  <2>1. CASE t.sub[s1] = NoRow
    <3>1. /\ r.status = e.p.status /\ r.mrr = e.p.mrr /\ r.base = e.p.mrr
          /\ r = [x \in DOMAIN r |-> r[x]]
      BY <2>1
    <3> HIDE DEF r
    <3> QED
      BY <3>1
  <2>2. CASE t.sub[s1] # NoRow
    BY <2>2
  <2> QED
    BY <2>1, <2>2
<1>4. u = ReplaceItems(PutSub(t, r), e, e.p.items)
  BY <1>1
<1> HIDE DEF r
<1>5. /\ SubHandled(t, u) /\ u.sub[s1] = r /\ u.customer = t.customer
      /\ ReplaceItems(PutSub(u, r), e, e.p.items) = u
  BY <1>2, <1>4, WrittenWithItems
<1>6. Row(u, u.sub[s1]) = r
  BY <1>2, <1>3, <1>5
<1> HIDE DEF Row
<1> QED
  BY <1>1, <1>2, <1>5, <1>6

\* subscription.changed: once is enough.
LEMMA ChangedHandled ==
  ASSUME NoRowIsNoRecord, NEW t, IsTables(t), NEW e, e.obj = s1,
         NEW u, u = SubscriptionChanged(t, e)
  PROVE  /\ SubHandled(t, u) /\ SubscriptionChanged(u, e) = u
         /\ t.sub[s1] = NoRow => u = t
<1> DEFINE Row(v, old) ==
             [old EXCEPT !.mrr = e.p.mrr,
                         !.plan = Coalesce(Lookup(v.plan, e.p.plan), @)]
           r == Row(t, t.sub[s1])
<1>1. ASSUME NEW v, v.sub[s1] # NoRow
      PROVE  SubscriptionChanged(v, e) =
               ReplaceItems(PutSub(v, Row(v, v.sub[s1])), e, e.p.items)
  BY <1>1 DEF SubscriptionChanged, UpdateSub, PutSub
<1>2. CASE t.sub[s1] = NoRow
  BY <1>2, SubUntouched DEF SubscriptionChanged, UpdateSub, ReplaceItems
<1>3. CASE t.sub[s1] # NoRow
  <2>1. r # NoRow
    BY DEF NoRowIsNoRecord
  <2>2. Row(t, r) = r
    BY DEF Coalesce
  <2>3. u = ReplaceItems(PutSub(t, r), e, e.p.items)
    BY <1>1, <1>3
  <2> HIDE DEF r
  <2>4. /\ SubHandled(t, u) /\ u.sub[s1] = r /\ u.plan = t.plan
        /\ ReplaceItems(PutSub(u, r), e, e.p.items) = u
    BY <2>1, <2>3, WrittenWithItems
  <2>5. Row(u, u.sub[s1]) = r
    BY <2>2, <2>4
  <2> HIDE DEF Row
  <2>6. SubscriptionChanged(u, e) = ReplaceItems(PutSub(u, r), e, e.p.items)
    BY <1>1, <2>1, <2>4, <2>5
  <2> QED
    BY <1>3, <2>4, <2>6
<1> QED
  BY <1>2, <1>3

\* The subscription's handler, whatever the event.
LEMMA SubscriptionHandled ==
  ASSUME NoRowIsNoRecord, NEW t, IsTables(t), NEW e, e.obj = s1, e.type \in SubTypes,
         NEW u, u = HandleSubscription(t, e)
  PROVE  /\ SubHandled(t, u) /\ HandleSubscription(u, e) = u
         /\ e.type = "subscription.created" => u.sub[s1] # NoRow /\ u.customer = t.customer
         /\ e.type = "subscription.changed" /\ t.sub[s1] = NoRow => u = t
BY CreatedHandled, ActiveHandled, ChangedHandled, CanceledHandled, ChurnedHandled,
   PausedHandled, SubUntouched
   DEF HandleSubscription, SubTypes

-----------------------------------------------------------------------------
(* What an invoice handler makes of the tables *)

PutInvoice(t, x, r) == [t EXCEPT !.invoice[x] = r]
IsPaid(t, i) == t.invoice[i] # NoRow /\ t.invoice[i].status = "paid"

\* A row of an invoice, written once or twice.
LEMMA InvoiceWritten ==
  ASSUME NEW t, IsTables(t), NEW x, NEW r,
         x \in Invoices => r # NoRow /\ "status" \in DOMAIN r
  PROVE  /\ IsTables(PutInvoice(t, x, r)) /\ SameBut(t, PutInvoice(t, x, r), {"invoice"})
         /\ x \in Invoices => PutInvoice(t, x, r).invoice[x] = r
         /\ \A i \in Invoices : i # x => PutInvoice(t, x, r).invoice[i] = t.invoice[i]
         /\ PutInvoice(PutInvoice(t, x, r), x, r) = PutInvoice(t, x, r)
         /\ x \notin Invoices =>
              \A q : PutInvoice(PutInvoice(t, x, r), x, q) = PutInvoice(t, x, r)
<1> DEFINE u == PutInvoice(t, x, r)
<1>1. \A i \in Invoices : u.invoice[i] = IF i = x THEN r ELSE t.invoice[i]
  BY DEF IsTables, TableNames, PutInvoice
<1>2. DOMAIN u.invoice = Invoices /\ SameBut(t, u, {"invoice"})
      /\ u = [n \in DOMAIN u |-> u[n]] /\ DOMAIN u = TableNames
  BY DEF IsTables, SameBut, TableNames, PutInvoice
<1>3. PutInvoice(PutInvoice(t, x, r), x, r) = PutInvoice(t, x, r)
  BY DEF PutInvoice
<1>4. x \notin Invoices => \A q : PutInvoice(PutInvoice(t, x, r), x, q) = PutInvoice(t, x, r)
  BY DEF IsTables, PutInvoice
<1> HIDE DEF u
<1>5. IsTables(u)
  BY <1>1, <1>2 DEF IsTables, SameBut, TableNames
<1> QED
  BY <1>1, <1>2, <1>3, <1>4, <1>5 DEF u

\* An update leaves the rows where they are and their status, but for the one
\* that it sets.
InvoiceUpdated(t, u, status) ==
  /\ IsTables(u) /\ SameBut(t, u, {"invoice"})
  /\ \A i \in Invoices :
       /\ t.invoice[i] # NoRow => u.invoice[i] # NoRow
       /\ IsPaid(u, i) => IsPaid(t, i) \/ status = "paid"

\* invoice.paid: once is enough.
LEMMA InvoicePaidHandled ==
  ASSUME NoRowIsNoRecord, NEW t, IsTables(t), NEW e, e.type = "invoice.paid",
         NEW u, u = HandleInvoice(t, e)
  PROVE  InvoiceUpdated(t, u, "paid") /\ HandleInvoice(u, e) = u
<1> DEFINE r == [t.invoice[e.obj] EXCEPT !.status = "paid",
                              !.paidAt = Coalesce(e.p.paidAt, e.at)]
           q == [u.invoice[e.obj] EXCEPT !.status = "paid",
                              !.paidAt = Coalesce(e.p.paidAt, e.at)]
<1>1. HandleInvoice(t, e) = UpdateInvoice(t, e, r)
  BY DEF HandleInvoice
<1>2. HandleInvoice(u, e) = UpdateInvoice(u, e, q)
  BY DEF HandleInvoice
<1>3. CASE t.invoice[e.obj] = NoRow
  BY <1>1, <1>2, <1>3 DEF UpdateInvoice, InvoiceUpdated, SameBut
<1>4. CASE t.invoice[e.obj] # NoRow
  <2>1. r # NoRow /\ DOMAIN r = DOMAIN t.invoice[e.obj]
    BY DEF NoRowIsNoRecord
  <2>2. e.obj \in Invoices => "status" \in DOMAIN r /\ r.status = "paid"
    BY <1>4 DEF IsTables
  <2>3. [r EXCEPT !.status = "paid",
                              !.paidAt = Coalesce(e.p.paidAt, e.at)] = r
    OBVIOUS
  <2> HIDE DEF r
  <2>4. u = PutInvoice(t, e.obj, r)
    BY <1>1, <1>4 DEF UpdateInvoice, PutInvoice
  <2>5. /\ IsTables(u) /\ SameBut(t, u, {"invoice"})
        /\ e.obj \in Invoices => u.invoice[e.obj] = r
        /\ \A i \in Invoices : i # e.obj => u.invoice[i] = t.invoice[i]
        /\ PutInvoice(u, e.obj, r) = u
        /\ e.obj \notin Invoices => \A w : PutInvoice(u, e.obj, w) = u
    BY <2>1, <2>2, <2>4, InvoiceWritten
  <2>6. InvoiceUpdated(t, u, "paid")
    BY <2>1, <2>2, <2>5 DEF InvoiceUpdated, IsPaid
  <2>7. e.obj \in Invoices => q = r
    BY <2>3, <2>5
  <2> HIDE DEF q
  <2>8. UpdateInvoice(u, e, q) = u
    BY <2>5, <2>7 DEF UpdateInvoice, PutInvoice
  <2> QED
    BY <1>2, <2>6, <2>8
<1> QED
  BY <1>3, <1>4

\* invoice.voided: once is enough.
LEMMA InvoiceVoidedHandled ==
  ASSUME NoRowIsNoRecord, NEW t, IsTables(t), NEW e, e.type = "invoice.voided",
         NEW u, u = HandleInvoice(t, e)
  PROVE  InvoiceUpdated(t, u, "void") /\ HandleInvoice(u, e) = u
<1> DEFINE r == [t.invoice[e.obj] EXCEPT !.status = "void",
                              !.voidedAt = Coalesce(e.p.voidedAt, e.at)]
           q == [u.invoice[e.obj] EXCEPT !.status = "void",
                              !.voidedAt = Coalesce(e.p.voidedAt, e.at)]
<1>1. HandleInvoice(t, e) = UpdateInvoice(t, e, r)
  BY DEF HandleInvoice
<1>2. HandleInvoice(u, e) = UpdateInvoice(u, e, q)
  BY DEF HandleInvoice
<1>3. CASE t.invoice[e.obj] = NoRow
  BY <1>1, <1>2, <1>3 DEF UpdateInvoice, InvoiceUpdated, SameBut
<1>4. CASE t.invoice[e.obj] # NoRow
  <2>1. r # NoRow /\ DOMAIN r = DOMAIN t.invoice[e.obj]
    BY DEF NoRowIsNoRecord
  <2>2. e.obj \in Invoices => "status" \in DOMAIN r /\ r.status = "void"
    BY <1>4 DEF IsTables
  <2>3. [r EXCEPT !.status = "void",
                              !.voidedAt = Coalesce(e.p.voidedAt, e.at)] = r
    OBVIOUS
  <2> HIDE DEF r
  <2>4. u = PutInvoice(t, e.obj, r)
    BY <1>1, <1>4 DEF UpdateInvoice, PutInvoice
  <2>5. /\ IsTables(u) /\ SameBut(t, u, {"invoice"})
        /\ e.obj \in Invoices => u.invoice[e.obj] = r
        /\ \A i \in Invoices : i # e.obj => u.invoice[i] = t.invoice[i]
        /\ PutInvoice(u, e.obj, r) = u
        /\ e.obj \notin Invoices => \A w : PutInvoice(u, e.obj, w) = u
    BY <2>1, <2>2, <2>4, InvoiceWritten
  <2>6. InvoiceUpdated(t, u, "void")
    BY <2>1, <2>2, <2>5 DEF InvoiceUpdated, IsPaid
  <2>7. e.obj \in Invoices => q = r
    BY <2>3, <2>5
  <2> HIDE DEF q
  <2>8. UpdateInvoice(u, e, q) = u
    BY <2>5, <2>7 DEF UpdateInvoice, PutInvoice
  <2> QED
    BY <1>2, <2>6, <2>8
<1> QED
  BY <1>3, <1>4

\* invoice.uncollectible: once is enough.
LEMMA InvoiceUncollectibleHandled ==
  ASSUME NoRowIsNoRecord, NEW t, IsTables(t), NEW e, e.type = "invoice.uncollectible",
         NEW u, u = HandleInvoice(t, e)
  PROVE  InvoiceUpdated(t, u, "uncollectible") /\ HandleInvoice(u, e) = u
<1> DEFINE r == [t.invoice[e.obj] EXCEPT !.status = "uncollectible"]
           q == [u.invoice[e.obj] EXCEPT !.status = "uncollectible"]
<1>1. HandleInvoice(t, e) = UpdateInvoice(t, e, r)
  BY DEF HandleInvoice
<1>2. HandleInvoice(u, e) = UpdateInvoice(u, e, q)
  BY DEF HandleInvoice
<1>3. CASE t.invoice[e.obj] = NoRow
  BY <1>1, <1>2, <1>3 DEF UpdateInvoice, InvoiceUpdated, SameBut
<1>4. CASE t.invoice[e.obj] # NoRow
  <2>1. r # NoRow /\ DOMAIN r = DOMAIN t.invoice[e.obj]
    BY DEF NoRowIsNoRecord
  <2>2. e.obj \in Invoices => "status" \in DOMAIN r /\ r.status = "uncollectible"
    BY <1>4 DEF IsTables
  <2>3. [r EXCEPT !.status = "uncollectible"] = r
    OBVIOUS
  <2> HIDE DEF r
  <2>4. u = PutInvoice(t, e.obj, r)
    BY <1>1, <1>4 DEF UpdateInvoice, PutInvoice
  <2>5. /\ IsTables(u) /\ SameBut(t, u, {"invoice"})
        /\ e.obj \in Invoices => u.invoice[e.obj] = r
        /\ \A i \in Invoices : i # e.obj => u.invoice[i] = t.invoice[i]
        /\ PutInvoice(u, e.obj, r) = u
        /\ e.obj \notin Invoices => \A w : PutInvoice(u, e.obj, w) = u
    BY <2>1, <2>2, <2>4, InvoiceWritten
  <2>6. InvoiceUpdated(t, u, "uncollectible")
    BY <2>1, <2>2, <2>5 DEF InvoiceUpdated, IsPaid
  <2>7. e.obj \in Invoices => q = r
    BY <2>3, <2>5
  <2> HIDE DEF q
  <2>8. UpdateInvoice(u, e, q) = u
    BY <2>5, <2>7 DEF UpdateInvoice, PutInvoice
  <2> QED
    BY <1>2, <2>6, <2>8
<1> QED
  BY <1>3, <1>4

\* A creation writes the row and the lines anew.
PutLines(t, x, lines) == [t EXCEPT !.line[x] = lines]

\* An invoice's lines, written once or twice.
LEMMA LinesWritten ==
  ASSUME NEW t, IsTables(t), NEW x, NEW lines
  PROVE  /\ IsTables(PutLines(t, x, lines)) /\ SameBut(t, PutLines(t, x, lines), {"line"})
         /\ x \in Invoices => PutLines(t, x, lines).line[x] = lines
         /\ \A i \in Invoices : i # x => PutLines(t, x, lines).line[i] = t.line[i]
         /\ PutLines(PutLines(t, x, lines), x, lines) = PutLines(t, x, lines)
BY DEF PutLines, IsTables, SameBut, TableNames

\* invoice.created: once is enough; the row is there, in its status and with
\* lines.
LEMMA InvoiceCreatedHandled ==
  ASSUME NoRowIsNoRecord, NEW t, IsTables(t), NEW e, e.type = "invoice.created",
         NEW u, u = HandleInvoice(t, e)
  PROVE  /\ IsTables(u) /\ SameBut(t, u, {"invoice", "line"})
         /\ HandleInvoice(u, e) = u
         /\ e.obj \in Invoices =>
              /\ u.invoice[e.obj] # NoRow
              /\ u.invoice[e.obj].status = e.p.status
              /\ e.p.lines # {} => u.line[e.obj] # {}
         /\ \A i \in Invoices : i # e.obj => /\ u.invoice[i] = t.invoice[i]
                                            /\ u.line[i] = t.line[i]
<1> DEFINE New(v) == [customer |-> Lookup(v.customer, e.p.customer),
                      sub |-> Lookup(v.sub, e.p.sub), status |-> e.p.status,
                      total |-> e.p.total, paidAt |-> Null, voidedAt |-> Null]
           Row(v, old) == IF old = NoRow THEN New(v)
                          ELSE [old EXCEPT !.status = e.p.status, !.total = e.p.total]
           r == Row(t, t.invoice[e.obj])
           lines == Lines(t, e)
           w == PutInvoice(t, e.obj, r)
<1>1. ASSUME NEW v
      PROVE  HandleInvoice(v, e) =
               PutLines(PutInvoice(v, e.obj, Row(v, v.invoice[e.obj])), e.obj, Lines(v, e))
  BY DEF HandleInvoice, InvoiceCreated, PutLines, PutInvoice
<1>2. r # NoRow
  BY DEF NoRowIsNoRecord
<1>3. e.obj \in Invoices => "status" \in DOMAIN r /\ r.status = e.p.status
  BY DEF IsTables
<1>4. [r EXCEPT !.status = e.p.status, !.total = e.p.total] = r
  <2>1. CASE t.invoice[e.obj] = NoRow
    <3>1. /\ r.status = e.p.status /\ r.total = e.p.total
          /\ r = [x \in DOMAIN r |-> r[x]]
      BY <2>1
    <3> HIDE DEF r
    <3> QED
      BY <3>1
  <2>2. CASE t.invoice[e.obj] # NoRow
    BY <2>2
  <2> QED
    BY <2>1, <2>2
<1>5. Row(u, r) = r
  BY <1>2, <1>4
<1>6. u = PutLines(w, e.obj, lines)
  BY <1>1
<1> HIDE DEF r, lines
<1>7. /\ IsTables(w) /\ SameBut(t, w, {"invoice"})
      /\ e.obj \in Invoices => w.invoice[e.obj] = r
      /\ \A i \in Invoices : i # e.obj => w.invoice[i] = t.invoice[i]
      /\ PutInvoice(w, e.obj, r) = w
      /\ e.obj \notin Invoices => \A q : PutInvoice(w, e.obj, q) = w
  BY <1>2, <1>3, InvoiceWritten
<1> HIDE DEF w
<1>8. /\ IsTables(u) /\ SameBut(w, u, {"line"})
      /\ e.obj \in Invoices => u.line[e.obj] = lines
      /\ \A i \in Invoices : i # e.obj => u.line[i] = w.line[i]
      /\ PutLines(u, e.obj, lines) = u
  BY <1>6, <1>7, LinesWritten
<1>9. u.invoice = w.invoice /\ w.line = t.line
  BY <1>7, <1>8 DEF SameBut, TableNames
<1>10. SameBut(t, u, {"invoice", "line"})
  BY <1>7, <1>8 DEF SameBut
<1>11. Lines(u, e) = lines
  BY <1>10 DEF SameBut, TableNames, LineKind, Lines, lines
<1>12. HandleInvoice(u, e) = u
  <2> DEFINE q == Row(u, u.invoice[e.obj])
  <2>1. e.obj \in Invoices => q = r
    BY <1>5, <1>7, <1>9
  <2>2. HandleInvoice(u, e) = PutLines(PutInvoice(u, e.obj, q), e.obj, lines)
    BY <1>1, <1>11
  <2> HIDE DEF q
  <2>3. PutInvoice(u, e.obj, q) = u
    BY <1>7, <1>8, <1>9, <2>1 DEF PutInvoice, IsTables, TableNames
  <2> QED
    BY <1>8, <2>2, <2>3
<1>13. e.p.lines # {} => lines # {}
  BY DEF Lines, lines
<1> QED
  BY <1>2, <1>3, <1>7, <1>8, <1>9, <1>10, <1>12, <1>13

-----------------------------------------------------------------------------
(* What the handlers of payments, coupons and credit notes make of them *)

PutPayment(t, x, r) == [t EXCEPT !.payment[x] = r]

\* A row of a payment, written once or twice.
LEMMA PaymentWritten ==
  ASSUME NEW t, IsTables(t), NEW x, NEW r, r # NoRow
  PROVE  /\ IsTables(PutPayment(t, x, r)) /\ SameBut(t, PutPayment(t, x, r), {"payment"})
         /\ x \in Payments => PutPayment(t, x, r).payment[x] = r
         /\ \A y \in Payments :
              t.payment[y] # NoRow => PutPayment(t, x, r).payment[y] # NoRow
         /\ PutPayment(PutPayment(t, x, r), x, r) = PutPayment(t, x, r)
         /\ x \notin Payments =>
              \A q : PutPayment(PutPayment(t, x, r), x, q) = PutPayment(t, x, r)
BY DEF PutPayment, IsTables, SameBut, TableNames

\* What a payment handler leaves as it is.
PaymentsKept(t, u) ==
  /\ IsTables(u) /\ SameBut(t, u, {"payment"})
  /\ \A x \in Payments : t.payment[x] # NoRow => u.payment[x] # NoRow

\* payment.succeeded, payment.failed: once is enough, and the row is there.
LEMMA PaymentInserted ==
  ASSUME NoRowIsNoRecord, NEW t, IsTables(t), NEW e, NEW status,
         \/ e.type = "payment.succeeded" /\ status = "succeeded"
         \/ e.type = "payment.failed" /\ status = "failed",
         NEW u, u = HandlePayment(t, e)
  PROVE  /\ PaymentsKept(t, u) /\ HandlePayment(u, e) = u
         /\ e.obj \in Payments => u.payment[e.obj] # NoRow
<1> DEFINE Row(v, old) == IF old = NoRow THEN PaymentRow(v, e, status)
                          ELSE [old EXCEPT !.status = status]
           r == Row(t, t.payment[e.obj])
<1>1. ASSUME NEW v
      PROVE  HandlePayment(v, e) = PutPayment(v, e.obj, Row(v, v.payment[e.obj]))
  BY DEF HandlePayment, PutPayment
<1>2. r # NoRow
  BY DEF NoRowIsNoRecord, PaymentRow
<1>3. [r EXCEPT !.status = status] = r
  BY DEF PaymentRow
<1>4. Row(u, r) = r
  BY <1>2, <1>3
<1>5. u = PutPayment(t, e.obj, r)
  BY <1>1
<1> HIDE DEF r
<1>6. /\ PaymentsKept(t, u)
      /\ e.obj \in Payments => u.payment[e.obj] = r
      /\ PutPayment(u, e.obj, r) = u
      /\ e.obj \notin Payments => \A q : PutPayment(u, e.obj, q) = u
  BY <1>2, <1>5, PaymentWritten DEF PaymentsKept
<1>7. e.obj \in Payments => Row(u, u.payment[e.obj]) = r
  BY <1>4, <1>6
<1> HIDE DEF Row
<1> QED
  BY <1>1, <1>2, <1>6, <1>7

\* payment.refunded: once is enough.
LEMMA PaymentRefunded ==
  ASSUME NoRowIsNoRecord, NEW t, IsTables(t), NEW e, e.type = "payment.refunded",
         NEW u, u = HandlePayment(t, e)
  PROVE  PaymentsKept(t, u) /\ HandlePayment(u, e) = u
<1> DEFINE Row(old) == [old EXCEPT !.status = "refunded",
                                   !.refundedAt = Coalesce(e.p.refundedAt, e.at)]
           r == Row(t.payment[e.obj])
<1>1. ASSUME NEW v, IsTables(v), Lookup(v.payment, e.obj) # Null
      PROVE  HandlePayment(v, e) = PutPayment(v, e.obj, Row(v.payment[e.obj]))
  BY <1>1 DEF HandlePayment, PutPayment, IsTables, TableNames, Lookup
<1>2. CASE Lookup(t.payment, e.obj) = Null
  BY <1>2 DEF HandlePayment, PaymentsKept, SameBut
<1>3. CASE Lookup(t.payment, e.obj) # Null
  <2>1. e.obj \in Payments /\ t.payment[e.obj] # NoRow
    BY <1>3 DEF Lookup, IsTables
  <2>2. r # NoRow /\ Row(r) = r
    BY DEF NoRowIsNoRecord
  <2>3. u = PutPayment(t, e.obj, r)
    BY <1>1, <1>3
  <2> HIDE DEF r
  <2>4. PaymentsKept(t, u) /\ u.payment[e.obj] = r /\ PutPayment(u, e.obj, r) = u
    BY <2>1, <2>2, <2>3, PaymentWritten DEF PaymentsKept
  <2>5. Lookup(u.payment, e.obj) # Null
    BY <1>3, <2>1, <2>2, <2>4 DEF Lookup, PaymentsKept, IsTables
  <2>6. Row(u.payment[e.obj]) = r
    BY <2>2, <2>4
  <2> HIDE DEF Row
  <2> QED
    BY <1>1, <2>4, <2>5, <2>6 DEF PaymentsKept
<1> QED
  BY <1>2, <1>3

\* The payment's handler, whatever the event.
LEMMA PaymentHandled ==
  ASSUME NoRowIsNoRecord, NEW t, IsTables(t), NEW e, e.type \in PaymentTypes,
         NEW u, u = HandlePayment(t, e)
  PROVE  /\ PaymentsKept(t, u) /\ HandlePayment(u, e) = u
         /\ e.type # "payment.refunded" /\ e.obj \in Payments => u.payment[e.obj] # NoRow
BY PaymentInserted, PaymentRefunded DEF PaymentTypes

\* A coupon handler writes the coupon table alone, and once; no coupon is
\* removed.
LEMMA CouponHandled ==
  ASSUME NoRowIsNoRecord, NEW t, IsTables(t), NEW e, e.type \in CouponTypes,
         NEW u, u = HandleCoupon(t, e)
  PROVE  /\ IsTables(u) /\ SameBut(t, u, {"coupon"}) /\ HandleCoupon(u, e) = u
         /\ \A x \in Coupons : t.coupon[x] # NoRow => u.coupon[x] # NoRow
         /\ e.type # "coupon.deleted" /\ e.obj \in Coupons => u.coupon[e.obj] # NoRow
<1>1. CASE e.type \in {"coupon.created", "coupon.updated"}
  <2> DEFINE Row(old) ==
               [off |-> IF old = NoRow THEN e.p.off ELSE Coalesce(e.p.off, old.off),
                base |-> IF e.p.off = Null THEN 0 ELSE ToBase(e.p.off, e.p.cur),
                valid |-> e.p.valid]
             r == Row(t.coupon[e.obj])
             q == Row(u.coupon[e.obj])
  <2>1. ASSUME NEW v
        PROVE  HandleCoupon(v, e) = [v EXCEPT !.coupon[e.obj] = Row(v.coupon[e.obj])]
    BY <1>1 DEF HandleCoupon
  <2>2. r # NoRow /\ Row(r) = r
    BY DEF NoRowIsNoRecord, Coalesce
  <2>3. u = [t EXCEPT !.coupon[e.obj] = r] /\ HandleCoupon(u, e) = [u EXCEPT !.coupon[e.obj] = q]
    BY <2>1
  <2> HIDE DEF r
  <2>4. IsTables(u) /\ SameBut(t, u, {"coupon"})
    BY <2>3 DEF IsTables, SameBut, TableNames
  <2>5. e.obj \in Coupons => u.coupon[e.obj] = r
    BY <2>3 DEF IsTables, TableNames
  <2>6. e.obj \in Coupons => q = r
    BY <2>2, <2>5
  <2> HIDE DEF Row, q
  <2>7. [u EXCEPT !.coupon[e.obj] = r] = u
    BY <2>3
  <2>8. e.obj \notin Coupons => [u EXCEPT !.coupon[e.obj] = q] = u
    <3> SUFFICES ASSUME e.obj \notin Coupons PROVE [u EXCEPT !.coupon[e.obj] = q] = u
      OBVIOUS
    <3>1. u.coupon = [t.coupon EXCEPT ![e.obj] = r] /\ DOMAIN u.coupon = Coupons
      BY <2>3 DEF IsTables, TableNames
    <3>2. [u.coupon EXCEPT ![e.obj] = q] = u.coupon
      BY <3>1
    <3>3. [u EXCEPT !.coupon = u.coupon] = u
      BY <2>3
    <3> QED
      BY <3>2, <3>3
  <2>9. \A x \in Coupons : t.coupon[x] # NoRow => u.coupon[x] # NoRow
    BY <2>2, <2>3 DEF IsTables, TableNames
  <2> QED
    BY <2>2, <2>3, <2>4, <2>5, <2>6, <2>7, <2>8, <2>9
<1>2. CASE e.type = "coupon.deleted"
  <2>1. IsTables(u) /\ SameBut(t, u, {"coupon"})
    BY <1>2 DEF HandleCoupon, IsTables, SameBut, TableNames
  <2>2. HandleCoupon(HandleCoupon(t, e), e) = HandleCoupon(t, e)
    BY <1>2 DEF NoRowIsNoRecord, HandleCoupon
  <2>3. \A x \in Coupons : t.coupon[x] # NoRow => u.coupon[x] # NoRow
    BY <1>2 DEF NoRowIsNoRecord, HandleCoupon, IsTables, TableNames
  <2> QED
    BY <1>2, <2>1, <2>2, <2>3
<1> QED
  BY <1>1, <1>2 DEF CouponTypes

\* A note handler writes the note table alone, and once; no note is removed.
LEMMA NoteHandled ==
  ASSUME NoRowIsNoRecord, NEW t, IsTables(t), NEW e, e.type \in NoteTypes,
         NEW u, u = HandleCreditNote(t, e)
  PROVE  /\ IsTables(u) /\ SameBut(t, u, {"note"}) /\ HandleCreditNote(u, e) = u
         /\ \A x \in Notes : t.note[x] # NoRow => u.note[x] # NoRow
         /\ e.type = "credit_note.created" /\ e.obj \in Notes => u.note[e.obj] # NoRow
<1>1. CASE e.type = "credit_note.created"
  <2> DEFINE New(v) == [invoice |-> Lookup(v.invoice, e.p.invoice),
                        customer |-> Lookup(v.customer, e.p.customer),
                        status |-> e.p.status, total |-> e.p.total,
                        base |-> ToBase(e.p.total, e.p.cur), voidedAt |-> Null]
             Row(v, old) == IF old = NoRow THEN New(v)
                            ELSE [old EXCEPT !.status = e.p.status, !.total = e.p.total,
                                             !.base = ToBase(e.p.total, e.p.cur)]
             r == Row(t, t.note[e.obj])
             q == Row(u, u.note[e.obj])
  <2>1. ASSUME NEW v
        PROVE  HandleCreditNote(v, e) = [v EXCEPT !.note[e.obj] = Row(v, v.note[e.obj])]
    BY <1>1 DEF HandleCreditNote
  <2>2. r # NoRow
    BY DEF NoRowIsNoRecord
  <2>3. [r EXCEPT !.status = e.p.status, !.total = e.p.total,
                  !.base = ToBase(e.p.total, e.p.cur)] = r
    <3>1. CASE t.note[e.obj] = NoRow
      <4>1. /\ r.status = e.p.status /\ r.total = e.p.total
            /\ r.base = ToBase(e.p.total, e.p.cur)
            /\ r = [x \in DOMAIN r |-> r[x]]
        BY <3>1
      <4> HIDE DEF r
      <4> QED
        BY <4>1
    <3>2. CASE t.note[e.obj] # NoRow
      BY <3>2
    <3> QED
      BY <3>1, <3>2
  <2>4. Row(u, r) = r
    BY <2>2, <2>3
  <2>5. u = [t EXCEPT !.note[e.obj] = r]
        /\ HandleCreditNote(u, e) = [u EXCEPT !.note[e.obj] = q]
    BY <2>1
  <2> HIDE DEF r
  <2>6. IsTables(u) /\ SameBut(t, u, {"note"})
    BY <2>5 DEF IsTables, SameBut, TableNames
  <2>7. e.obj \in Notes => u.note[e.obj] = r
    BY <2>5 DEF IsTables, TableNames
  <2>8. e.obj \in Notes => q = r
    BY <2>4, <2>7
  <2> HIDE DEF Row, q
  <2>9. [u EXCEPT !.note[e.obj] = r] = u
    BY <2>5
  <2>10. e.obj \notin Notes => [u EXCEPT !.note[e.obj] = q] = u
    <3> SUFFICES ASSUME e.obj \notin Notes PROVE [u EXCEPT !.note[e.obj] = q] = u
      OBVIOUS
    <3>1. u.note = [t.note EXCEPT ![e.obj] = r] /\ DOMAIN u.note = Notes
      BY <2>5 DEF IsTables, TableNames
    <3>2. [u.note EXCEPT ![e.obj] = q] = u.note
      BY <3>1
    <3>3. [u EXCEPT !.note = u.note] = u
      BY <2>5
    <3> QED
      BY <3>2, <3>3
  <2>11. \A x \in Notes : t.note[x] # NoRow => u.note[x] # NoRow
    BY <2>2, <2>5 DEF IsTables, TableNames
  <2> QED
    BY <2>2, <2>5, <2>6, <2>7, <2>8, <2>9, <2>10, <2>11
<1>2. CASE e.type = "credit_note.voided"
  <2> DEFINE Row(old) == IF old = NoRow THEN NoRow
                         ELSE [old EXCEPT !.status = "void",
                                          !.voidedAt = Coalesce(e.p.voidedAt, e.at)]
             r == Row(t.note[e.obj])
             q == Row(u.note[e.obj])
  <2>1. ASSUME NEW v
        PROVE  HandleCreditNote(v, e) = [v EXCEPT !.note[e.obj] = Row(v.note[e.obj])]
    BY <1>2 DEF HandleCreditNote
  <2>2. t.note[e.obj] # NoRow => r # NoRow
    BY DEF NoRowIsNoRecord
  <2>3. Row(r) = r
    BY DEF NoRowIsNoRecord
  <2>4. u = [t EXCEPT !.note[e.obj] = r]
        /\ HandleCreditNote(u, e) = [u EXCEPT !.note[e.obj] = q]
    BY <2>1
  <2> HIDE DEF r
  <2>5. IsTables(u) /\ SameBut(t, u, {"note"})
    BY <2>4 DEF IsTables, SameBut, TableNames
  <2>6. e.obj \in Notes => u.note[e.obj] = r
    BY <2>4 DEF IsTables, TableNames
  <2>7. e.obj \in Notes => q = r
    BY <2>3, <2>6
  <2> HIDE DEF Row, q
  <2>8. [u EXCEPT !.note[e.obj] = r] = u
    BY <2>4
  <2>9. e.obj \notin Notes => [u EXCEPT !.note[e.obj] = q] = u
    <3> SUFFICES ASSUME e.obj \notin Notes PROVE [u EXCEPT !.note[e.obj] = q] = u
      OBVIOUS
    <3>1. u.note = [t.note EXCEPT ![e.obj] = r] /\ DOMAIN u.note = Notes
      BY <2>4 DEF IsTables, TableNames
    <3>2. [u.note EXCEPT ![e.obj] = q] = u.note
      BY <3>1
    <3>3. [u EXCEPT !.note = u.note] = u
      BY <2>4
    <3> QED
      BY <3>2, <3>3
  <2>10. \A x \in Notes : t.note[x] # NoRow => u.note[x] # NoRow
    BY <2>2, <2>4 DEF IsTables, TableNames
  <2> QED
    BY <1>2, <2>4, <2>5, <2>7, <2>8, <2>9, <2>10
<1> QED
  BY <1>1, <1>2 DEF NoteTypes

-----------------------------------------------------------------------------
(* What the state consumer makes of the tables *)

\* Each type has its handler.
LEMMA Dispatched ==
  ASSUME NEW t, NEW e
  PROVE  /\ e.type \in ProductTypes => Dispatch(t, e) = HandleProduct(t, e)
         /\ e.type \in PlanTypes => Dispatch(t, e) = HandlePlan(t, e)
         /\ e.type \in CustomerTypes => Dispatch(t, e) = HandleCustomer(t, e)
         /\ e.type \in SubTypes => Dispatch(t, e) = HandleSubscription(t, e)
         /\ e.type \in InvoiceTypes => Dispatch(t, e) = HandleInvoice(t, e)
         /\ e.type \in PaymentTypes => Dispatch(t, e) = HandlePayment(t, e)
         /\ e.type \in CouponTypes => Dispatch(t, e) = HandleCoupon(t, e)
         /\ e.type \in NoteTypes => Dispatch(t, e) = HandleCreditNote(t, e)
BY DEF Dispatch, ProductTypes, PlanTypes, CustomerTypes, SubTypes, InvoiceTypes,
       PaymentTypes, CouponTypes, NoteTypes

\* No event but a customer's deletion takes a row away.
Stays(t, u, e) ==
  /\ e.type # "customer.deleted" =>
       \A x \in Customers : t.customer[x] # NoRow => u.customer[x] # NoRow
  /\ \A x \in Subs : t.sub[x] # NoRow => u.sub[x] # NoRow
  /\ \A i \in Invoices : t.invoice[i] # NoRow /\ t.line[i] # {} =>
                         u.invoice[i] # NoRow /\ u.line[i] # {}
  /\ \A x \in Payments : t.payment[x] # NoRow => u.payment[x] # NoRow
  /\ \A x \in Notes : t.note[x] # NoRow => u.note[x] # NoRow
  /\ \A x \in Coupons : t.coupon[x] # NoRow => u.coupon[x] # NoRow
  /\ \A x \in Plans : t.plan[x] # NoRow => u.plan[x] # NoRow

\* A creation makes one.
Made(u, e) ==
  /\ e.type = "customer.created" /\ e.obj = c1 => u.customer[c1] # NoRow
  /\ e.type = "subscription.created" => u.sub[s1] # NoRow
  /\ e.type = "invoice.created" /\ e.obj = i1 => u.invoice[i1] # NoRow /\ u.line[i1] # {}
  /\ e.type \in {"payment.succeeded", "payment.failed"} /\ e.obj = t1 =>
       u.payment[t1] # NoRow
  /\ e.type = "credit_note.created" /\ e.obj = n1 => u.note[n1] # NoRow
  /\ e.type = "coupon.created" /\ e.obj = k1 => u.coupon[k1] # NoRow
  /\ \A x \in Plans : e.type = "plan.created" /\ e.obj = x => u.plan[x] # NoRow

\* An invoice gets paid only when the provider's is.
PaysRightly(t, u, o) == \A i \in Invoices : IsPaid(u, i) => IsPaid(t, i) \/ PaidNow(o)

\* All that is to be known of the tables u that event e makes of t.
Handled(t, u, e, o) ==
  IsTables(u) /\ Stays(t, u, e) /\ Made(u, e) /\ PaysRightly(t, u, o)

\* What the dispatcher makes of the tables, handler by handler.
LEMMA ProductDone ==
  ASSUME NoRowIsNoRecord, NEW t, IsTables(t), NEW e, NEW o,
         e.type \in ProductTypes, NEW u, u = Dispatch(t, e)
  PROVE  Handled(t, u, e, o) /\ u.log = t.log /\ Dispatch(u, e) = u
BY Dispatched, ProductHandled
   DEF SameBut, Stays, PaysRightly, IsPaid, TableNames, Made, ProductTypes, Handled

LEMMA PlanDone ==
  ASSUME NoRowIsNoRecord, NEW t, IsTables(t), NEW e, NEW o, Sound(e, o),
         e.type \in PlanTypes, NEW u, u = Dispatch(t, e)
  PROVE  Handled(t, u, e, o) /\ u.log = t.log /\ Dispatch(u, e) = u
BY Dispatched, PlanHandled
   DEF SameBut, Stays, PaysRightly, IsPaid, TableNames, Sound, Made, PlanTypes, Handled

LEMMA CustomerDone ==
  ASSUME NoRowIsNoRecord, NEW t, IsTables(t), NEW e, NEW o, Sound(e, o),
         e.type \in CustomerTypes, NEW u, u = Dispatch(t, e)
  PROVE  Handled(t, u, e, o) /\ u.log = t.log /\ Dispatch(u, e) = u
BY Dispatched, CustomerHandled, TheObjects
   DEF SameBut, Stays, PaysRightly, IsPaid, TableNames, Made, CustomerTypes, Handled

\* A sound event of a subscription is of the subscription.
LEMMA SoundSub ==
  ASSUME NEW e, NEW o, Sound(e, o), e.type \in SubTypes
  PROVE  e.obj = s1
BY DEF Sound

LEMMA SubDone ==
  ASSUME NoRowIsNoRecord, NEW t, IsTables(t), NEW e, NEW o, Sound(e, o),
         e.type \in SubTypes, NEW u, u = Dispatch(t, e)
  PROVE  Handled(t, u, e, o) /\ u.log = t.log /\ Dispatch(u, e) = u
BY Dispatched, SubscriptionHandled, SoundSub, TheObjects
   DEF SubHandled, SameBut, Stays, PaysRightly, IsPaid, TableNames, Made, SubTypes,
       Handled

LEMMA PaymentDone ==
  ASSUME NoRowIsNoRecord, NEW t, IsTables(t), NEW e, NEW o, Sound(e, o),
         e.type \in PaymentTypes, NEW u, u = Dispatch(t, e)
  PROVE  Handled(t, u, e, o) /\ u.log = t.log /\ Dispatch(u, e) = u
BY Dispatched, PaymentHandled, TheObjects
   DEF PaymentsKept, SameBut, Stays, PaysRightly, IsPaid, TableNames, Made,
       PaymentTypes, Handled

LEMMA CouponDone ==
  ASSUME NoRowIsNoRecord, NEW t, IsTables(t), NEW e, NEW o, Sound(e, o),
         e.type \in CouponTypes, NEW u, u = Dispatch(t, e)
  PROVE  Handled(t, u, e, o) /\ u.log = t.log /\ Dispatch(u, e) = u
BY Dispatched, CouponHandled, TheObjects
   DEF SameBut, Stays, PaysRightly, IsPaid, TableNames, Made, CouponTypes, Handled

LEMMA NoteDone ==
  ASSUME NoRowIsNoRecord, NEW t, IsTables(t), NEW e, NEW o, Sound(e, o),
         e.type \in NoteTypes, NEW u, u = Dispatch(t, e)
  PROVE  Handled(t, u, e, o) /\ u.log = t.log /\ Dispatch(u, e) = u
BY Dispatched, NoteHandled, TheObjects
   DEF SameBut, Stays, PaysRightly, IsPaid, TableNames, Made, NoteTypes, Handled

LEMMA InvoiceDone ==
  ASSUME NoRowIsNoRecord, NEW t, IsTables(t), NEW e, NEW o, Sound(e, o),
         e.type \in InvoiceTypes, NEW u, u = Dispatch(t, e)
  PROVE  Handled(t, u, e, o) /\ u.log = t.log /\ Dispatch(u, e) = u
<1>1. u = HandleInvoice(t, e) /\ Dispatch(u, e) = HandleInvoice(u, e)
  BY Dispatched
<1>2. /\ e.type = "invoice.paid" => PaidNow(o)
      /\ e.type = "invoice.created" => (e.p.status = "paid" => PaidNow(o)) /\ e.p.lines # {}
  BY DEF Sound
<1>3. CASE e.type = "invoice.created"
  BY <1>1, <1>2, <1>3, InvoiceCreatedHandled, TheObjects
     DEF SameBut, Stays, TableNames, PaysRightly, IsPaid, Made, Handled
<1>4. CASE e.type # "invoice.created"
  <2>1. /\ HandleInvoice(u, e) = u
        /\ \/ InvoiceUpdated(t, u, "paid") /\ PaidNow(o)
           \/ InvoiceUpdated(t, u, "void")
           \/ InvoiceUpdated(t, u, "uncollectible")
    BY <1>1, <1>2, <1>4, InvoicePaidHandled, InvoiceVoidedHandled,
       InvoiceUncollectibleHandled DEF InvoiceTypes
  <2>2. /\ IsTables(u) /\ SameBut(t, u, {"invoice"})
        /\ \A i \in Invoices : t.invoice[i] # NoRow => u.invoice[i] # NoRow
    BY <2>1 DEF InvoiceUpdated
  <2>3. PaysRightly(t, u, o)
    BY <2>1 DEF InvoiceUpdated, PaysRightly
  <2>4. \A n \in TableNames \ {"invoice"} : u[n] = t[n]
    BY <2>2 DEF SameBut
  <2>5. Stays(t, u, e)
    BY <2>2, <2>4 DEF Stays, TableNames
  <2>6. Made(u, e)
    BY <1>4 DEF Made, InvoiceTypes
  <2> QED
    BY <1>1, <2>1, <2>2, <2>3, <2>4, <2>5, <2>6 DEF Handled, TableNames
<1> QED
  BY <1>3, <1>4

\* The log takes an event once, and nothing but the log is touched by it.
LEMMA Logged ==
  ASSUME NEW t, IsTables(t), NEW e
  PROVE  /\ IsTables(LogEvent(t, e)) /\ SameBut(t, LogEvent(t, e), {"log"})
         /\ EventId(e) \in LogEvent(t, e).log
BY DEF LogEvent, IsTables, SameBut, TableNames

\* An event that is in the log is not logged again.
LEMMA LoggedAlready ==
  ASSUME NEW t, IsTables(t), NEW e, EventId(e) \in t.log
  PROVE  LogEvent(t, e) = t
BY DEF LogEvent, IsTables, TableNames

\* The state consumer's transaction does once what it does again and again.
LEMMA StateHandled ==
  ASSUME NoRowIsNoRecord, NEW t, IsTables(t), NEW e, NEW o, Sound(e, o),
         NEW u, u = HandleState(t, e)
  PROVE  Handled(t, u, e, o) /\ HandleState(u, e) = u
<1> DEFINE v == LogEvent(t, e)
<1>1. IsTables(v) /\ SameBut(t, v, {"log"}) /\ EventId(e) \in v.log
  BY Logged
<1>2. u = Dispatch(v, e)
  BY DEF HandleState
<1> HIDE DEF v
<1>3. e.type \in AllTypes
  BY DEF Sound
<1>4. Handled(v, u, e, o) /\ u.log = v.log /\ Dispatch(u, e) = u
  BY <1>1, <1>2, <1>3, ProductDone, PlanDone, CustomerDone, SubDone, InvoiceDone,
     PaymentDone, CouponDone, NoteDone DEF AllTypes
<1>5. LogEvent(u, e) = u
  BY <1>1, <1>4, LoggedAlready DEF Handled
<1>6. Handled(t, u, e, o)
  BY <1>1, <1>4 DEF Handled, Stays, PaysRightly, IsPaid, SameBut, TableNames
<1> QED
  BY <1>4, <1>5, <1>6 DEF HandleState

\* What has been handled does not raise when it comes again, and a new rate
\* makes nothing raise.
LEMMA RaisesNoMore ==
  ASSUME NoRowIsNoRecord, NEW t, IsTables(t), NEW e, NEW o, Sound(e, o), NEW rates,
         ~Raises(t, e, rates), NEW u, u = HandleState(t, e)
  PROVE  ~Raises(u, e, rates)
<1> DEFINE v == LogEvent(t, e)
<1>1. IsTables(v) /\ SameBut(t, v, {"log"})
  BY Logged
<1>2. u = Dispatch(v, e)
  BY DEF HandleState
<1> HIDE DEF v
<1>3. v.sub = t.sub /\ v.customer = t.customer /\ v.invoice = t.invoice
      /\ v.payment = t.payment /\ v.note = t.note
  BY <1>1 DEF SameBut, TableNames
<1>4. CASE e.type = "customer.deleted"
  BY <1>1, <1>2, <1>3, <1>4, Dispatched, CustomerHandled
     DEF CustomerTypes, SameBut, TableNames, Raises, Referenced
<1>5. CASE e.type = "subscription.created"
  BY <1>1, <1>2, <1>3, <1>5, Dispatched, SoundSub, SubscriptionHandled
     DEF SubTypes, Raises
<1>6. CASE e.type = "subscription.changed"
  BY <1>1, <1>2, <1>3, <1>6, Dispatched, SoundSub, SubscriptionHandled
     DEF SubTypes, Raises
<1>7. CASE e.type \notin {"customer.deleted", "subscription.created", "subscription.changed"}
  BY <1>7 DEF Raises
<1> QED
  BY <1>4, <1>5, <1>6, <1>7

\* A new rate makes nothing raise.
LEMMA RatesRaiseNothing ==
  ASSUME NEW t, NEW e, NEW rates, NEW more, ~Raises(t, e, rates)
  PROVE  ~Raises(t, e, rates \union more)
BY DEF Raises, NoRate

\* The trial's row takes an event once.
LEMMA TrialHandled ==
  ASSUME NoRowIsNoRecord, NEW r, NEW kind, NEW at
  PROVE  Trial!HandleTrial(Trial!HandleTrial(r, kind, at), kind, at) =
           Trial!HandleTrial(r, kind, at)
<1> DEFINE new == [started |-> at, converted |-> Null, expired |-> Null]
           old == IF r = NoRow THEN new ELSE r
<1>1. new # NoRow /\ (r # NoRow => old = r) /\ (r = NoRow => old = new)
  BY DEF NoRowIsNoRecord
<1>2. CASE kind = "started"
  <2>1. CASE r = NoRow
    BY <1>1, <1>2, <2>1 DEF Trial!HandleTrial, Trial!StartTrial, Trial!Earlier
  <2>2. CASE r # NoRow
    <3> DEFINE u == [r EXCEPT !.started = Trial!Earlier(@, at)]
    <3>1. Trial!HandleTrial(r, kind, at) = u
      BY <1>2, <2>2 DEF Trial!HandleTrial, Trial!StartTrial
    <3>2. u # NoRow /\ [u EXCEPT !.started = Trial!Earlier(@, at)] = u
      BY DEF NoRowIsNoRecord, Trial!Earlier
    <3> HIDE DEF u
    <3> QED
      BY <1>2, <3>1, <3>2 DEF Trial!HandleTrial, Trial!StartTrial
  <2> QED
    BY <2>1, <2>2
<1>3. CASE kind = "converted"
  <2> DEFINE u == [old EXCEPT !.converted = Trial!First(@, at)]
  <2>1. Trial!HandleTrial(r, kind, at) = u
    BY <1>3 DEF Trial!HandleTrial, Trial!EndTrial
  <2>2. u # NoRow /\ [u EXCEPT !.converted = Trial!First(@, at)] = u
    BY DEF NoRowIsNoRecord, Trial!First
  <2> HIDE DEF u
  <2> QED
    BY <1>3, <2>1, <2>2 DEF Trial!HandleTrial, Trial!EndTrial
<1>4. CASE kind \notin {"started", "converted"}
  <2> DEFINE u == [old EXCEPT !.expired = Trial!First(@, at)]
  <2>1. Trial!HandleTrial(r, kind, at) = u
    BY <1>4 DEF Trial!HandleTrial, Trial!EndTrial
  <2>2. u # NoRow /\ [u EXCEPT !.expired = Trial!First(@, at)] = u
    BY DEF NoRowIsNoRecord, Trial!First
  <2> HIDE DEF u
  <2> QED
    BY <1>4, <2>1, <2>2 DEF Trial!HandleTrial, Trial!EndTrial
<1> QED
  BY <1>2, <1>3, <1>4

\* The trials consumer's transaction is one that can be repeated.
LEMMA HandledTrialTwice ==
  ASSUME NoRowIsNoRecord, NEW e, trial' = HandledTrial(e)
  PROVE  HandledTrial(e)' = trial'
<1> DEFINE r == trial
           u == trial'
<1>1. CASE e.type = "subscription.trial_started"
  BY <1>1, TrialHandled DEF HandledTrial
<1>2. CASE e.type = "subscription.trial_converted"
  BY <1>2, TrialHandled DEF HandledTrial
<1>3. CASE e.type = "subscription.trial_expired"
  BY <1>3, TrialHandled DEF HandledTrial
<1>4. CASE e.type \notin {"subscription.trial_started", "subscription.trial_converted",
                          "subscription.trial_expired"}
  BY <1>4 DEF HandledTrial
<1> QED
  BY <1>1, <1>2, <1>3, <1>4

-----------------------------------------------------------------------------
(* The inductive invariant *)

\* The objects are records that have their own ids; a plan has an interval and
\* an invoice lines.
Objects(o) ==
  /\ {"product", "price", "customer", "coupon", "sub", "invoice", "payment",
      "note"} \subseteq DOMAIN o
  /\ Plans \subseteq DOMAIN o.price
  /\ \A p \in Plans : /\ {"id", "interval"} \subseteq DOMAIN o.price[p]
                      /\ o.price[p].id = p /\ o.price[p].interval # Null
  /\ o.customer # NoRow => "id" \in DOMAIN o.customer /\ o.customer.id = c1
  /\ o.sub # NoRow => "id" \in DOMAIN o.sub /\ o.sub.id = s1
  /\ o.invoice # NoRow => /\ {"id", "status", "lines"} \subseteq DOMAIN o.invoice
                          /\ o.invoice.id = i1 /\ o.invoice.lines # {}
  /\ o.payment # NoRow => "id" \in DOMAIN o.payment /\ o.payment.id = t1
  /\ o.note # NoRow => "id" \in DOMAIN o.note /\ o.note.id = n1

\* Events that have not been handled, and all that have been reported.
EventsOf(webhooks) == UNION {Range(s) : s \in webhooks}
Waiting == Range(queue["catalog"]) \union Range(queue["customer"])
           \union EventsOf(late) \union parked
Known == Waiting \union EventsOf(sent)

Streams ==
  /\ DOMAIN queue = {"catalog", "customer"}
  /\ IsStream(queue["catalog"]) /\ IsStream(queue["customer"])
  /\ \A s \in late \union sent : IsStream(s)

\* Object by object: its row is there, or the event that makes one is waiting.
Kept(o, t, E) ==
  /\ o.customer # NoRow => t.customer[c1] # NoRow \/ Has(E, "customer.created", c1)
  /\ o.sub # NoRow => t.sub[s1] # NoRow \/ Has(E, "subscription.created", s1)
  /\ o.invoice # NoRow => \/ t.invoice[i1] # NoRow /\ t.line[i1] # {}
                          \/ Has(E, "invoice.created", i1)
  /\ o.payment # NoRow => \/ t.payment[t1] # NoRow
                          \/ Has(E, "payment.succeeded", t1)
                          \/ Has(E, "payment.failed", t1)
  /\ o.note # NoRow => t.note[n1] # NoRow \/ Has(E, "credit_note.created", n1)
  /\ scene = "bills" => t.coupon[k1] # NoRow \/ Has(E, "coupon.created", k1)
  /\ \A p \in Plans : \/ t.plan[p] # NoRow
                      \/ Has(E, "plan.created", p)
                      \/ scene = "subs" /\ p = "metered"

BillingInv ==
  /\ Objects(obj)
  /\ Streams
  /\ \A e \in Known : Sound(e, obj)
  /\ IsTables(tables)
  /\ PaidIsReal
  /\ Kept(obj, tables, Waiting)
  /\ RedeliveryChangesNothing

-----------------------------------------------------------------------------
(* The bus *)

\* What is published waits, in one partition or the other.
LEMMA Published ==
  ASSUME Streams, NEW events, IsStream(events), Publish(events)
  PROVE  /\ DOMAIN queue' = {"catalog", "customer"}
         /\ IsStream(queue'["catalog"]) /\ IsStream(queue'["customer"])
         /\ Range(queue'["catalog"]) \union Range(queue'["customer"]) =
              Range(queue["catalog"]) \union Range(queue["customer"]) \union Range(events)
BY KeyedIs, Joined DEF Streams, Publish, Partition

\* A webhook's events are waiting from now on, whether it is late or not.
LEMMA Reported ==
  ASSUME Streams, NEW events, IsStream(events), Send(events), parked' = parked
  PROVE  /\ Streams'
         /\ Waiting' = Waiting \union Range(events)
         /\ Known' = Known \union Range(events)
BY NoEvents, Published DEF EventsOf, Streams, Waiting, Known, Send

\* More events, the same objects and tables.
LEMMA HasMore ==
  ASSUME NEW D, NEW E, D \subseteq E, NEW type, NEW x, Has(D, type, x)
  PROVE  Has(E, type, x)
BY DEF Has

\* What is kept is kept when more events are waiting.
LEMMA KeptByMore ==
  ASSUME NEW o, NEW t, NEW D, NEW E, Kept(o, t, D), D \subseteq E
  PROVE  Kept(o, t, E)
BY HasMore DEF Kept

-----------------------------------------------------------------------------
(* The provider's turns *)

\* What objects o have and a had not, events E report the creation of.
Grown(a, o, E) ==
  /\ o.customer # NoRow => a.customer # NoRow
  /\ o.sub # NoRow => a.sub # NoRow \/ Has(E, "subscription.created", s1)
  /\ o.invoice # NoRow => a.invoice # NoRow \/ Has(E, "invoice.created", i1)
  /\ o.payment # NoRow => a.payment # NoRow \/ Has(E, "payment.succeeded", t1)
                                            \/ Has(E, "payment.failed", t1)
  /\ o.note # NoRow => a.note # NoRow \/ Has(E, "credit_note.created", n1)

\* New objects are kept by the events that report their creation.
LEMMA KeptByGrowth ==
  ASSUME NEW a, NEW o, NEW t, NEW D, NEW E, Kept(a, t, D), Grown(a, o, E)
  PROVE  Kept(o, t, D \union E)
BY KeptByMore, HasMore DEF Kept, Grown

\* A paid invoice stays paid and a deleted customer deleted.
Follows(a, o) ==
  /\ PaidNow(a) => PaidNow(o)
  /\ a.customer = NoRow => o.customer = NoRow

\* What is sound stays sound.
LEMMA SoundLater ==
  ASSUME NEW e, NEW a, NEW o, Sound(e, a), Follows(a, o)
  PROVE  Sound(e, o)
BY DEF Sound, Follows

\* A turn keeps the invariant when its webhook is sound of the new objects.
LEMMA Acted ==
  ASSUME BillingInv, NEW o, NEW events, Act(o, events),
         Objects(o), Follows(obj, o), Grown(obj, o, Range(events)),
         SoundStream(events, o)
  PROVE  BillingInv'
<1>1. /\ obj' = o /\ Send(events) /\ scene' = scene
      /\ tables' = tables /\ parked' = parked /\ fx' = fx /\ last' = last
      /\ trial' = trial
  BY DEF Act, state
<1>2. /\ Streams'
      /\ Waiting' = Waiting \union Range(events)
      /\ Known' = Known \union Range(events)
  BY <1>1, Reported DEF BillingInv, SoundStream
<1>3. Objects(obj)'
  BY <1>1 DEF Objects
<1>4. \A e \in Known' : Sound(e, obj')
  BY <1>1, <1>2, SoundLater DEF BillingInv, SoundStream
<1>5. PaidIsReal'
  BY <1>1 DEF BillingInv, PaidIsReal, Follows, PaidNow
<1>6. Kept(o, tables, Waiting \union Range(events))
  BY KeptByGrowth DEF BillingInv
<1>7. Kept(obj', tables', Waiting')
  BY <1>1, <1>2, <1>6
<1>8. RedeliveryChangesNothing'
  BY <1>1 DEF BillingInv, RedeliveryChangesNothing, HandledTrial
<1>9. IsTables(tables')
  BY <1>1 DEF BillingInv
<1>10. Kept(obj, tables, Waiting)'
  BY <1>1, <1>7 DEF Kept
<1>11. (\A e \in Known : Sound(e, obj))'
  BY <1>4 DEF Sound, PaidNow
<1> QED
  BY <1>2, <1>3, <1>5, <1>8, <1>9, <1>10, <1>11 DEF BillingInv, IsTables

-----------------------------------------------------------------------------
(* Delivery *)

\* More of the events that are known, and of no others, changes nothing.
LEMMA Redelivered ==
  ASSUME BillingInv, UNCHANGED <<scene, obj, state>>, Streams',
         Waiting \subseteq Waiting',
         \A e \in Known' : Sound(e, obj)
  PROVE  BillingInv'
<1>1. /\ tables' = tables /\ parked' = parked /\ fx' = fx /\ last' = last
      /\ trial' = trial /\ obj' = obj /\ scene' = scene
  BY DEF state
<1>2. Kept(obj, tables, Waiting')
  BY KeptByMore DEF BillingInv
<1>3. Kept(obj, tables, Waiting)'
  BY <1>1, <1>2 DEF Kept
<1>4. (\A e \in Known : Sound(e, obj))'
  BY <1>1 DEF Sound, PaidNow
<1>5. Objects(obj)' /\ PaidIsReal' /\ RedeliveryChangesNothing' /\ IsTables(tables)'
  BY <1>1 DEF BillingInv, Objects, PaidIsReal, RedeliveryChangesNothing, HandledTrial,
              IsTables
<1> QED
  BY <1>3, <1>4, <1>5 DEF BillingInv

\* A late webhook was known before it arrived.
LEMMA ArriveStep ==
  ASSUME BillingInv, Arrive
  PROVE  BillingInv'
BY Published, Redelivered
   DEF Arrive, state, BillingInv, Streams, EventsOf, Waiting, Known

\* A webhook that is sent again reports what was known.
LEMMA ResendStep ==
  ASSUME BillingInv, Resend
  PROVE  BillingInv'
BY Published, Redelivered
   DEF Resend, state, BillingInv, Streams, Known, EventsOf, Waiting

\* A replayed event was parked, and stays so until it is handled.
LEMMA ReplayStep ==
  ASSUME BillingInv, Replay
  PROVE  BillingInv'
BY Appended, Redelivered DEF Replay, state, BillingInv, Streams, Waiting, Known

\* A backfill reports the objects as they are.
LEMMA BackfillIsSound ==
  ASSUME BillingInv
  PROVE  SoundStream(BackfillEvents, obj)
<1> DEFINE product == Stripe!Product("product.created", obj.product, Now)
           plan(p) == Stripe!Price("plan.created", obj.price[p], Now)
           customer == IF obj.customer = NoRow THEN <<>>
                       ELSE Stripe!Customer("customer.created", obj.customer)
           sub == IF obj.sub = NoRow THEN <<>> ELSE Stripe!SubBackfill(obj.sub)
           invoice == IF obj.invoice = NoRow THEN <<>>
                      ELSE Stripe!InvoiceBackfill(obj.invoice)
           payment == IF obj.payment = NoRow THEN <<>>
                      ELSE Stripe!PaymentBackfill(obj.payment)
<1>1. SoundStream(product, obj)
  BY StripeSingles, SingleSound DEF Plain, ProductTypes
<1>2. ASSUME NEW p \in Plans PROVE SoundStream(plan(p), obj)
  BY <1>2, PricesSound DEF BillingInv, Objects, PlanTypes
<1>3. SoundStream(customer, obj)
  BY StripeSingles, SingleSound, SoundNothing DEF Plain
<1>4. SoundStream(sub, obj)
  BY StripeSubBackfillSays, SubSoundStream, SoundNothing DEF BillingInv, Objects
<1>5. SoundStream(invoice, obj)
  BY StripeInvoiceSound, SoundNothing DEF BillingInv, Objects
<1>6. SoundStream(payment, obj)
  BY StripeSingles, SingleSound, SoundNothing
     DEF Plain, PaymentTypes, Stripe!PaymentBackfill, Stripe!If
<1>7. BackfillEvents = product \o plan("monthly") \o plan("yearly") \o plan("metered")
                       \o customer \o sub \o invoice \o payment
  BY DEF BackfillEvents
<1>8. SoundStream(plan("monthly"), obj) /\ SoundStream(plan("yearly"), obj)
      /\ SoundStream(plan("metered"), obj)
  BY <1>2, BillingAssumption
<1> HIDE DEF product, plan, customer, sub, invoice, payment
<1>9. SoundStream(product \o plan("monthly") \o plan("yearly") \o plan("metered"), obj)
  BY <1>1, <1>8, SoundBoth
<1>10. SoundStream(product \o plan("monthly") \o plan("yearly") \o plan("metered")
                   \o customer \o sub, obj)
  BY <1>3, <1>4, <1>9, SoundBoth
<1> QED
  BY <1>5, <1>6, <1>7, <1>10, SoundBoth

\* A backfill adds sound events and takes none away.
LEMMA BackfillStep ==
  ASSUME BillingInv, Backfill
  PROVE  BillingInv'
BY BackfillIsSound, Published, Redelivered
   DEF Backfill, state, SoundStream, BillingInv, Streams, Waiting, Known

\* A rate makes no difference to what is handled already.
LEMMA RatesArriveStep ==
  ASSUME BillingInv, RatesArrive
  PROVE  BillingInv'
<1>1. /\ fx' = fx \union {Cur}
      /\ UNCHANGED <<scene, obj, queue, late, sent, tables, parked, last, trial>>
  BY DEF RatesArrive, bus
<1>2. Waiting' = Waiting /\ Known' = Known
  BY <1>1 DEF Waiting, Known
<1>3. Kept(obj, tables, Waiting)'
  BY <1>1, <1>2 DEF BillingInv, Kept
<1>4. (\A e \in Known : Sound(e, obj))'
  BY <1>1, <1>2 DEF BillingInv, Sound, PaidNow
<1>5. Objects(obj)' /\ PaidIsReal' /\ IsTables(tables)' /\ Streams'
  BY <1>1 DEF BillingInv, Objects, PaidIsReal, IsTables, Streams
<1>6. RedeliveryChangesNothing'
  BY <1>1, RatesRaiseNothing DEF BillingInv, RedeliveryChangesNothing, HandledTrial
<1> QED
  BY <1>3, <1>4, <1>5, <1>6 DEF BillingInv

-----------------------------------------------------------------------------
(* The state consumer *)

\* The first event of a partition is taken from what is waiting.
LEMMA Taken ==
  ASSUME Streams, NEW p \in {"catalog", "customer"}, queue[p] # <<>>,
         queue' = [queue EXCEPT ![p] = Tail(@)], late' = late, sent' = sent
  PROVE  /\ Streams'
         /\ Range(queue["catalog"]) \union Range(queue["customer"]) =
              Range(queue'["catalog"]) \union Range(queue'["customer"])
              \union {Head(queue[p])}
BY Consumed DEF Streams

\* What a committed handler leaves behind.
LEMMA HandledKeeps ==
  ASSUME NEW t, NEW u, NEW e, NEW o, Sound(e, o), Handled(t, u, e, o),
         NEW D, NEW E, Kept(o, t, D),
         \A d \in D : d \in E \/ EventId(d) = EventId(e)
  PROVE  Kept(o, u, E)
BY TheObjects DEF Has, EventId, Handled, Kept, Stays, Made, Sound

\* A handled event leaves its row, a failed one is parked.
LEMMA ConsumeStep ==
  ASSUME NoRowIsNoRecord, BillingInv, NEW p \in {"catalog", "customer"}, Consume(p)
  PROVE  BillingInv'
<1>1. PICK e : /\ e = Head(queue[p])
               /\ queue[p] # <<>> /\ queue' = [queue EXCEPT ![p] = Tail(@)]
               /\ UNCHANGED <<scene, obj, late, sent, fx>>
               /\ Handle(p, e) \/ SetAside(p, e)
  BY DEF Consume
<1>2. /\ Streams'
      /\ Range(queue["catalog"]) \union Range(queue["customer"]) =
           Range(queue'["catalog"]) \union Range(queue'["customer"]) \union {e}
  BY <1>1, Taken DEF BillingInv
<1>3. Sound(e, obj)
  BY <1>1, <1>2 DEF BillingInv, Known, Waiting
<1>4. Objects(obj)'
  BY <1>1 DEF BillingInv, Objects
<1>5. ASSUME parked' \subseteq parked \union {e} PROVE (\A d \in Known : Sound(d, obj))'
  BY <1>1, <1>2, <1>3, <1>5 DEF BillingInv, Known, Waiting, Sound, PaidNow
<1>6. CASE Handle(p, e)
  <2>1. /\ ~Raises(tables, e, fx)
        /\ tables' = HandleState(tables, e)
        /\ parked' = {d \in parked : EventId(d) # EventId(e)}
        /\ trial' = HandledTrial(e)
        /\ last' = e
    BY <1>6 DEF Handle
  <2>2. Handled(tables, tables', e, obj) /\ HandleState(tables', e) = tables'
    BY <1>3, <2>1, StateHandled DEF BillingInv
  <2>3. ~Raises(tables', e, fx)
    BY <1>3, <2>1, RaisesNoMore DEF BillingInv
  <2>4. HandledTrial(e)' = trial'
    BY <2>1, HandledTrialTwice
  <2>5. RedeliveryChangesNothing'
    BY <1>1, <2>1, <2>2, <2>3, <2>4 DEF RedeliveryChangesNothing, HandledTrial
  <2>6. \A d \in Waiting : d \in Waiting' \/ EventId(d) = EventId(e)
    BY <1>1, <1>2, <2>1 DEF Waiting
  <2>7. Kept(obj, tables', Waiting')
    BY <1>3, <2>2, <2>6, HandledKeeps DEF BillingInv
  <2>8. Kept(obj, tables, Waiting)'
    BY <1>1, <2>7 DEF Kept
  <2>9. PaidIsReal'
    BY <1>1, <2>2 DEF BillingInv, Handled, PaysRightly, IsPaid, PaidIsReal, PaidNow
  <2>10. IsTables(tables)'
    BY <2>2 DEF Handled, IsTables
  <2> QED
    BY <1>2, <1>4, <1>5, <2>1, <2>5, <2>8, <2>9, <2>10 DEF BillingInv
<1>7. CASE SetAside(p, e)
  BY <1>1, <1>2, <1>4, <1>5, <1>7
     DEF SetAside, Has, Waiting, EventId, BillingInv, Kept, PaidIsReal, IsTables,
         RedeliveryChangesNothing
<1> QED
  BY <1>1, <1>6, <1>7

-----------------------------------------------------------------------------
(* Turns of a subscription *)

\* A turn of the subscription is sound: its webhooks are about it alone.
LEMMA SubTurn ==
  ASSUME BillingInv, NEW sub, "id" \in DOMAIN sub, sub.id = s1,
         NEW events, Says(events, SubTypes, sub.id),
         obj.sub # NoRow \/ Has(Range(events), "subscription.created", s1),
         Act([obj EXCEPT !.sub = sub], events)
  PROVE  BillingInv'
<1> DEFINE o == [obj EXCEPT !.sub = sub]
<1>1. /\ DOMAIN o = DOMAIN obj /\ o.sub = sub /\ o.price = obj.price
      /\ o.customer = obj.customer /\ o.invoice = obj.invoice
      /\ o.payment = obj.payment /\ o.note = obj.note
  BY DEF BillingInv, Objects
<1> HIDE DEF o
<1>2. Objects(o)
  BY <1>1 DEF BillingInv, Objects
<1>3. Follows(obj, o) /\ Grown(obj, o, Range(events))
  BY <1>1 DEF Follows, PaidNow, Grown
<1>4. SoundStream(events, o)
  BY SubSoundStream
<1> QED
  BY <1>2, <1>3, <1>4, Acted DEF o

\* A subscription that changes is the same subscription.
LEMMA SubUpdateTurn ==
  ASSUME BillingInv, obj.sub # NoRow, NEW sub, "id" \in DOMAIN sub,
         sub.id = obj.sub.id, NEW events, Says(events, SubTypes, sub.id),
         Act([obj EXCEPT !.sub = sub], events)
  PROVE  BillingInv'
BY SubTurn DEF BillingInv, Objects

\* A new subscription has its id.
LEMMA NewSub ==
  ASSUME NEW status, NEW at
  PROVE  "id" \in DOMAIN SubObj(status, at) /\ SubObj(status, at).id = s1
BY DEF SubObj

LEMMA StripeSubscribeStep ==
  ASSUME BillingInv, NEW status, StripeSubscribe(status)
  PROVE  BillingInv'
<1> DEFINE sub == SubObj(status, Now)
<1>1. Act([obj EXCEPT !.sub = sub], Stripe!SubCreated(sub))
  BY DEF StripeSubscribe
<1>2. "id" \in DOMAIN sub /\ sub.id = s1
  BY NewSub
<1> HIDE DEF sub
<1>3. /\ Says(Stripe!SubCreated(sub), SubTypes, sub.id)
      /\ Has(Range(Stripe!SubCreated(sub)), "subscription.created", s1)
  BY <1>2, StripeSubCreatedSays DEF Has
<1> QED
  BY <1>1, <1>2, <1>3, SubTurn

LEMMA ChargebeeSubscribeStep ==
  ASSUME BillingInv, NEW status, ChargebeeSubscribe(status)
  PROVE  BillingInv'
<1> DEFINE sub == SubObj(status, Now)
<1>1. Act([obj EXCEPT !.sub = sub], Chargebee!SubCreated(sub, Now))
  BY DEF ChargebeeSubscribe
<1>2. "id" \in DOMAIN sub /\ sub.id = s1
  BY NewSub
<1> HIDE DEF sub
<1>3. /\ Says(Chargebee!SubCreated(sub, Now), SubTypes, sub.id)
      /\ Has(Range(Chargebee!SubCreated(sub, Now)), "subscription.created", s1)
  BY <1>2, ChargebeeSubCreatedSays DEF Has
<1> QED
  BY <1>1, <1>2, <1>3, SubTurn

\* Whatever an update changes, its webhook is about the subscription.
LEMMA StripeUpdateStep ==
  ASSUME BillingInv, obj.sub # NoRow, NEW sub, "id" \in DOMAIN sub,
         sub.id = obj.sub.id, StripeUpdate(sub)
  PROVE  BillingInv'
BY StripeSubUpdatedSays, SubUpdateTurn DEF StripeUpdate

\* Whoever has a status is there.
LEMMA StatusIsThere ==
  /\ \A status \in StripeMoves(Status) : obj.sub # NoRow
  /\ Status \in StripeLive \union {"unpaid", "paused"} => obj.sub # NoRow
  /\ Status \in ChargebeeLive \union {"paused", "cancelled"} => obj.sub # NoRow
BY BillingAssumption DEF Status, StripeMoves, StripeLive, ChargebeeLive

LEMMA StripeChangeStep ==
  ASSUME BillingInv, NEW status, NEW p,
         \/ StripeMove(status) \/ StripeSwitch(p) \/ StripeHold \/ StripeSchedule
  PROVE  BillingInv'
<1>1. PICK sub : /\ obj.sub # NoRow /\ StripeUpdate(sub)
                 /\ "id" \in DOMAIN sub /\ sub.id = obj.sub.id
  <2>1. CASE StripeMove(status)
    <3> DEFINE sub == [obj.sub EXCEPT !.status = status,
                         !.trialEnd = IF Status = "trialing" THEN Now ELSE @]
    <3>1. StripeUpdate(sub) /\ obj.sub # NoRow
      BY <2>1, StatusIsThere DEF StripeMove
    <3>2. "id" \in DOMAIN sub /\ sub.id = obj.sub.id
      BY <3>1 DEF BillingInv, Objects
    <3> QED
      BY <3>1, <3>2
  <2>2. CASE StripeSwitch(p)
    <3> DEFINE sub == [obj.sub EXCEPT !.plan = p, !.items = ItemsOf(p),
                         !.mrr = MonthlyWorth(p), !.itemAt = Now]
    <3>1. StripeUpdate(sub) /\ obj.sub # NoRow
      BY <2>2, StatusIsThere DEF StripeSwitch
    <3>2. "id" \in DOMAIN sub /\ sub.id = obj.sub.id
      BY <3>1 DEF BillingInv, Objects
    <3> QED
      BY <3>1, <3>2
  <2>3. CASE StripeHold
    <3> DEFINE sub == [obj.sub EXCEPT !.paused = ~@]
    <3>1. StripeUpdate(sub) /\ obj.sub # NoRow
      BY <2>3, StatusIsThere DEF StripeHold
    <3>2. "id" \in DOMAIN sub /\ sub.id = obj.sub.id
      BY <3>1 DEF BillingInv, Objects
    <3> QED
      BY <3>1, <3>2
  <2>4. CASE StripeSchedule
    <3> DEFINE sub == [obj.sub EXCEPT !.atEnd = ~@,
                         !.canceledAt = IF obj.sub.atEnd THEN Null ELSE Now]
    <3>1. StripeUpdate(sub) /\ obj.sub # NoRow
      BY <2>4, StatusIsThere DEF StripeSchedule
    <3>2. "id" \in DOMAIN sub /\ sub.id = obj.sub.id
      BY <3>1 DEF BillingInv, Objects
    <3> QED
      BY <3>1, <3>2
  <2> QED
    BY <2>1, <2>2, <2>3, <2>4
<1> QED
  BY <1>1, StripeUpdateStep

LEMMA StripeDeleteStep ==
  ASSUME BillingInv, StripeDelete
  PROVE  BillingInv'
<1> DEFINE sub == [obj.sub EXCEPT !.status = "canceled", !.endedAt = Now,
                     !.canceledAt = IF @ = Null THEN Now ELSE @]
<1>1. Act([obj EXCEPT !.sub = sub], Stripe!SubDeleted(sub, Now)) /\ obj.sub # NoRow
  BY StatusIsThere DEF StripeDelete
<1>2. "id" \in DOMAIN sub /\ sub.id = obj.sub.id
  BY <1>1 DEF BillingInv, Objects
<1> HIDE DEF sub
<1> QED
  BY <1>1, <1>2, StripeSubDeletedSays, SubUpdateTurn

\* The same of a Chargebee subscription's change of status.
LEMMA ChargebeeTurnStep ==
  ASSUME BillingInv, NEW from, NEW to, NEW events,
         from \subseteq ChargebeeLive \union {"paused", "cancelled"},
         ChargebeeTurn(from, to, events), Says(events, SubTypes, Become(to).id)
  PROVE  BillingInv'
BY StatusIsThere, SubUpdateTurn DEF ChargebeeTurn, BillingInv, Objects, Become

LEMMA ChargebeeChangeStep ==
  ASSUME BillingInv,
         \/ ChargebeeActivate \/ ChargebeeSchedule \/ ChargebeePause
         \/ ChargebeeResume \/ ChargebeeCancel \/ ChargebeeDelete
  PROVE  BillingInv'
BY ChargebeeSubSays, ChargebeeTurnStep
   DEF ChargebeeActivate, ChargebeeLive, ChargebeeSchedule, ChargebeePause,
       ChargebeeResume, ChargebeeCancel, ChargebeeDelete

LEMMA ChargebeeSwitchStep ==
  ASSUME BillingInv, NEW p, ChargebeeSwitch(p)
  PROVE  BillingInv'
<1> DEFINE sub == [obj.sub EXCEPT !.plan = p, !.items = ItemsOf(p),
                                  !.mrr = MonthlyWorth(p)]
<1>1. /\ Act([obj EXCEPT !.sub = sub], Chargebee!SubChanged(obj.sub, sub, Now))
      /\ obj.sub # NoRow
  BY StatusIsThere DEF ChargebeeSwitch
<1>2. "id" \in DOMAIN sub /\ sub.id = obj.sub.id
  BY <1>1 DEF BillingInv, Objects
<1> HIDE DEF sub
<1> QED
  BY <1>1, <1>2, ChargebeeSubSays, SubUpdateTurn

-----------------------------------------------------------------------------
(* Turns of the catalog, the customer and the bills *)

LEMMA EditProductStep ==
  ASSUME BillingInv, EditProduct
  PROVE  BillingInv'
<1> DEFINE prod == [obj.product EXCEPT !.name = "B"]
           o == [obj EXCEPT !.product = prod]
           events == IF source = "stripe" THEN Stripe!Product("product.updated", prod, Now)
                     ELSE Chargebee!Item("product.updated", prod, Now)
<1>1. Act(o, events)
  BY DEF EditProduct
<1> HIDE DEF prod
<1>2. SoundStream(events, o)
  BY StripeSingles, ChargebeeSingles, SingleSound DEF Plain, ProductTypes
<1>3. /\ DOMAIN o = DOMAIN obj /\ o.sub = obj.sub /\ o.price = obj.price
      /\ o.customer = obj.customer /\ o.invoice = obj.invoice
      /\ o.payment = obj.payment /\ o.note = obj.note
  BY DEF BillingInv, Objects
<1> HIDE DEF o, events
<1>4. Objects(o) /\ Follows(obj, o) /\ Grown(obj, o, Range(events))
  BY <1>3 DEF BillingInv, Objects, Follows, PaidNow, Grown
<1> QED
  BY <1>1, <1>2, <1>4, Acted

LEMMA ArchivePriceStep ==
  ASSUME BillingInv, ArchivePrice
  PROVE  BillingInv'
<1> DEFINE price == [obj.price["yearly"] EXCEPT !.active = FALSE]
           o == [obj EXCEPT !.price["yearly"] = price]
           events == IF source = "stripe" THEN Stripe!Price("plan.deleted", price, Now)
                     ELSE Chargebee!ItemPrice("plan.deleted", price, Now)
<1>1. Act(o, events)
  BY DEF ArchivePrice
<1>2. /\ {"id", "interval"} \subseteq DOMAIN price
      /\ price.id = "yearly" /\ price.interval # Null
  BY BillingAssumption DEF BillingInv, Objects
<1> HIDE DEF price
<1>3. SoundStream(events, o)
  BY <1>2, PricesSound DEF PlanTypes
<1>4. /\ DOMAIN o = DOMAIN obj /\ o.sub = obj.sub
      /\ o.price = [obj.price EXCEPT !["yearly"] = price]
      /\ o.customer = obj.customer /\ o.invoice = obj.invoice
      /\ o.payment = obj.payment /\ o.note = obj.note
  BY DEF BillingInv, Objects
<1> HIDE DEF o, events
<1>5. Plans \subseteq DOMAIN o.price
      /\ \A p \in Plans : o.price[p] = IF p = "yearly" THEN price ELSE obj.price[p]
  BY <1>4 DEF BillingInv, Objects
<1>6. Objects(o)
  BY <1>2, <1>4, <1>5 DEF BillingInv, Objects
<1>7. Follows(obj, o) /\ Grown(obj, o, Range(events))
  BY <1>4 DEF Follows, PaidNow, Grown
<1> QED
  BY <1>1, <1>3, <1>6, <1>7, Acted

LEMMA MoveCustomerStep ==
  ASSUME BillingInv, MoveCustomer
  PROVE  BillingInv'
<1> DEFINE cust == [obj.customer EXCEPT !.country = Null]
           o == [obj EXCEPT !.customer = cust]
           events == IF source = "stripe" THEN Stripe!Customer("customer.updated", cust)
                     ELSE Chargebee!Customer("customer.updated", cust, Now)
<1>1. Act(o, events) /\ obj.customer # NoRow
  BY DEF MoveCustomer
<1>2. "id" \in DOMAIN cust /\ cust.id = c1
  BY <1>1 DEF BillingInv, Objects
<1> HIDE DEF cust
<1>3. SoundStream(events, o)
  BY StripeSingles, ChargebeeSingles, SingleSound DEF Plain
<1>4. /\ DOMAIN o = DOMAIN obj /\ o.sub = obj.sub /\ o.price = obj.price
      /\ o.customer = cust /\ o.invoice = obj.invoice
      /\ o.payment = obj.payment /\ o.note = obj.note
  BY DEF BillingInv, Objects
<1> HIDE DEF o, events
<1>5. Objects(o) /\ Follows(obj, o) /\ Grown(obj, o, Range(events))
  BY <1>1, <1>2, <1>4 DEF BillingInv, Objects, Follows, PaidNow, Grown
<1> QED
  BY <1>1, <1>3, <1>5, Acted

LEMMA DeleteCustomerStep ==
  ASSUME BillingInv, DeleteCustomer
  PROVE  BillingInv'
<1> DEFINE o == [obj EXCEPT !.customer = NoRow]
           events == IF source = "stripe"
                     THEN Stripe!Customer("customer.deleted", obj.customer)
                     ELSE Chargebee!Customer("customer.deleted", obj.customer, Now)
<1>1. Act(o, events)
  BY DEF DeleteCustomer
<1>2. /\ DOMAIN o = DOMAIN obj /\ o.sub = obj.sub /\ o.price = obj.price
      /\ o.customer = NoRow /\ o.invoice = obj.invoice
      /\ o.payment = obj.payment /\ o.note = obj.note
  BY DEF BillingInv, Objects
<1> HIDE DEF o
<1>3. SoundStream(events, o)
  BY <1>2, StripeSingles, ChargebeeSingles, DeletionSound
<1> HIDE DEF events
<1>4. Objects(o) /\ Follows(obj, o) /\ Grown(obj, o, Range(events))
  BY <1>2 DEF BillingInv, Objects, Follows, PaidNow, Grown
<1> QED
  BY <1>1, <1>3, <1>4, Acted

\* A new invoice has its id and lines, and is open.
LEMMA NewInvoice ==
  ASSUME NoRowIsNoRecord, NEW at
  PROVE  /\ InvoiceObj(at) # NoRow
         /\ {"id", "status", "lines"} \subseteq DOMAIN InvoiceObj(at)
         /\ InvoiceObj(at).id = i1 /\ InvoiceObj(at).lines # {}
         /\ source # "stripe" => InvoiceObj(at).status = "payment_due"
BY DEF InvoiceObj, LineObjs, NoRowIsNoRecord

LEMMA IssueInvoiceStep ==
  ASSUME NoRowIsNoRecord, BillingInv, IssueInvoice
  PROVE  BillingInv'
<1> DEFINE inv == InvoiceObj(Now)
           o == [obj EXCEPT !.invoice = inv]
           events == IF source = "stripe" THEN Stripe!InvoiceCreated(inv)
                     ELSE Chargebee!InvoiceGenerated(inv, Now)
<1>1. Act(o, events) /\ obj.invoice = NoRow
  BY DEF IssueInvoice
<1>2. /\ inv # NoRow /\ {"id", "status", "lines"} \subseteq DOMAIN inv
      /\ inv.id = i1 /\ inv.lines # {}
      /\ source # "stripe" => inv.status = "payment_due"
  BY NewInvoice
<1> HIDE DEF inv
<1>3. /\ DOMAIN o = DOMAIN obj /\ o.sub = obj.sub /\ o.price = obj.price
      /\ o.customer = obj.customer /\ o.invoice = inv
      /\ o.payment = obj.payment /\ o.note = obj.note
  BY DEF BillingInv, Objects
<1> HIDE DEF o
<1>4. SoundStream(events, o) /\ Has(Range(events), "invoice.created", i1)
  BY <1>2, <1>3, StripeInvoiceSound, ChargebeeInvoiceSound
<1> HIDE DEF events
<1>5. Objects(o) /\ Follows(obj, o) /\ Grown(obj, o, Range(events))
  BY <1>1, <1>2, <1>3, <1>4 DEF BillingInv, Objects, Follows, PaidNow, Grown
<1> QED
  BY <1>1, <1>4, <1>5, Acted

LEMMA SettleInvoiceStep ==
  ASSUME NoRowIsNoRecord, BillingInv, NEW status, SettleInvoice(status)
  PROVE  BillingInv'
<1> DEFINE to == IF status = "void" /\ source = "chargebee" THEN "voided" ELSE status
           inv == [obj.invoice EXCEPT
                     !.status = to,
                     !.paidAt = IF status = "paid" THEN Now ELSE Null,
                     !.voidedAt = IF status = "void" THEN Now ELSE Null]
           o == [obj EXCEPT !.invoice = inv]
           events ==
             CASE source = "chargebee" -> Chargebee!InvoiceUpdated(inv, Now)
               [] source = "stripe" /\ status = "paid" -> Stripe!InvoicePaid(inv, Now)
               [] source = "stripe" /\ status = "void" -> Stripe!InvoiceVoided(inv, Now)
               [] OTHER -> Stripe!InvoiceUncollectible(inv, Now)
<1>1. Act(o, events) /\ Open
  BY DEF SettleInvoice
<1>2. status = "paid" => to = "paid"
  OBVIOUS
<1> HIDE DEF to
<1>3. /\ inv # NoRow /\ {"id", "status", "lines"} \subseteq DOMAIN inv
      /\ inv.id = i1 /\ inv.lines # {} /\ inv.status = to
  BY <1>1 DEF BillingInv, Objects, Open, NoRowIsNoRecord
<1> HIDE DEF inv
<1>4. /\ DOMAIN o = DOMAIN obj /\ o.sub = obj.sub /\ o.price = obj.price
      /\ o.customer = obj.customer /\ o.invoice = inv
      /\ o.payment = obj.payment /\ o.note = obj.note
  BY DEF BillingInv, Objects
<1> HIDE DEF o
<1>5. SoundStream(events, o)
  BY <1>2, <1>3, <1>4, ChargebeeInvoiceSound, StripeInvoiceSound, StripeSingles,
     SingleSound
     DEF Plain
<1> HIDE DEF events
<1>6. Objects(o) /\ Follows(obj, o) /\ Grown(obj, o, Range(events))
  BY <1>1, <1>3, <1>4 DEF BillingInv, Objects, Follows, PaidNow, Grown, Open
<1> QED
  BY <1>1, <1>5, <1>6, Acted

LEMMA ChargeStep ==
  ASSUME BillingInv, NEW status, Charge(status)
  PROVE  BillingInv'
<1> DEFINE pi == PaymentObj(status, Now)
           type == IF status = "failed" THEN "payment.failed" ELSE "payment.succeeded"
           o == [obj EXCEPT !.payment = pi]
           events == IF source = "stripe" THEN Stripe!Payment(type, pi, Now)
                     ELSE Chargebee!Payment(type, pi, Now)
<1>1. Act(o, events)
  BY DEF Charge
<1>2. "id" \in DOMAIN pi /\ pi.id = t1
  BY DEF PaymentObj
<1>3. type \in {"payment.failed", "payment.succeeded"}
  OBVIOUS
<1> HIDE DEF pi, type
<1>4. SoundStream(events, o) /\ Has(Range(events), type, t1)
  BY <1>2, <1>3, StripeSingles, ChargebeeSingles, SingleSound DEF Plain, PaymentTypes
<1>5. /\ DOMAIN o = DOMAIN obj /\ o.sub = obj.sub /\ o.price = obj.price
      /\ o.customer = obj.customer /\ o.invoice = obj.invoice
      /\ o.payment = pi /\ o.note = obj.note
  BY DEF BillingInv, Objects
<1> HIDE DEF o, events
<1>6. Objects(o) /\ Follows(obj, o) /\ Grown(obj, o, Range(events))
  BY <1>2, <1>3, <1>4, <1>5 DEF BillingInv, Objects, Follows, PaidNow, Grown
<1> QED
  BY <1>1, <1>4, <1>6, Acted

LEMMA RefundStep ==
  ASSUME BillingInv, Refund
  PROVE  BillingInv'
<1> DEFINE o == [obj EXCEPT !.payment.status = "refunded"]
           events == IF source = "stripe"
                     THEN Stripe!ChargeRefunded("charge", obj.payment, Now)
                     ELSE Chargebee!Refunded("refund", obj.payment, Now)
<1>1. Act(o, events) /\ obj.payment # NoRow
  BY DEF Refund
<1>2. SoundStream(events, o)
  BY StripeSingles, ChargebeeSingles, SingleSound DEF Plain, PaymentTypes
<1>3. /\ DOMAIN o = DOMAIN obj /\ o.sub = obj.sub /\ o.price = obj.price
      /\ o.customer = obj.customer /\ o.invoice = obj.invoice
      /\ "id" \in DOMAIN o.payment /\ o.payment.id = t1 /\ o.note = obj.note
  BY <1>1 DEF BillingInv, Objects
<1> HIDE DEF o, events
<1>4. Objects(o) /\ Follows(obj, o) /\ Grown(obj, o, Range(events))
  BY <1>1, <1>3 DEF BillingInv, Objects, Follows, PaidNow, Grown
<1> QED
  BY <1>1, <1>2, <1>4, Acted

LEMMA ExpireCouponStep ==
  ASSUME BillingInv, ExpireCoupon
  PROVE  BillingInv'
<1> DEFINE c == [obj.coupon EXCEPT !.valid = FALSE]
           o == [obj EXCEPT !.coupon = c]
           events == IF source = "stripe" THEN Stripe!Coupon("coupon.deleted", c, Now)
                     ELSE Chargebee!Coupon("coupon.deleted", c, Now)
<1>1. Act(o, events)
  BY DEF ExpireCoupon
<1> HIDE DEF c
<1>2. SoundStream(events, o)
  BY StripeSingles, ChargebeeSingles, SingleSound DEF Plain, CouponTypes
<1>3. /\ DOMAIN o = DOMAIN obj /\ o.sub = obj.sub /\ o.price = obj.price
      /\ o.customer = obj.customer /\ o.invoice = obj.invoice
      /\ o.payment = obj.payment /\ o.note = obj.note
  BY DEF BillingInv, Objects
<1> HIDE DEF o, events
<1>4. Objects(o) /\ Follows(obj, o) /\ Grown(obj, o, Range(events))
  BY <1>3 DEF BillingInv, Objects, Follows, PaidNow, Grown
<1> QED
  BY <1>1, <1>2, <1>4, Acted

LEMMA IssueNoteStep ==
  ASSUME BillingInv, IssueNote
  PROVE  BillingInv'
<1> DEFINE o == [obj EXCEPT !.note = NoteObj]
           events == IF source = "stripe" THEN Stripe!NoteCreated(NoteObj, Now)
                     ELSE Chargebee!NoteCreated(NoteObj, Now)
<1>1. Act(o, events)
  BY DEF IssueNote
<1>2. "id" \in DOMAIN NoteObj /\ NoteObj.id = n1
  BY DEF NoteObj
<1>3. SoundStream(events, o) /\ Has(Range(events), "credit_note.created", n1)
  BY <1>2, StripeSingles, ChargebeeSingles, SingleSound DEF Plain, NoteTypes
<1>4. /\ DOMAIN o = DOMAIN obj /\ o.sub = obj.sub /\ o.price = obj.price
      /\ o.customer = obj.customer /\ o.invoice = obj.invoice
      /\ o.payment = obj.payment /\ o.note = NoteObj
  BY DEF BillingInv, Objects
<1> HIDE DEF o, events
<1>5. Objects(o) /\ Follows(obj, o) /\ Grown(obj, o, Range(events))
  BY <1>2, <1>3, <1>4 DEF BillingInv, Objects, Follows, PaidNow, Grown
<1> QED
  BY <1>1, <1>3, <1>5, Acted

LEMMA VoidNoteStep ==
  ASSUME BillingInv, VoidNote
  PROVE  BillingInv'
<1> DEFINE status == IF source = "stripe" THEN "void" ELSE "voided"
           cn == [obj.note EXCEPT !.status = status, !.voidedAt = Now]
           o == [obj EXCEPT !.note = cn]
           events == IF source = "stripe" THEN Stripe!NoteVoided(cn, Now)
                     ELSE Chargebee!NoteUpdated(cn, Now)
<1>1. Act(o, events) /\ obj.note # NoRow
  BY DEF VoidNote
<1>2. "id" \in DOMAIN cn /\ cn.id = n1
  BY <1>1 DEF BillingInv, Objects
<1> HIDE DEF cn
<1>3. SoundStream(events, o)
  BY StripeSingles, ChargebeeSingles, SingleSound
     DEF Plain, NoteTypes, Chargebee!NoteUpdated
<1>4. /\ DOMAIN o = DOMAIN obj /\ o.sub = obj.sub /\ o.price = obj.price
      /\ o.customer = obj.customer /\ o.invoice = obj.invoice
      /\ o.payment = obj.payment /\ o.note = cn
  BY DEF BillingInv, Objects
<1> HIDE DEF o, events
<1>5. Objects(o) /\ Follows(obj, o) /\ Grown(obj, o, Range(events))
  BY <1>1, <1>2, <1>4 DEF BillingInv, Objects, Follows, PaidNow, Grown
<1> QED
  BY <1>1, <1>3, <1>5, Acted

-----------------------------------------------------------------------------
(* The opening *)

\* The prices are recurring and reported so.
LEMMA OpeningPlans ==
  ASSUME NEW p \in Plans, NEW o
  PROVE  /\ \E e : /\ Stripe!Price("plan.created", PriceObj(p), 0) = <<e>>
                   /\ Sound(e, o) /\ e.type = "plan.created" /\ e.obj = p
         /\ \E e : /\ Chargebee!ItemPrice("plan.created", PriceObj(p), 0) = <<e>>
                   /\ Sound(e, o) /\ e.type = "plan.created" /\ e.obj = p
<1> DEFINE price == PriceObj(p)
<1>1. price.id = p /\ price.interval # Null
  BY BillingAssumption DEF PriceObj, Interval
<1> HIDE DEF price
<1>2. ASSUME NEW e, e.type = "plan.created", e.p.interval # Null
      PROVE  Sound(e, o)
  BY <1>2 DEF Sound, AllTypes, PlanTypes, SubTypes
<1>3. PICK e : /\ Stripe!Price("plan.created", price, 0) = <<e>>
               /\ e.type = "plan.created" /\ e.obj = price.id
               /\ e.p.interval = price.interval
  BY <1>1 DEF Stripe!Price, Stripe!If, Stripe!Make
<1>4. PICK f : /\ Chargebee!ItemPrice("plan.created", price, 0) = <<f>>
               /\ f.type = "plan.created" /\ f.obj = price.id
               /\ f.p.interval = price.interval
  BY <1>1 DEF Chargebee!ItemPrice, Chargebee!ItemPricePayload, Chargebee!Make
<1> QED
  BY <1>1, <1>2, <1>3, <1>4 DEF price

\* The product, the coupon and the customer are reported created.
LEMMA OpeningOthers ==
  ASSUME NEW o
  PROVE  /\ \E e : /\ Stripe!Product("product.created", ProductObj, 0) = <<e>>
                   /\ Sound(e, o)
         /\ \E e : /\ Chargebee!Item("product.created", ProductObj, 0) = <<e>>
                   /\ Sound(e, o)
         /\ \E e : /\ Stripe!Coupon("coupon.created", CouponObj, 0) = <<e>>
                   /\ Sound(e, o) /\ e.type = "coupon.created" /\ e.obj = k1
         /\ \E e : /\ Chargebee!Coupon("coupon.created", CouponObj, 0) = <<e>>
                   /\ Sound(e, o) /\ e.type = "coupon.created" /\ e.obj = k1
         /\ \E e : /\ Stripe!Customer("customer.created", CustomerObj) = <<e>>
                   /\ Sound(e, o) /\ e.type = "customer.created" /\ e.obj = c1
         /\ \E e : /\ Chargebee!Customer("customer.created", CustomerObj, 0) = <<e>>
                   /\ Sound(e, o) /\ e.type = "customer.created" /\ e.obj = c1
<1>1. ASSUME NEW s, NEW type \in Plain, NEW x, Single(s, type, x)
      PROVE  \E e : s = <<e>> /\ Sound(e, o) /\ e.type = type /\ e.obj = x
  BY <1>1, PlainIsSound DEF Single
<1>2. CouponObj.id = k1 /\ CustomerObj.id = c1
  BY DEF CouponObj, CustomerObj
<1>3. /\ "product.created" \in Plain /\ "coupon.created" \in Plain
      /\ "customer.created" \in Plain
  BY DEF Plain, ProductTypes, CouponTypes
<1>4. /\ Single(Stripe!Product("product.created", ProductObj, 0), "product.created",
                 ProductObj.id)
      /\ Single(Chargebee!Item("product.created", ProductObj, 0), "product.created",
                 ProductObj.id)
      /\ Single(Stripe!Coupon("coupon.created", CouponObj, 0), "coupon.created", k1)
      /\ Single(Chargebee!Coupon("coupon.created", CouponObj, 0), "coupon.created", k1)
      /\ Single(Stripe!Customer("customer.created", CustomerObj), "customer.created", c1)
      /\ Single(Chargebee!Customer("customer.created", CustomerObj, 0),
                "customer.created", c1)
  <2> HIDE DEF ProductObj, CouponObj, CustomerObj
  <2> QED
    BY <1>2, StripeSingles, ChargebeeSingles
<1> QED
  BY <1>1, <1>3, <1>4

\* What the provider reports first, webhook by webhook.
Opens(o, product, monthly, yearly, metered, coupon, customer) ==
  /\ Opening[1] = <<product>> /\ Sound(product, o)
  /\ Opening[2] = <<monthly>> /\ Sound(monthly, o)
  /\ monthly.type = "plan.created" /\ monthly.obj = "monthly"
  /\ Opening[3] = <<yearly>> /\ Sound(yearly, o)
  /\ yearly.type = "plan.created" /\ yearly.obj = "yearly"
  /\ Opening[4] = <<metered>> /\ Sound(metered, o)
  /\ metered.type = "plan.created" /\ metered.obj = "metered"
  /\ Opening[5] = <<coupon>> /\ Sound(coupon, o)
  /\ coupon.type = "coupon.created" /\ coupon.obj = k1
  /\ Opening[6] = <<customer>> /\ Sound(customer, o)
  /\ customer.type = "customer.created" /\ customer.obj = c1

LEMMA Opened ==
  ASSUME NEW o
  PROVE  \E product, monthly, yearly, metered, coupon, customer :
           Opens(o, product, monthly, yearly, metered, coupon, customer)
BY BillingAssumption, OpeningPlans, OpeningOthers DEF Opening, Opens

\* The tables at first.
LEMMA EmptyTables == IsTables(NoTables) /\ \A i \in Invoices : ~IsPaid(NoTables, i)
BY DEF IsTables, NoTables, TableNames, IsPaid

\* The invariant holds at first: what is not in the tables is on its way ...
LEMMA BillingInvInit ==
  ASSUME NoRowIsNoRecord, Init
  PROVE  BillingInv
<1>1. PICK product, monthly, yearly, metered, coupon, customer :
           Opens(obj, product, monthly, yearly, metered, coupon, customer)
  BY Opened
<1> DEFINE one == HandleState(NoTables, product)
           two == HandleState(one, monthly)
           three == HandleState(two, yearly)
           lagging == IF scene = "subs" THEN <<yearly>> ELSE <<metered>> \o <<coupon>>
           here == IF scene = "subs" THEN {yearly} ELSE {metered, coupon}
<1>2. Objects(obj)
  BY BillingAssumption DEF PriceObj, Interval, Init, CustomerObj, Objects
<1>3. Head(Opening[1]) = product /\ Head(Opening[2]) = monthly /\ Head(Opening[3]) = yearly
  BY <1>1 DEF Opens
<1>4. tables = IF scene = "subs" THEN two ELSE three
  BY <1>3 DEF Init
<1>5. /\ queue["catalog"] = lagging /\ DOMAIN queue = {"catalog", "customer"}
      /\ \/ queue["customer"] = <<customer>> /\ late = {} /\ sent = {<<customer>>}
         \/ queue["customer"] = <<>> /\ late = {<<customer>>} /\ sent = {}
      /\ parked = {} /\ last = Null
  <2>1. lagging = IF scene = "subs" THEN Opening[3] ELSE Opening[4] \o Opening[5]
    BY <1>1 DEF Opens
  <2> HIDE DEF lagging
  <2>2. \/ /\ queue = [catalog |-> lagging, customer |-> <<customer>>]
           /\ late = {} /\ sent = {<<customer>>}
        \/ /\ queue = [catalog |-> lagging, customer |-> <<>>]
           /\ late = {<<customer>>} /\ sent = {}
    BY <1>1, <2>1, Zenon DEF Opens, Init
  <2>3. parked = {} /\ last = Null
    BY DEF Init
  <2> QED
    BY <2>2, <2>3
<1>6. IsStream(lagging) /\ Range(lagging) = here
  BY OneEvent, Joined
<1>7. /\ Handled(NoTables, one, product, obj) /\ Handled(one, two, monthly, obj)
      /\ Handled(two, three, yearly, obj)
  BY <1>1, EmptyTables, StateHandled DEF Opens, Handled
<1> HIDE DEF one, two, three, lagging, here
<1>8. Streams /\ Known = here \union {customer} /\ Waiting = here \union {customer}
  <2>1. Range(<<customer>>) = {customer} /\ IsStream(<<customer>>)
    BY OneEvent
  <2>2. EventsOf({}) = {} /\ EventsOf({<<customer>>}) = {customer}
    BY <2>1 DEF EventsOf
  <2>3. /\ \/ queue["customer"] = <<customer>> /\ late = {} /\ sent = {<<customer>>}
           \/ queue["customer"] = <<>> /\ late = {<<customer>>} /\ sent = {}
        /\ parked = {}
    BY <1>5
  <2>4. Streams
    BY <1>5, <1>6, <2>1, NoEvents DEF Streams
  <2>5. Waiting = here \union {customer}
    BY <1>5, <1>6, <2>1, <2>2, <2>3, NoEvents DEF Waiting
  <2>6. Known = here \union {customer}
    BY <2>2, <2>3, <2>5 DEF Known
  <2> QED
    BY <2>4, <2>5, <2>6
<1>9. \A e \in Known : Sound(e, obj)
  BY <1>1, <1>8 DEF Opens, here
<1>10. IsTables(tables) /\ \A i \in Invoices : IsPaid(tables, i) => PaidNow(obj)
  BY <1>4, <1>7, EmptyTables DEF Handled, PaysRightly
<1>11. /\ tables.plan["monthly"] # NoRow
       /\ scene # "subs" => tables.plan["yearly"] # NoRow
  BY <1>1, <1>4, <1>7, BillingAssumption DEF Opens, Handled, Made, Stays
<1>12. Kept(obj, tables, Waiting)
  BY <1>1, <1>8, <1>11, BillingAssumption DEF Opens, Init, Has, here, Kept
<1>13. PaidIsReal /\ RedeliveryChangesNothing
  BY <1>5, <1>10 DEF PaidIsReal, IsPaid, PaidNow, RedeliveryChangesNothing
<1> QED
  BY <1>2, <1>8, <1>9, <1>10, <1>12, <1>13 DEF BillingInv

-----------------------------------------------------------------------------
(* The invariant, and what it says *)

\* ... and whatever the provider does ...
LEMMA BillingTurnStep ==
  ASSUME NoRowIsNoRecord, BillingInv, Turn
  PROVE  BillingInv'
BY StripeSubscribeStep, StripeChangeStep, StripeDeleteStep, ChargebeeSubscribeStep,
   ChargebeeChangeStep, ChargebeeSwitchStep, EditProductStep, ArchivePriceStep,
   MoveCustomerStep, DeleteCustomerStep, IssueInvoiceStep, SettleInvoiceStep,
   ChargeStep, RefundStep, ExpireCouponStep, IssueNoteStep, VoidNoteStep
   DEF Turn

\* ... and whatever the bus and the consumer do.
LEMMA BillingInvStep ==
  ASSUME NoRowIsNoRecord, BillingInv, [Next]_vars
  PROVE  BillingInv'
BY Redelivered, BillingTurnStep, ArriveStep, ResendStep, ReplayStep, BackfillStep,
   RatesArriveStep, ConsumeStep
   DEF vars, state, BillingInv, Streams, Waiting, Known, Next

\* The state that the system keeps up: what is on the bus is what the provider's
\* objects account for, and each object has its row or its creation on the way.
THEOREM BillingInductive == NoRowIsNoRecord => (Spec => []BillingInv)
<1> SUFFICES ASSUME NoRowIsNoRecord PROVE Spec => []BillingInv
  OBVIOUS
<1>1. Init => BillingInv
  BY BillingInvInit
<1>2. BillingInv /\ [Next]_vars => BillingInv'
  BY BillingInvStep
<1> QED
  BY <1>1, <1>2, PTL DEF Spec

\* The worker may stop at any moment between a handler's commit and the offset's:
\* what it handles again leaves every table, and the trial's row, as they are
\* (state.py:handle_state_event, TrialsMetric._upsert_trial).
THEOREM BillingRedeliveryHarmless ==
  NoRowIsNoRecord => (Spec => []RedeliveryChangesNothing)
<1>1. BillingInv => RedeliveryChangesNothing
  BY DEF BillingInv
<1> QED
  BY <1>1, BillingInductive, PTL

\* Whatever is late, repeated, dead-lettered, replayed or backfilled, an invoice's
\* row is paid only when the provider has been paid.
THEOREM OnlyPaidInvoicesArePaid == NoRowIsNoRecord => (Spec => []PaidIsReal)
<1>1. BillingInv => PaidIsReal
  BY DEF BillingInv
<1> QED
  BY <1>1, BillingInductive, PTL

\* When nothing is on its way and nothing parked, every object of the provider
\* has its row, and an invoice its lines, through any faults before.
THEOREM ObjectsReachTheTables == NoRowIsNoRecord => (Spec => []NothingLost)
<1>1. BillingInv => NothingLost
  BY NoEvents DEF NothingLost, BillingInv, Streams, Idle, Waiting, EventsOf, Has, Kept
<1> QED
  BY <1>1, BillingInductive, PTL

-----------------------------------------------------------------------------
(* The shapes of the provider's objects *)

StripeStatuses == {"trialing", "active", "past_due", "incomplete", "unpaid", "paused",
                   "incomplete_expired", "canceled"}
ChargebeeStatuses == {"in_trial", "active", "non_renewing", "paused", "cancelled",
                      "deleted"}

\* ItemsOf, of connector src.
ItemsIn(p, src) ==
  [x \in {IF src = "stripe" THEN "item" ELSE p} |->
     [price |-> p, usage |-> Usage(p), amount |-> Amount[p],
      interval |-> Interval[p], quantity |-> 1]]

\* A subscription of connector src, by the provider's clock n.  The trial of a
\* Stripe subscription is over when another status is reported; a scheduled
\* cancellation has its date, and only an ended subscription an end.
SubShape(sub, src, n) ==
  /\ sub \in [id : {s1}, customer : {c1}, plan : {"monthly", "yearly"},
              status : StripeStatuses \union ChargebeeStatuses, cur : {Cur},
              items : {ItemsIn("monthly", src), ItemsIn("yearly", src)},
              mrr : 0..3, paused : BOOLEAN, atEnd : BOOLEAN,
              createdAt : 0..n, itemAt : 0..n,
              trialStart : Nat \union {Null}, trialEnd : Nat \union {Null},
              canceledAt : 0..n \union {Null}, endedAt : 0..n \union {Null}]
  /\ sub.status \in IF src = "stripe" THEN StripeStatuses ELSE ChargebeeStatuses
  /\ sub.items = ItemsIn(sub.plan, src) /\ sub.mrr = MonthlyWorth(sub.plan)
  /\ sub.status = "trialing" => sub.trialEnd # Null
  /\ src = "stripe" /\ sub.status \notin {"trialing", "canceled"} =>
       sub.trialEnd \in 0..n \union {Null}
  /\ src = "stripe" /\ sub.atEnd => sub.canceledAt # Null
  /\ sub.status = "canceled" => sub.endedAt # Null
  /\ sub.status # "canceled" => sub.endedAt = Null

\* An invoice has one date at most, that of its end.
InvoiceShape(inv, src, n) ==
  /\ inv \in [id : {i1}, customer : {c1}, sub : {Null}, total : {2}, cur : {Cur},
              status : {"open", "paid", "void", "uncollectible", "payment_due", "voided"},
              lines : {LineObjs}, createdAt : 0..n,
              paidAt : 0..n \union {Null}, voidedAt : 0..n \union {Null}]
  /\ inv.status \in IF src = "stripe" THEN {"open", "paid", "void", "uncollectible"}
                    ELSE {"payment_due", "paid", "voided"}
  /\ inv.status = "paid" <=> inv.paidAt # Null
  /\ inv.status \in {"void", "voided"} <=> inv.voidedAt # Null

PaymentShape(pi) ==
  pi \in [id : {t1}, customer : {c1}, invoice : {i1}, amount : {2},
          status : {"failed", "succeeded", "refunded"}, createdAt : Nat]

NoteShape(cn, n) ==
  /\ cn \in [id : {n1}, customer : {c1}, invoice : {i1},
             status : {"issued", "refund_due", "void", "voided"}, total : {1},
             cur : {Cur}, voidedAt : 0..n \union {Null}]
  /\ cn.status \in {"void", "voided"} <=> cn.voidedAt # Null

CouponShape(c) ==
  c \in [id : {k1}, off : {1}, cur : {Cur}, valid : BOOLEAN, createdAt : {0}]

Shaped(o, src, n) ==
  /\ o = [product |-> o.product, price |-> o.price, customer |-> o.customer,
          coupon |-> o.coupon, sub |-> o.sub, invoice |-> o.invoice,
          payment |-> o.payment, note |-> o.note]
  /\ o.sub # NoRow => SubShape(o.sub, src, n)
  /\ o.invoice # NoRow => InvoiceShape(o.invoice, src, n)
  /\ o.payment # NoRow => PaymentShape(o.payment)
  /\ o.note # NoRow => NoteShape(o.note, n)
  /\ CouponShape(o.coupon)

\* What a shape allows, it allows later.
LEMMA ShapesLater ==
  ASSUME NEW src, NEW n \in Nat
  PROVE  /\ \A sub : SubShape(sub, src, n) => SubShape(sub, src, n + 1)
         /\ \A inv : InvoiceShape(inv, src, n) => InvoiceShape(inv, src, n + 1)
         /\ \A cn : NoteShape(cn, n) => NoteShape(cn, n + 1)
<1>1. 0..n \subseteq 0..(n + 1)
  OBVIOUS
<1> DEFINE early == 0..n
           soon == 0..(n + 1)
<1>2. ASSUME NEW sub, SubShape(sub, src, n) PROVE SubShape(sub, src, n + 1)
  BY <1>1, <1>2 DEF SubShape, early, soon
<1>3. ASSUME NEW inv, InvoiceShape(inv, src, n) PROVE InvoiceShape(inv, src, n + 1)
  BY <1>1, <1>3 DEF InvoiceShape
<1>4. ASSUME NEW cn, NoteShape(cn, n) PROVE NoteShape(cn, n + 1)
  BY <1>1, <1>4 DEF NoteShape
<1> QED
  BY <1>2, <1>3, <1>4

\* What a plan is worth a month ...
LEMMA Worth ==
  /\ MonthlyWorth("monthly") = 2 /\ MonthlyWorth("yearly") = 3
  /\ \A p \in {"monthly", "yearly"} : MonthlyWorth(p) \in 1..3
BY DEF MonthlyWorth, ComputeMrr, Amount, Interval

\* ... is what Stripe's item and so the sum of its items is worth.
LEMMA WorthOfItems ==
  ASSUME NEW p \in {"monthly", "yearly"}
  PROVE  /\ Stripe!ItemMrr(ItemsIn(p, "stripe")["item"]) = MonthlyWorth(p)
         /\ Stripe!SubMrr(ItemsIn(p, "stripe")) = MonthlyWorth(p)
<1> DEFINE items == ItemsIn(p, "stripe")
<1>1. DOMAIN items = {"item"}
      /\ items["item"] = [price |-> p, usage |-> Usage(p), amount |-> Amount[p],
                          interval |-> Interval[p], quantity |-> 1]
  BY DEF ItemsIn
<1>2. Usage(p) = "licensed"
  BY DEF Usage
<1> HIDE DEF items
<1>3. Stripe!ItemMrr(items["item"]) = MonthlyWorth(p)
  BY <1>1, <1>2 DEF Stripe!ItemMrr, Stripe!ComputeMrr, MonthlyWorth, ComputeMrr
<1> DEFINE w == [x \in {"item"} |-> MonthlyWorth(p)]
           Rec(h) == h = [T \in SUBSET {"item"} |-> IF T = {} THEN 0
                            ELSE Stripe!ItemMrr(items[Chosen(T)]) + h[T \ {Chosen(T)}]]
<1>4. Stripe!SubMrr(items) = (CHOOSE h : Rec(h))[{"item"}]
  BY <1>1, Zenon DEF Stripe!SubMrr, Stripe!MapThenSumSet, Stripe!MapThenFoldSet, Chosen
<1>5. ASSUME NEW h PROVE Rec(h) <=> Iterates(h, w, {"item"})
  BY <1>3 DEF Chosen, Iterates
<1>6. (CHOOSE h : Rec(h)) = (CHOOSE h : Iterates(h, w, {"item"}))
  BY <1>5
<1>7. Stripe!SubMrr(items) = SumOver(w, {"item"})
  BY <1>4, <1>6 DEF SumOver
<1>8. Weighs(w, {"item"})
  <2>1. \A x \in {"item"} : w[x] \in Int
    BY Worth
  <2>2. IsFiniteSet({"item"})
    BY FS_Singleton
  <2> HIDE DEF w
  <2> QED
    BY <2>1, <2>2 DEF Weighs
<1>9. SumOver(w, {"item"}) = w["item"] + SumOver(w, {})
  BY <1>8, SumWithout
<1>10. w["item"] = MonthlyWorth(p) /\ MonthlyWorth(p) \in Int
  BY Worth
<1> HIDE DEF w
<1>11. SumOver(w, {}) = 0
  BY SumEmpty
<1>12. Stripe!SubMrr(items) = MonthlyWorth(p)
  BY <1>7, <1>9, <1>10, <1>11
<1> QED
  BY <1>3, <1>12 DEF items

-----------------------------------------------------------------------------
(* What the connectors' events carry *)

CatalogTypes == ProductTypes \union PlanTypes \union CouponTypes
ActiveTypes == {"subscription.activated", "subscription.reactivated",
                "subscription.resumed"}
AmountTypes == {"subscription.created", "subscription.changed"} \union ActiveTypes
Times == 0..MaxTurns

\* An event is about the provider's objects and carries what its handler keeps:
\* amounts of the prices, dates of the provider's clock, canonical words.
Formed(e) ==
  /\ e.cust = IF e.type \in CatalogTypes THEN NoCust ELSE c1
  /\ e.type \in InvoiceTypes => e.obj = i1
  /\ e.type \in {"payment.succeeded", "payment.failed"} => e.obj = t1
  /\ e.type \in NoteTypes => e.obj = n1
  /\ e.type \in CouponTypes => e.obj = k1
  /\ e.type \in AmountTypes => e.p.mrr \in 0..3
  /\ e.type = "subscription.canceled" => e.p.canceledAt \in Times
  /\ e.type = "subscription.churned" => e.at \in Times
  /\ e.type = "subscription.trial_expired" => e.at # Null
  /\ e.type = "invoice.created" => /\ e.p.status \in CanonicalInvoiceStatuses
                                   /\ \A li \in e.p.lines : li.kind \in CanonicalLineKinds
  /\ e.type = "invoice.paid" => Coalesce(e.p.paidAt, e.at) # Null
  /\ e.type = "credit_note.created" => /\ e.p.status \in CanonicalNoteStatuses
                                       /\ e.p.invoice = i1

FormedStream(s) == IsStream(s) /\ \A e \in Range(s) : Formed(e)

\* No event is formed badly, ...
LEMMA FormedNothing == FormedStream(<<>>)
BY NoEvents DEF FormedStream

\* ... a formed event is a formed stream, ...
LEMMA FormedOne == ASSUME NEW e, Formed(e) PROVE FormedStream(<<e>>)
BY OneEvent DEF FormedStream

\* ... two streams are one ...
LEMMA FormedBoth ==
  ASSUME NEW s, NEW t, FormedStream(s), FormedStream(t)
  PROVE  FormedStream(s \o t)
BY Joined DEF FormedStream

\* ... and one that may be missing is one.
LEMMA FormedIf ==
  ASSUME NEW condition, NEW s, condition => FormedStream(s)
  PROVE  FormedStream(Stripe!If(condition, s))
BY FormedNothing DEF Stripe!If

\* A customer's key is not the catalog's.
LEMMA Keys ==
  /\ c1 # NoCust
  /\ \A e : Formed(e) => Partition(e) = IF e.type \in CatalogTypes THEN "catalog"
                                        ELSE "customer"
BY TheObjects, BillingAssumption DEF Formed, Partition

\* An event of the subscription.
Told(type, at, p) == [type |-> type, obj |-> s1, cust |-> c1, at |-> at, p |-> p]

\* Both connectors tell the same of a subscription.
LEMMA ToldBoth ==
  ASSUME NEW sub, sub.id = s1, sub.customer = c1, NEW type, NEW at, NEW p
  PROVE  /\ Stripe!SubEvent(type, sub, at, p) = Told(type, at, p)
         /\ Chargebee!SubEvent(type, sub, at, p) = Told(type, at, p)
BY DEF Stripe!SubEvent, Stripe!Make, Chargebee!SubEvent, Chargebee!Make, Told

\* What a subscription's event has to carry.
LEMMA ToldFormed ==
  ASSUME NEW type \in SubTypes, NEW at, NEW p,
         type \in AmountTypes => p.mrr \in 0..3,
         type = "subscription.canceled" => p.canceledAt \in Times,
         type = "subscription.churned" => at \in Times,
         type = "subscription.trial_expired" => at # Null
  PROVE  Formed(Told(type, at, p)) /\ FormedStream(<<Told(type, at, p)>>)
<1> DEFINE e == Told(type, at, p)
<1>1. e.type = type /\ e.at = at /\ e.p = p /\ e.cust = c1
  BY DEF Told
<1> HIDE DEF e
<1>2. Formed(e)
  BY <1>1 DEF Formed, SubTypes, CatalogTypes, ProductTypes, PlanTypes, CouponTypes,
              InvoiceTypes, NoteTypes
<1> QED
  BY <1>2, FormedOne DEF e

-----------------------------------------------------------------------------
(* Stripe *)

\* What Stripe's payloads say of a subscription's worth.
LEMMA StripeAmounts ==
  ASSUME NEW sub, NEW n, SubShape(sub, "stripe", n)
  PROVE  /\ sub.id = s1 /\ sub.customer = c1
         /\ sub.mrr \in 0..3 /\ Stripe!SubMrr(sub.items) = sub.mrr
         /\ Stripe!MrrOf(sub).mrr = sub.mrr
         /\ Stripe!SubCreatedPayload(sub).mrr = sub.mrr
         /\ Stripe!SubCreatedPayload(sub).status = sub.status
         /\ Stripe!SubCreatedPayload(sub).items = Stripe!SerializeItems(sub)
         /\ Stripe!CanceledPayload(sub).canceledAt = sub.canceledAt
         /\ DOMAIN Stripe!SerializeItems(sub) = {"item"}
         /\ Stripe!SerializeItems(sub)["item"].mrr = sub.mrr
BY WorthOfItems
   DEF SubShape, ItemsIn, Stripe!MrrOf, Stripe!SubCreatedPayload,
       Stripe!CanceledPayload, Stripe!SerializeItems

\* A subscription that is no more in its trial is dated by the provider's clock.
LEMMA StripeDated ==
  ASSUME NEW n \in Nat, NEW sub, SubShape(sub, "stripe", n), sub.status # "trialing"
  PROVE  Stripe!SubOccurred(sub, n) \in 0..n
<1>1. /\ sub.itemAt \in 0..n /\ sub.canceledAt \in 0..n \union {Null}
      /\ sub.endedAt \in 0..n \union {Null}
      /\ sub.endedAt = Null => sub.trialEnd \in 0..n \union {Null}
      /\ sub.itemAt # Null
  BY BillingAssumption DEF SubShape
<1>2. ASSUME NEW S, NEW m \in S, \A x \in S : m >= x PROVE Stripe!Max(S) \in S
  BY <1>2 DEF Stripe!Max
<1> DEFINE S == {sub.trialEnd, sub.itemAt} \ {Null}
<1>3. ASSUME sub.endedAt = Null PROVE S # {} /\ Stripe!Max(S) \in 0..n
  BY <1>1, <1>2, <1>3
<1> QED
  BY <1>1, <1>3 DEF Stripe!SubOccurred

\* A subscription is reported created, ...
LEMMA StripeCreatedFormed ==
  ASSUME NEW n, NEW sub, SubShape(sub, "stripe", n)
  PROVE  FormedStream(Stripe!SubCreated(sub))
<1> DEFINE at == sub.createdAt
           one == <<Stripe!SubEvent("subscription.created", sub, at, Stripe!SubCreatedPayload(sub))>>
           two == <<Stripe!SubEvent("subscription.activated", sub, at, Stripe!MrrOf(sub))>>
           three == <<Stripe!SubEvent("subscription.trial_started", sub, at, Stripe!MrrOf(sub))>>
<1>1. FormedStream(one) /\ FormedStream(two) /\ FormedStream(three)
  BY ToldBoth, ToldFormed, StripeAmounts DEF SubTypes, AmountTypes, ActiveTypes
<1>2. Stripe!SubCreated(sub) = (one \o Stripe!If(sub.status = "active", two))
                               \o Stripe!If(sub.status = "trialing", three)
  BY DEF Stripe!SubCreated
<1> HIDE DEF one, two, three
<1>3. /\ FormedStream(Stripe!If(sub.status = "active", two))
      /\ FormedStream(Stripe!If(sub.status = "trialing", three))
  BY <1>1, FormedIf
<1> QED
  BY <1>1, <1>2, <1>3, FormedBoth

\* ... updated, ...
LEMMA StripeUpdatedFormed ==
  ASSUME NEW n \in Times, NEW prev, NEW sub, SubShape(sub, "stripe", n),
         sub.status # "canceled"
  PROVE  FormedStream(Stripe!SubUpdated(prev, sub, n))
<1> DEFINE at == Stripe!SubOccurred(sub, n)
           paid == Stripe!MrrOf(sub)
           One(type) == <<Stripe!SubEvent(type, sub, at, paid)>>
           canceled == <<Stripe!SubEvent("subscription.canceled", sub, at,
                                         Stripe!CanceledPayload(sub))>>
           churned == <<Stripe!SubEvent("subscription.churned", sub, at,
                                        Stripe!ChurnedPayload(sub))>>
           changed == <<Stripe!SubEvent("subscription.changed", sub, at,
                          [plan |-> sub.plan, prev |-> Stripe!SubMrr(prev.items),
                           mrr |-> Stripe!SubMrr(sub.items), cur |-> sub.cur,
                           items |-> Stripe!SerializeItems(sub)])>>
           moves == Stripe!StatusEvents(prev, sub, at)
           one == Stripe!If(prev.paused /\ ~sub.paused, One("subscription.resumed"))
           two == Stripe!If(~prev.atEnd /\ sub.atEnd, canceled)
           three == Stripe!If(Stripe!SubMrr(prev.items) # Stripe!SubMrr(sub.items),
                              changed)
<1>0. n \in Nat /\ 0..n \subseteq Times
  BY BillingAssumption DEF Times
<1>1. /\ sub.id = s1 /\ sub.customer = c1
      /\ sub.mrr \in 0..3 /\ Stripe!SubMrr(sub.items) = sub.mrr /\ paid.mrr = sub.mrr
      /\ Stripe!CanceledPayload(sub).canceledAt = sub.canceledAt
  BY StripeAmounts
<1>2. sub.status # "trialing" => at \in Times /\ at # Null
  BY <1>0, BillingAssumption, StripeDated DEF Times, at
<1>3. sub.atEnd => sub.canceledAt \in Times
  BY <1>0 DEF SubShape
<1> HIDE DEF at, paid
<1>4. /\ FormedStream(One("subscription.trial_converted"))
      /\ FormedStream(One("subscription.activated"))
      /\ FormedStream(One("subscription.paused"))
      /\ FormedStream(One("subscription.resumed"))
      /\ sub.status # "trialing" => FormedStream(One("subscription.trial_expired"))
  BY <1>1, <1>2, ToldBoth, ToldFormed DEF SubTypes, AmountTypes, ActiveTypes
<1>5. sub.status # "trialing" => FormedStream(churned)
  BY <1>1, <1>2, ToldBoth, ToldFormed DEF SubTypes, AmountTypes, ActiveTypes
<1>6. sub.atEnd => FormedStream(canceled)
  BY <1>1, <1>3, ToldBoth, ToldFormed DEF SubTypes, AmountTypes, ActiveTypes
<1>7. FormedStream(changed)
  <2> DEFINE p == [plan |-> sub.plan, prev |-> Stripe!SubMrr(prev.items),
                   mrr |-> Stripe!SubMrr(sub.items), cur |-> sub.cur,
                   items |-> Stripe!SerializeItems(sub)]
  <2>1. p.mrr \in 0..3
    BY <1>1
  <2> HIDE DEF p
  <2> QED
    BY <1>1, <2>1, ToldBoth, ToldFormed DEF SubTypes, p
<1>8. FormedStream(moves)
  <2> DEFINE a == Stripe!SubEvent("subscription.trial_converted", sub, at, paid)
             b == Stripe!SubEvent("subscription.activated", sub, at, paid)
  <2>1. FormedStream(<<a, b>>)
    BY <1>4, OneEvent, TwoEvents DEF a, b, FormedStream
  <2>2. CASE sub.status = "trialing"
    BY <2>2, FormedNothing DEF Stripe!StatusEvents
  <2>3. CASE sub.status # "trialing"
    BY <1>4, <1>5, <2>1, <2>3, FormedNothing DEF Stripe!StatusEvents, paid
  <2> QED
    BY <2>2, <2>3
<1>9. Stripe!SubUpdated(prev, sub, n) = ((moves \o one) \o two) \o three
  BY DEF Stripe!SubUpdated, at, paid
<1> HIDE DEF moves, One, canceled, churned, changed
<1>10. FormedStream(one) /\ FormedStream(two) /\ FormedStream(three)
  BY <1>4, <1>6, <1>7, FormedIf
<1> HIDE DEF one, two, three
<1>11. FormedStream((moves \o one) \o two)
  BY <1>8, <1>10, FormedBoth
<1> QED
  BY <1>9, <1>10, <1>11, FormedBoth

\* ... deleted ...
LEMMA StripeDeletedFormed ==
  ASSUME NEW n \in Times, NEW sub, SubShape(sub, "stripe", n),
         sub.status = "canceled"
  PROVE  FormedStream(Stripe!SubDeleted(sub, n))
<1> DEFINE at == Stripe!SubOccurred(sub, n)
           churned == <<Stripe!SubEvent("subscription.churned", sub, at,
                                        Stripe!ChurnedPayload(sub))>>
           expired == <<Stripe!SubEvent("subscription.trial_expired", sub, at,
                                        Stripe!MrrOf(sub))>>
<1>1. n \in Nat /\ 0..n \subseteq Times /\ Null \notin Times
  BY BillingAssumption DEF Times
<1>2. at \in Times
  BY <1>1, StripeDated
<1> HIDE DEF at
<1>3. FormedStream(churned) /\ FormedStream(expired)
  BY <1>1, <1>2, StripeAmounts, ToldBoth, ToldFormed DEF SubTypes, AmountTypes, ActiveTypes
<1>4. Stripe!SubDeleted(sub, n) =
        churned \o Stripe!If(sub.status = "trialing" \/ Stripe!CanceledInTrial(sub), expired)
  BY DEF Stripe!SubDeleted, at
<1> HIDE DEF churned, expired
<1> QED
  BY <1>3, <1>4, FormedIf, FormedBoth

\* ... and found by a backfill in formed events.
LEMMA StripeSubBackfillFormed ==
  ASSUME NEW n \in Times, NEW sub, SubShape(sub, "stripe", n)
  PROVE  FormedStream(Stripe!SubBackfill(sub))
<1> DEFINE One(type, at) == <<Stripe!SubEvent(type, sub, at, Stripe!MrrOf(sub))>>
           created == <<Stripe!SubEvent("subscription.created", sub, sub.createdAt,
                                        Stripe!SubCreatedPayload(sub))>>
           churned == <<Stripe!SubEvent("subscription.churned", sub, sub.createdAt,
                                        Stripe!ChurnedPayload(sub))>>
           active == Stripe!If(sub.status = "active",
                               One("subscription.activated", sub.createdAt))
           over == Stripe!If(sub.status \in {"canceled", "incomplete_expired", "unpaid"},
                             churned)
<1>1. sub.createdAt \in Times
  BY BillingAssumption DEF SubShape, Times
<1>2. /\ FormedStream(created) /\ FormedStream(churned)
      /\ FormedStream(One("subscription.activated", sub.createdAt))
      /\ FormedStream(One("subscription.trial_started", sub.trialStart))
      /\ FormedStream(One("subscription.trial_converted", sub.trialEnd))
  BY <1>1, StripeAmounts, ToldBoth, ToldFormed DEF SubTypes, AmountTypes, ActiveTypes
<1>3. ASSUME NEW at, at # Null PROVE FormedStream(One("subscription.trial_expired", at))
  BY <1>3, StripeAmounts, ToldBoth, ToldFormed DEF SubTypes, AmountTypes, ActiveTypes
<1>4. FormedStream(Stripe!TrialBackfill(sub))
  BY <1>2, <1>3, FormedNothing, FormedBoth, FormedIf
     DEF Stripe!TrialBackfill, Stripe!CanceledInTrial
<1>5. Stripe!SubBackfill(sub) = ((created \o active) \o over) \o Stripe!TrialBackfill(sub)
  BY DEF Stripe!SubBackfill
<1> HIDE DEF created, churned, One
<1>6. FormedStream(active) /\ FormedStream(over)
  BY <1>2, FormedIf
<1> HIDE DEF active, over
<1>7. FormedStream((created \o active) \o over)
  BY <1>2, <1>6, FormedBoth
<1> QED
  BY <1>4, <1>5, <1>7, FormedBoth

-----------------------------------------------------------------------------
(* Chargebee *)

\* Chargebee's subscriptions carry their worth; what takes the canonical status
\* is a word that has one.
LEMMA ChargebeeAmounts ==
  ASSUME NEW sub, NEW n, SubShape(sub, "chargebee", n)
  PROVE  /\ sub.id = s1 /\ sub.customer = c1 /\ sub.mrr \in 0..3
         /\ Chargebee!MrrOf(sub).mrr = sub.mrr
BY DEF SubShape, Chargebee!MrrOf

\* A subscription is reported created ...
LEMMA ChargebeeCreatedFormed ==
  ASSUME NEW n \in Times, NEW sub, SubShape(sub, "chargebee", n)
  PROVE  FormedStream(Chargebee!SubCreated(sub, n))
<1> DEFINE p == [customer |-> sub.customer, plan |-> sub.plan,
                 status |-> Chargebee!Status(sub.status), mrr |-> sub.mrr,
                 cur |-> sub.cur, items |-> Chargebee!SubscriptionItems(sub)]
           paid == Chargebee!MrrOf(sub)
           created == <<Chargebee!SubEvent("subscription.created", sub, n, p)>>
           started == <<Chargebee!SubEvent("subscription.trial_started", sub, n, paid)>>
           active == <<Chargebee!SubEvent("subscription.activated", sub, n, paid)>>
<1>1. /\ sub.id = s1 /\ sub.customer = c1 /\ sub.mrr \in 0..3
      /\ p.mrr = sub.mrr /\ paid.mrr = sub.mrr
  BY ChargebeeAmounts
<1>2. PICK rest \in {started, active, <<>>} : Chargebee!SubCreated(sub, n) = created \o rest
  BY DEF Chargebee!SubCreated
<1> HIDE DEF p, paid
<1>3. FormedStream(created) /\ FormedStream(started) /\ FormedStream(active)
  BY <1>1, ToldBoth, ToldFormed DEF SubTypes, AmountTypes, ActiveTypes
<1> HIDE DEF created, started, active
<1>4. FormedStream(rest)
  BY <1>2, <1>3, FormedNothing
<1> QED
  BY <1>2, <1>3, <1>4, FormedBoth

\* ... and what becomes of it in formed events.
LEMMA ChargebeeOthersFormed ==
  ASSUME NEW n \in Times, NEW prior, NEW sub, SubShape(sub, "chargebee", n)
  PROVE  /\ FormedStream(Chargebee!SubActivated(prior, sub, n))
         /\ FormedStream(Chargebee!SubChanged(prior, sub, n))
         /\ sub.canceledAt # Null => FormedStream(Chargebee!SubCancelled(sub, n))
         /\ FormedStream(Chargebee!SubPaused(sub, n))
         /\ FormedStream(Chargebee!SubResumed(sub, n))
         /\ FormedStream(Chargebee!SubDeleted(sub, n))
<1> DEFINE paid == Chargebee!MrrOf(sub)
           One(type) == <<Chargebee!SubEvent(type, sub, n, paid)>>
<1>1. sub.id = s1 /\ sub.customer = c1 /\ sub.mrr \in 0..3 /\ paid.mrr = sub.mrr
  BY ChargebeeAmounts
<1>2. sub.canceledAt # Null => sub.canceledAt \in Times
  BY BillingAssumption DEF SubShape, Times
<1> HIDE DEF paid
<1>3. /\ FormedStream(One("subscription.activated"))
      /\ FormedStream(One("subscription.trial_converted"))
      /\ FormedStream(One("subscription.paused"))
      /\ FormedStream(One("subscription.resumed"))
  BY <1>1, ToldBoth, ToldFormed DEF SubTypes, AmountTypes, ActiveTypes
<1>4. FormedStream(Chargebee!SubActivated(prior, sub, n))
  BY <1>3, FormedNothing, FormedBoth DEF Chargebee!SubActivated, paid
<1>5. FormedStream(Chargebee!SubChanged(prior, sub, n))
  <2> DEFINE p == [plan |-> sub.plan, prev |-> prior.mrr, mrr |-> sub.mrr,
                   cur |-> sub.cur, items |-> Chargebee!SubscriptionItems(sub)]
             changed == <<Chargebee!SubEvent("subscription.changed", sub, n, p)>>
  <2>1. p.mrr \in 0..3 /\ Chargebee!SubChanged(prior, sub, n) \in {<<>>, changed}
    BY <1>1 DEF Chargebee!SubChanged
  <2> HIDE DEF p
  <2>2. FormedStream(changed)
    BY <1>1, <2>1, ToldBoth, ToldFormed DEF SubTypes
  <2> QED
    BY <2>1, <2>2, FormedNothing
<1>6. sub.canceledAt # Null => FormedStream(Chargebee!SubCancelled(sub, n))
  <2> DEFINE p == [canceledAt |-> sub.canceledAt]
  <2>1. /\ Chargebee!SubCancelled(sub, n) =
             <<Chargebee!SubEvent("subscription.canceled", sub, n, p)>>
        /\ p.canceledAt = sub.canceledAt
    BY DEF Chargebee!SubCancelled
  <2> HIDE DEF p
  <2> QED
    BY <1>1, <1>2, <2>1, ToldBoth, ToldFormed DEF SubTypes, AmountTypes, ActiveTypes
<1>7. FormedStream(Chargebee!SubDeleted(sub, n))
  BY <1>1, ToldBoth, ToldFormed
     DEF Chargebee!SubDeleted, SubTypes, AmountTypes, ActiveTypes
<1> QED
  BY <1>3, <1>4, <1>5, <1>6, <1>7 DEF Chargebee!SubPaused, Chargebee!SubResumed, paid

-----------------------------------------------------------------------------
(* Catalog, customer and bills, of both connectors *)

\* An event of the catalog or the customer.
LEMMA PlainFormed ==
  ASSUME NEW e,
         \/ e.type \in ProductTypes \union PlanTypes /\ e.cust = NoCust
         \/ e.type \in CustomerTypes /\ e.cust = c1
  PROVE  Formed(e) /\ FormedStream(<<e>>)
BY FormedOne
   DEF Formed, CatalogTypes, ProductTypes, PlanTypes, CustomerTypes, CouponTypes,
       InvoiceTypes, NoteTypes, AmountTypes, ActiveTypes

\* The connectors make such an event of their words.
LEMMA PlainMade ==
  ASSUME NEW type, NEW x, NEW cust, NEW at, NEW p,
         \/ type \in ProductTypes \union PlanTypes /\ cust = NoCust
         \/ type \in CustomerTypes /\ cust = c1
  PROVE  /\ FormedStream(<<Stripe!Make(type, x, cust, at, p)>>)
         /\ FormedStream(<<Chargebee!Make(type, x, cust, at, p)>>)
<1> DEFINE e == [type |-> type, obj |-> x, cust |-> cust, at |-> at, p |-> p]
<1>1. e.type = type /\ e.cust = cust
  OBVIOUS
<1> HIDE DEF e
<1>2. FormedStream(<<e>>)
  BY <1>1, PlainFormed
<1> QED
  BY <1>2 DEF Stripe!Make, Chargebee!Make, e

\* The webhooks about the catalog and the customer.
LEMMA CatalogFormed ==
  ASSUME NEW type \in ProductTypes \union PlanTypes, NEW x, NEW at
  PROVE  /\ FormedStream(Stripe!Product(type, x, at))
         /\ FormedStream(Chargebee!Item(type, x, at))
         /\ FormedStream(Stripe!Price(type, x, at))
         /\ FormedStream(Chargebee!ItemPrice(type, x, at))
BY PlainMade, FormedIf, FormedNothing
   DEF Stripe!Product, Chargebee!Item, Stripe!Price, Stripe!If, Chargebee!ItemPrice

\* So are the customer's.
LEMMA CustomerFormed ==
  ASSUME NEW type \in CustomerTypes, NEW cust, cust.id = c1, NEW at
  PROVE  /\ FormedStream(Stripe!Customer(type, cust))
         /\ FormedStream(Chargebee!Customer(type, cust, at))
BY PlainMade DEF Stripe!Customer, Chargebee!Customer

\* An invoice's lines are of canonical kinds.
LEMMA LineKinds ==
  ASSUME NEW inv
  PROVE  /\ \A li \in Stripe!InvoicePayload(inv).lines : li.kind \in CanonicalLineKinds
         /\ \A li \in Chargebee!InvoicePayload(inv).lines : li.kind \in CanonicalLineKinds
BY DEF Stripe!ClassifyLine, Stripe!SerializeLine, Chargebee!InvoiceLine,
       CanonicalLineKinds, Stripe!InvoicePayload, Chargebee!InvoicePayload

\* An event of the invoice.
LEMMA InvoiceMade ==
  ASSUME NEW type \in InvoiceTypes, NEW at, NEW p,
         type = "invoice.created" =>
           /\ p.status \in CanonicalInvoiceStatuses
           /\ \A li \in p.lines : li.kind \in CanonicalLineKinds,
         type = "invoice.paid" => Coalesce(p.paidAt, at) # Null
  PROVE  /\ FormedStream(<<Stripe!Make(type, i1, c1, at, p)>>)
         /\ FormedStream(<<Chargebee!Make(type, i1, c1, at, p)>>)
<1> DEFINE e == [type |-> type, obj |-> i1, cust |-> c1, at |-> at, p |-> p]
<1>1. e.type = type /\ e.obj = i1 /\ e.cust = c1 /\ e.at = at /\ e.p = p
  OBVIOUS
<1> HIDE DEF e
<1>2. Formed(e)
  BY <1>1 DEF Formed, CatalogTypes, ProductTypes, PlanTypes, CouponTypes, InvoiceTypes,
              NoteTypes, AmountTypes, ActiveTypes
<1> QED
  BY <1>2, FormedOne DEF Stripe!Make, Chargebee!Make, e

\* Stripe's invoices are reported in formed events, ...
LEMMA StripeInvoiceFormed ==
  ASSUME NEW n \in Times, NEW inv, InvoiceShape(inv, "stripe", n)
  PROVE  /\ FormedStream(Stripe!InvoiceCreated(inv))
         /\ FormedStream(Stripe!InvoicePaid(inv, n))
         /\ FormedStream(Stripe!InvoiceVoided(inv, n))
         /\ FormedStream(Stripe!InvoiceUncollectible(inv, n))
         /\ FormedStream(Stripe!InvoiceBackfill(inv))
<1>1. /\ inv.id = i1 /\ inv.customer = c1 /\ inv.createdAt \in 0..n
      /\ inv.status \in {"open", "paid", "void", "uncollectible"}
  BY DEF InvoiceShape
<1>2. n # Null /\ inv.createdAt # Null
  BY <1>1, BillingAssumption DEF Times
<1>3. FormedStream(Stripe!InvoiceCreated(inv))
  <2> DEFINE p == Stripe!InvoicePayload(inv)
  <2>1. p.status \in CanonicalInvoiceStatuses
    BY <1>1 DEF Stripe!InvoicePayload, CanonicalInvoiceStatuses
  <2>2. \A li \in p.lines : li.kind \in CanonicalLineKinds
    BY LineKinds
  <2> HIDE DEF p
  <2>3. FormedStream(<<Stripe!Make("invoice.created", i1, c1, inv.createdAt, p)>>)
    BY <2>1, <2>2, InvoiceMade DEF InvoiceTypes
  <2> QED
    BY <1>1, <2>3 DEF Stripe!InvoiceCreated, Stripe!InvoiceEvent, p
<1>4. ASSUME NEW at, at # Null
      PROVE  FormedStream(<<Stripe!InvoiceEvent("invoice.paid", inv, at,
                                                Stripe!PaidPayload(inv))>>)
  <2> DEFINE p == Stripe!PaidPayload(inv)
  <2>1. Coalesce(p.paidAt, at) # Null
    BY <1>4 DEF Coalesce
  <2> HIDE DEF p
  <2>2. FormedStream(<<Stripe!Make("invoice.paid", i1, c1, at, p)>>)
    BY <2>1, InvoiceMade DEF InvoiceTypes
  <2> QED
    BY <1>1, <2>2 DEF Stripe!InvoiceEvent, p
<1>5. FormedStream(Stripe!InvoicePaid(inv, n))
  BY <1>2, <1>4 DEF Stripe!InvoicePaid
<1>6. /\ FormedStream(Stripe!InvoiceVoided(inv, n))
      /\ FormedStream(Stripe!InvoiceUncollectible(inv, n))
  BY <1>1, InvoiceMade
     DEF Stripe!InvoiceVoided, Stripe!InvoiceUncollectible, Stripe!InvoiceEvent,
         InvoiceTypes
<1>7. FormedStream(Stripe!InvoiceBackfill(inv))
  BY <1>2, <1>3, <1>4, FormedIf, FormedBoth DEF Stripe!InvoiceBackfill
<1> QED
  BY <1>3, <1>5, <1>6, <1>7

\* ... and so are Chargebee's, ...
LEMMA ChargebeeInvoiceFormed ==
  ASSUME NEW n \in Times, NEW inv, InvoiceShape(inv, "chargebee", n)
  PROVE  /\ FormedStream(Chargebee!InvoiceGenerated(inv, n))
         /\ FormedStream(Chargebee!InvoiceUpdated(inv, n))
<1>1. /\ inv.id = i1 /\ inv.customer = c1
      /\ inv.status \in {"payment_due", "paid", "voided"}
  BY DEF InvoiceShape
<1>2. n # Null
  BY BillingAssumption DEF Times
<1>3. FormedStream(Chargebee!Paid(inv, n))
  <2> DEFINE p == [sub |-> inv.sub, paidAt |-> inv.paidAt, amount |-> inv.total,
                   cur |-> inv.cur]
  <2>1. Coalesce(p.paidAt, n) # Null
    BY <1>2 DEF Coalesce
  <2> HIDE DEF p
  <2>2. FormedStream(<<Chargebee!Make("invoice.paid", i1, c1, n, p)>>)
    BY <2>1, InvoiceMade DEF InvoiceTypes
  <2> QED
    BY <1>1, <2>2 DEF Chargebee!Paid, Chargebee!InvoiceEvent, p
<1>4. FormedStream(Chargebee!InvoiceGenerated(inv, n))
  <2> DEFINE p == Chargebee!InvoicePayload(inv)
             created == <<Chargebee!Make("invoice.created", i1, c1, n, p)>>
  <2>1. p.status \in CanonicalInvoiceStatuses
    BY <1>1
       DEF Chargebee!InvoicePayload, Chargebee!InvoiceStatus, CanonicalInvoiceStatuses
  <2>2. \A li \in p.lines : li.kind \in CanonicalLineKinds
    BY LineKinds
  <2> HIDE DEF p
  <2>3. FormedStream(created)
    BY <2>1, <2>2, InvoiceMade DEF InvoiceTypes
  <2>4. PICK rest \in {<<>>, Chargebee!Paid(inv, n)} :
          Chargebee!InvoiceGenerated(inv, n) = created \o rest
    BY <1>1 DEF Chargebee!InvoiceGenerated, Chargebee!InvoiceEvent, p
  <2> HIDE DEF created
  <2> QED
    BY <1>3, <2>3, <2>4, FormedNothing, FormedBoth
<1>5. FormedStream(<<Chargebee!InvoiceEvent("invoice.voided", inv, n,
                                            [voidedAt |-> inv.voidedAt])>>)
  BY <1>1, InvoiceMade DEF Chargebee!InvoiceEvent, InvoiceTypes
<1> QED
  BY <1>3, <1>4, <1>5, FormedNothing DEF Chargebee!InvoiceUpdated

\* An event of the payment, the coupon or the credit note.
LEMMA BillMade ==
  ASSUME NEW type, NEW x, NEW cust, NEW at, NEW p,
         \/ /\ type \in PaymentTypes /\ cust = c1
            /\ type # "payment.refunded" => x = t1
         \/ type \in CouponTypes /\ cust = NoCust /\ x = k1
         \/ /\ type \in NoteTypes /\ cust = c1 /\ x = n1
            /\ type = "credit_note.created" => /\ p.status \in CanonicalNoteStatuses
                                               /\ p.invoice = i1
  PROVE  /\ FormedStream(<<Stripe!Make(type, x, cust, at, p)>>)
         /\ FormedStream(<<Chargebee!Make(type, x, cust, at, p)>>)
<1> DEFINE e == [type |-> type, obj |-> x, cust |-> cust, at |-> at, p |-> p]
<1>1. e.type = type /\ e.obj = x /\ e.cust = cust /\ e.at = at /\ e.p = p
  OBVIOUS
<1> HIDE DEF e
<1>2. Formed(e)
  BY <1>1 DEF Formed, CatalogTypes, ProductTypes, PlanTypes, CouponTypes, InvoiceTypes,
              PaymentTypes, NoteTypes, AmountTypes, ActiveTypes
<1> QED
  BY <1>2, FormedOne DEF Stripe!Make, Chargebee!Make, e

\* ... and payments, ...
LEMMA PaymentFormed ==
  ASSUME NEW pi, PaymentShape(pi), NEW at, NEW x
  PROVE  /\ \A type \in {"payment.succeeded", "payment.failed"} :
              /\ FormedStream(Stripe!Payment(type, pi, at))
              /\ FormedStream(Chargebee!Payment(type, pi, at))
         /\ FormedStream(Stripe!ChargeRefunded(x, pi, at))
         /\ FormedStream(Chargebee!Refunded(x, pi, at))
         /\ FormedStream(Stripe!PaymentBackfill(pi))
BY BillMade, FormedIf
   DEF PaymentShape, PaymentTypes, Stripe!Payment, Chargebee!Payment,
       Stripe!ChargeRefunded, Chargebee!Refunded, Stripe!PaymentBackfill

\* ... and the coupon, ...
LEMMA CouponFormed ==
  ASSUME NEW c, CouponShape(c), NEW type \in CouponTypes, NEW at
  PROVE  /\ FormedStream(Stripe!Coupon(type, c, at))
         /\ FormedStream(Chargebee!Coupon(type, c, at))
BY BillMade DEF CouponShape, Stripe!Coupon, Chargebee!Coupon

\* ... and credit notes.
LEMMA NoteFormed ==
  ASSUME NEW cn, NEW n, NoteShape(cn, n), NEW at
  PROVE  /\ cn.status \in {"issued", "void"} => FormedStream(Stripe!NoteCreated(cn, at))
         /\ FormedStream(Chargebee!NoteCreated(cn, at))
         /\ FormedStream(Stripe!NoteVoided(cn, at))
         /\ FormedStream(Chargebee!NoteUpdated(cn, at))
<1>1. cn.id = n1 /\ cn.customer = c1 /\ cn.invoice = i1
  BY DEF NoteShape
<1>2. cn.status \in {"issued", "void"} => FormedStream(Stripe!NoteCreated(cn, at))
  <2> DEFINE p == Stripe!NotePayload(cn)
  <2>1. p.status = cn.status /\ p.invoice = i1
    BY <1>1 DEF Stripe!NotePayload
  <2> HIDE DEF p
  <2>2. cn.status \in {"issued", "void"} =>
          FormedStream(<<Stripe!Make("credit_note.created", n1, c1, at, p)>>)
    BY <2>1, BillMade DEF NoteTypes, CanonicalNoteStatuses
  <2> QED
    BY <1>1, <2>2 DEF Stripe!NoteCreated, p
<1>3. FormedStream(Chargebee!NoteCreated(cn, at))
  <2> DEFINE p == Chargebee!NotePayload(cn)
  <2>1. p.status \in CanonicalNoteStatuses /\ p.invoice = i1
    BY <1>1 DEF Chargebee!NotePayload, Chargebee!NoteStatus, CanonicalNoteStatuses
  <2> HIDE DEF p
  <2>2. FormedStream(<<Chargebee!Make("credit_note.created", n1, c1, at, p)>>)
    BY <2>1, BillMade DEF NoteTypes
  <2> QED
    BY <1>1, <2>2 DEF Chargebee!NoteCreated, p
<1>4. FormedStream(Stripe!NoteVoided(cn, at)) /\ FormedStream(Chargebee!NoteVoided(cn, at))
  BY <1>1, BillMade DEF Stripe!NoteVoided, Chargebee!NoteVoided, NoteTypes
<1> QED
  BY <1>2, <1>3, <1>4 DEF Chargebee!NoteUpdated

-----------------------------------------------------------------------------
(* What a turn makes of the provider's objects *)

\* A new subscription of connector src, at n.
SubIn(status, src, n) ==
  LET inTrial == status \in {"trialing", "in_trial"}
  IN  [id |-> s1, customer |-> c1, plan |-> "monthly", status |-> status,
       cur |-> Cur, items |-> ItemsIn("monthly", src), mrr |-> MonthlyWorth("monthly"),
       paused |-> FALSE, atEnd |-> FALSE, createdAt |-> n, itemAt |-> n,
       trialStart |-> IF inTrial THEN n ELSE Null,
       trialEnd |-> IF inTrial THEN n + 2 ELSE Null,
       canceledAt |-> Null, endedAt |-> Null]

\* Stripe's subscription a becomes sub, at n ...
StripeChange(a, sub, n) ==
  \/ \E status \in StripeMoves(a.status) :
       sub = [a EXCEPT !.status = status,
                       !.trialEnd = IF a.status = "trialing" THEN n ELSE @]
  \/ /\ a.status \in StripeLive
     /\ \E p \in {"monthly", "yearly"} \ {a.plan} :
          sub = [a EXCEPT !.plan = p, !.items = ItemsIn(p, "stripe"),
                          !.mrr = MonthlyWorth(p), !.itemAt = n]
  \/ a.status \in StripeLive /\ sub = [a EXCEPT !.paused = ~@]
  \/ /\ a.status \in StripeLive
     /\ sub = [a EXCEPT !.atEnd = ~@, !.canceledAt = IF a.atEnd THEN Null ELSE n]

StripeEnd(a, sub, n) ==
  /\ a.status \in StripeLive \union {"unpaid", "paused"}
  /\ sub = [a EXCEPT !.status = "canceled", !.endedAt = n,
                     !.canceledAt = IF @ = Null THEN n ELSE @]

\* ... as Chargebee's does, and the webhook's events.
BecomeAt(a, to, n) ==
  [a EXCEPT !.status = to, !.canceledAt = IF to = "cancelled" THEN n ELSE Null]

ChargebeeChange(a, sub, n, events) ==
  \/ /\ a.status \in {"in_trial", "cancelled"} /\ sub = BecomeAt(a, "active", n)
     /\ events = Chargebee!SubActivated(a, sub, n)
  \/ /\ a.status = "active" /\ sub = BecomeAt(a, "non_renewing", n)
     /\ events = Chargebee!SubChanged(a, sub, n)
  \/ /\ a.status = "active" /\ sub = BecomeAt(a, "paused", n)
     /\ events = Chargebee!SubPaused(sub, n)
  \/ /\ a.status = "paused" /\ sub = BecomeAt(a, "active", n)
     /\ events = Chargebee!SubResumed(sub, n)
  \/ /\ a.status \in ChargebeeLive /\ sub = BecomeAt(a, "cancelled", n)
     /\ events = Chargebee!SubCancelled(sub, n)
  \/ /\ a.status \in ChargebeeLive \union {"paused", "cancelled"}
     /\ sub = BecomeAt(a, "deleted", n)
     /\ events = Chargebee!SubDeleted(sub, n)
  \/ /\ a.status \in ChargebeeLive
     /\ \E p \in {"monthly", "yearly"} \ {a.plan} :
          sub = [a EXCEPT !.plan = p, !.items = ItemsIn(p, "chargebee"),
                          !.mrr = MonthlyWorth(p)]
     /\ events = Chargebee!SubChanged(a, sub, n)

SubTurned(a, sub, src, n, events) ==
  \/ /\ src = "stripe" /\ a = NoRow /\ events = Stripe!SubCreated(sub)
     /\ \E status \in {"trialing", "active", "incomplete"} : sub = SubIn(status, src, n)
  \/ /\ src = "stripe" /\ a # NoRow /\ StripeChange(a, sub, n)
     /\ events = Stripe!SubUpdated(a, sub, n)
  \/ /\ src = "stripe" /\ a # NoRow /\ StripeEnd(a, sub, n)
     /\ events = Stripe!SubDeleted(sub, n)
  \/ /\ src = "chargebee" /\ a = NoRow /\ events = Chargebee!SubCreated(sub, n)
     /\ \E status \in {"in_trial", "active"} : sub = SubIn(status, src, n)
  \/ src = "chargebee" /\ a # NoRow /\ ChargebeeChange(a, sub, n, events)

\* The invoice.
InvoiceIn(src, n) ==
  [id |-> i1, customer |-> c1, sub |-> Null, total |-> 2, cur |-> Cur,
   status |-> IF src = "stripe" THEN "open" ELSE "payment_due",
   lines |-> LineObjs, createdAt |-> n, paidAt |-> Null, voidedAt |-> Null]

Settled(a, status, src, n) ==
  [a EXCEPT !.status = IF status = "void" /\ src = "chargebee" THEN "voided" ELSE status,
            !.paidAt = IF status = "paid" THEN n ELSE Null,
            !.voidedAt = IF status = "void" THEN n ELSE Null]

InvoiceTurned(a, inv, src, n, events) ==
  \/ /\ a = NoRow /\ inv = InvoiceIn(src, n)
     /\ events = IF src = "stripe" THEN Stripe!InvoiceCreated(inv)
                 ELSE Chargebee!InvoiceGenerated(inv, n)
  \/ /\ a # NoRow /\ a.status \in {"open", "payment_due"}
     /\ \/ /\ src = "chargebee" /\ events = Chargebee!InvoiceUpdated(inv, n)
           /\ \E status \in {"paid", "void"} : inv = Settled(a, status, src, n)
        \/ /\ src = "stripe" /\ inv = Settled(a, "paid", src, n)
           /\ events = Stripe!InvoicePaid(inv, n)
        \/ /\ src = "stripe" /\ inv = Settled(a, "void", src, n)
           /\ events = Stripe!InvoiceVoided(inv, n)
        \/ /\ src = "stripe" /\ inv = Settled(a, "uncollectible", src, n)
           /\ events = Stripe!InvoiceUncollectible(inv, n)

\* The payment.
PaymentTurned(a, pi, src, n, events) ==
  \/ \E status \in {"succeeded", "failed"} :
       LET type == IF status = "failed" THEN "payment.failed" ELSE "payment.succeeded"
       IN  /\ pi = PaymentObj(status, n)
           /\ events = IF src = "stripe" THEN Stripe!Payment(type, pi, n)
                       ELSE Chargebee!Payment(type, pi, n)
  \/ /\ a # NoRow /\ pi = [a EXCEPT !.status = "refunded"]
     /\ events = IF src = "stripe" THEN Stripe!ChargeRefunded("charge", a, n)
                 ELSE Chargebee!Refunded("refund", a, n)

\* The credit note.
NoteIn(src) ==
  [id |-> n1, customer |-> c1, invoice |-> i1,
   status |-> IF src = "stripe" THEN "issued" ELSE "refund_due",
   total |-> 1, cur |-> Cur, voidedAt |-> Null]

NoteTurned(a, cn, src, n, events) ==
  \/ /\ a = NoRow /\ cn = NoteIn(src)
     /\ events = IF src = "stripe" THEN Stripe!NoteCreated(cn, n)
                 ELSE Chargebee!NoteCreated(cn, n)
  \/ /\ a # NoRow
     /\ cn = [a EXCEPT !.status = IF src = "stripe" THEN "void" ELSE "voided",
                       !.voidedAt = n]
     /\ events = IF src = "stripe" THEN Stripe!NoteVoided(cn, n)
                 ELSE Chargebee!NoteUpdated(cn, n)

\* The coupon.
CouponTurned(a, c, src, n, events) ==
  /\ c = [a EXCEPT !.valid = FALSE]
  /\ events = IF src = "stripe" THEN Stripe!Coupon("coupon.deleted", c, n)
              ELSE Chargebee!Coupon("coupon.deleted", c, n)

\* Nothing that is billed: the product, a price, the customer.
OtherTypes == ProductTypes \union PlanTypes \union CustomerTypes
Others(events) == FormedStream(events) /\ \A e \in Range(events) : e.type \in OtherTypes

\* One of the objects a becomes another, and the rest stays.
Rest(a, o, x) ==
  \A y \in {"coupon", "sub", "invoice", "payment", "note"} \ {x} : o[y] = a[y]

Turned(a, o, src, n, events) ==
  /\ o = [product |-> o.product, price |-> o.price, customer |-> o.customer,
          coupon |-> o.coupon, sub |-> o.sub, invoice |-> o.invoice,
          payment |-> o.payment, note |-> o.note]
  /\ \/ Rest(a, o, "sub") /\ SubTurned(a.sub, o.sub, src, n, events)
     \/ Rest(a, o, "invoice") /\ InvoiceTurned(a.invoice, o.invoice, src, n, events)
     \/ Rest(a, o, "payment") /\ PaymentTurned(a.payment, o.payment, src, n, events)
     \/ /\ Rest(a, o, "note") /\ a.invoice # NoRow
        /\ NoteTurned(a.note, o.note, src, n, events)
     \/ Rest(a, o, "coupon") /\ CouponTurned(a.coupon, o.coupon, src, n, events)
     \/ Rest(a, o, "other") /\ Others(events)

\* The turns of the bills among them.
BillTurned(a, o, src, n, events) ==
  \/ Rest(a, o, "invoice") /\ InvoiceTurned(a.invoice, o.invoice, src, n, events)
  \/ Rest(a, o, "payment") /\ PaymentTurned(a.payment, o.payment, src, n, events)
  \/ Rest(a, o, "note") /\ a.invoice # NoRow /\ NoteTurned(a.note, o.note, src, n, events)
  \/ Rest(a, o, "coupon") /\ CouponTurned(a.coupon, o.coupon, src, n, events)

-----------------------------------------------------------------------------
(* A turn keeps the shapes, and its events are formed *)

\* The plan of a subscription is one it has.
LEMMA PlanShape ==
  ASSUME NEW p \in {"monthly", "yearly"}, NEW src
  PROVE  /\ ItemsIn(p, src) \in {ItemsIn("monthly", src), ItemsIn("yearly", src)}
         /\ MonthlyWorth(p) \in 0..3
BY Worth

\* A new subscription has its shape.
LEMMA NewSubShape ==
  ASSUME NEW n \in Nat, NEW src, NEW status,
         \/ src = "stripe" /\ status \in {"trialing", "active", "incomplete"}
         \/ src = "chargebee" /\ status \in {"in_trial", "active"}
  PROVE  SubShape(SubIn(status, src, n), src, n)
<1> DEFINE sub == SubIn(status, src, n)
<1>1. /\ sub = [id |-> s1, customer |-> c1, plan |-> "monthly", status |-> status,
               cur |-> Cur, items |-> ItemsIn("monthly", src),
               mrr |-> MonthlyWorth("monthly"), paused |-> FALSE, atEnd |-> FALSE,
               createdAt |-> n, itemAt |-> n, trialStart |-> sub.trialStart,
               trialEnd |-> sub.trialEnd, canceledAt |-> Null, endedAt |-> Null]
      /\ sub.trialStart \in Nat \union {Null} /\ sub.trialEnd \in Nat \union {Null}
      /\ status = "trialing" => sub.trialEnd # Null
      /\ src = "stripe" /\ status # "trialing" => sub.trialEnd = Null
  BY BillingAssumption DEF SubIn
<1> HIDE DEF sub
<1> DEFINE items == ItemsIn("monthly", src)
           worth == MonthlyWorth("monthly")
<1>2. items \in {ItemsIn("monthly", src), ItemsIn("yearly", src)} /\ worth \in 0..3
  BY PlanShape
<1>3. sub.plan = "monthly" /\ sub.items = items /\ sub.mrr = worth
  BY <1>1
<1> HIDE DEF items, worth
<1>4. sub \in [id : {s1}, customer : {c1}, plan : {"monthly", "yearly"},
              status : StripeStatuses \union ChargebeeStatuses, cur : {Cur},
              items : {ItemsIn("monthly", src), ItemsIn("yearly", src)},
              mrr : 0..3, paused : BOOLEAN, atEnd : BOOLEAN,
              createdAt : 0..n, itemAt : 0..n,
              trialStart : Nat \union {Null}, trialEnd : Nat \union {Null},
              canceledAt : 0..n \union {Null}, endedAt : 0..n \union {Null}]
  <2>1. PICK ts, te :
          /\ sub = [id |-> s1, customer |-> c1, plan |-> "monthly", status |-> status,
                    cur |-> Cur, items |-> items, mrr |-> worth, paused |-> FALSE,
                    atEnd |-> FALSE, createdAt |-> n, itemAt |-> n, trialStart |-> ts,
                    trialEnd |-> te, canceledAt |-> Null, endedAt |-> Null]
          /\ ts \in Nat \union {Null} /\ te \in Nat \union {Null}
    BY <1>1 DEF items, worth
  <2> DEFINE words == StripeStatuses \union ChargebeeStatuses
             goods == {ItemsIn("monthly", src), ItemsIn("yearly", src)}
             early == 0..n
             dates == 0..n \union {Null}
             ends == Nat \union {Null}
  <2>2. /\ n \in early /\ Null \in dates /\ items \in goods /\ status \in words
        /\ ts \in ends /\ te \in ends
    BY <1>2, <2>1 DEF StripeStatuses, ChargebeeStatuses
  <2> HIDE DEF words, goods, early, dates, ends
  <2>3. sub \in [id : {s1}, customer : {c1}, plan : {"monthly", "yearly"},
                 status : words, cur : {Cur}, items : goods,
                 mrr : 0..3, paused : BOOLEAN, atEnd : BOOLEAN,
                 createdAt : early, itemAt : early, trialStart : ends, trialEnd : ends,
                 canceledAt : dates, endedAt : dates]
    BY <1>2, <2>1, <2>2
  <2> QED
    BY <2>3 DEF words, goods, early, dates, ends
<1>5. sub.status = status /\ sub.atEnd = FALSE /\ sub.endedAt = Null
  BY <1>1
<1> QED
  BY <1>1, <1>3, <1>4, <1>5 DEF SubShape, StripeStatuses, ChargebeeStatuses, items, worth, sub

\* A Stripe subscription's change keeps its shape, and does not end it.
LEMMA StripeChangeShape ==
  ASSUME NEW n \in Nat, NEW a, SubShape(a, "stripe", n), NEW sub, StripeChange(a, sub, n)
  PROVE  SubShape(sub, "stripe", n) /\ sub.status # "canceled"
<1> DEFINE words == StripeStatuses \union ChargebeeStatuses
           goods == {ItemsIn("monthly", "stripe"), ItemsIn("yearly", "stripe")}
           early == 0..n
           dates == 0..n \union {Null}
           ends == Nat \union {Null}
           All == [id : {s1}, customer : {c1}, plan : {"monthly", "yearly"},
                   status : words, cur : {Cur}, items : goods,
                   mrr : 0..3, paused : BOOLEAN, atEnd : BOOLEAN,
                   createdAt : early, itemAt : early, trialStart : ends, trialEnd : ends,
                   canceledAt : dates, endedAt : dates]
<1>1. /\ n \in early /\ n \in dates /\ n \in ends /\ Null \in dates /\ Null \in ends
      /\ n # Null
  BY BillingAssumption
<1>2. a \in All
  BY DEF SubShape
<1>3. ASSUME NEW x, x \in All,
             x.status \in StripeStatuses, x.items = ItemsIn(x.plan, "stripe"),
             x.mrr = MonthlyWorth(x.plan),
             x.status = "trialing" => x.trialEnd # Null,
             x.status \notin {"trialing", "canceled"} => x.trialEnd \in dates,
             x.atEnd => x.canceledAt # Null,
             x.status = "canceled" => x.endedAt # Null,
             x.status # "canceled" => x.endedAt = Null
      PROVE  SubShape(x, "stripe", n)
  BY <1>3 DEF SubShape
<1>4. /\ a.status \in StripeStatuses /\ a.items = ItemsIn(a.plan, "stripe")
      /\ a.mrr = MonthlyWorth(a.plan)
      /\ a.status = "trialing" => a.trialEnd # Null
      /\ a.status \notin {"trialing", "canceled"} => a.trialEnd \in dates
      /\ a.atEnd => a.canceledAt # Null
      /\ a.status # "canceled" => a.endedAt = Null
  BY DEF SubShape
<1>5. CASE \E status \in StripeMoves(a.status) :
             sub = [a EXCEPT !.status = status,
                             !.trialEnd = IF a.status = "trialing" THEN n ELSE @]
  <2>1. PICK status \in StripeMoves(a.status) :
             sub = [a EXCEPT !.status = status,
                             !.trialEnd = IF a.status = "trialing" THEN n ELSE @]
    BY <1>5
  <2>2. /\ status \in StripeStatuses \ {"trialing", "canceled"}
        /\ a.status \notin {"canceled"}
    BY DEF StripeMoves, StripeStatuses
  <2>3. PICK end : end = (IF a.status = "trialing" THEN n ELSE a.trialEnd) /\ end \in dates /\ end \in ends
    BY <1>1, <1>2, <1>4, <2>2
  <2>4. sub = [a EXCEPT !.status = status, !.trialEnd = end]
    BY <2>1, <2>3
  <2>5. status \in words
    BY <2>2
  <2> HIDE DEF words, goods, early, dates, ends
  <2>6. /\ sub \in All /\ sub.status = status /\ sub.trialEnd = end /\ sub.items = a.items
        /\ sub.plan = a.plan /\ sub.mrr = a.mrr /\ sub.canceledAt = a.canceledAt /\ sub.endedAt = a.endedAt /\ sub.atEnd = a.atEnd
    BY <1>2, <2>3, <2>4, <2>5
  <2> HIDE DEF All
  <2> QED
    BY <1>3, <1>4, <2>2, <2>3, <2>6
<1>6. CASE a.status \in StripeLive /\ sub = [a EXCEPT !.paused = ~@]
  BY <1>2, <1>3, <1>4, <1>6 DEF StripeLive
<1>7. CASE /\ a.status \in StripeLive
           /\ \E p \in {"monthly", "yearly"} \ {a.plan} :
                sub = [a EXCEPT !.plan = p, !.items = ItemsIn(p, "stripe"),
                                !.mrr = MonthlyWorth(p), !.itemAt = n]
  <2>1. PICK p \in {"monthly", "yearly"} :
              sub = [a EXCEPT !.plan = p, !.items = ItemsIn(p, "stripe"),
                              !.mrr = MonthlyWorth(p), !.itemAt = n]
    BY <1>7
  <2>2. ItemsIn(p, "stripe") \in goods /\ MonthlyWorth(p) \in 0..3
    BY PlanShape
  <2>3. PICK its, worth : its = ItemsIn(p, "stripe") /\ worth = MonthlyWorth(p)
    OBVIOUS
  <2>4. sub = [a EXCEPT !.plan = p, !.items = its, !.mrr = worth, !.itemAt = n]
    BY <2>1, <2>3
  <2>5. its \in goods /\ worth \in 0..3
    BY <2>2, <2>3
  <2> HIDE DEF words, goods, early, dates, ends
  <2>6. /\ sub \in All /\ sub.status = a.status /\ sub.trialEnd = a.trialEnd
        /\ sub.items = its /\ sub.plan = p /\ sub.mrr = worth
        /\ sub.canceledAt = a.canceledAt /\ sub.endedAt = a.endedAt
        /\ sub.atEnd = a.atEnd
    BY <1>1, <1>2, <2>4, <2>5
  <2> HIDE DEF All
  <2> QED
    BY <1>3, <1>4, <1>7, <2>3, <2>6 DEF StripeLive
<1>8. CASE /\ a.status \in StripeLive
           /\ sub = [a EXCEPT !.atEnd = ~@, !.canceledAt = IF a.atEnd THEN Null ELSE n]
  BY <1>1, <1>2, <1>3, <1>4, <1>8 DEF StripeLive
<1> QED
  BY <1>5, <1>6, <1>7, <1>8 DEF StripeChange

\* Its end is that of a canceled one.
LEMMA StripeEndShape ==
  ASSUME NEW n \in Nat, NEW a, SubShape(a, "stripe", n), NEW sub, StripeEnd(a, sub, n)
  PROVE  SubShape(sub, "stripe", n) /\ sub.status = "canceled"
<1> DEFINE words == StripeStatuses \union ChargebeeStatuses
           goods == {ItemsIn("monthly", "stripe"), ItemsIn("yearly", "stripe")}
           early == 0..n
           dates == 0..n \union {Null}
           ends == Nat \union {Null}
           All == [id : {s1}, customer : {c1}, plan : {"monthly", "yearly"},
                   status : words, cur : {Cur}, items : goods,
                   mrr : 0..3, paused : BOOLEAN, atEnd : BOOLEAN,
                   createdAt : early, itemAt : early, trialStart : ends, trialEnd : ends,
                   canceledAt : dates, endedAt : dates]
<1>1. PICK when : /\ when = (IF a.canceledAt = Null THEN n ELSE a.canceledAt)
                  /\ when \in dates /\ when # Null
  BY BillingAssumption DEF SubShape
<1>2. sub = [a EXCEPT !.status = "canceled", !.endedAt = n, !.canceledAt = when]
  BY <1>1 DEF StripeEnd
<1>3. n \in dates /\ n # Null /\ "canceled" \in words /\ "canceled" \in StripeStatuses
  BY BillingAssumption DEF StripeStatuses
<1>4. /\ a \in All /\ a.items = ItemsIn(a.plan, "stripe")
      /\ a.mrr = MonthlyWorth(a.plan)
  BY DEF SubShape
<1> HIDE DEF words, goods, early, dates, ends
<1>5. /\ sub \in All /\ sub.status = "canceled" /\ sub.items = a.items
      /\ sub.plan = a.plan /\ sub.mrr = a.mrr /\ sub.endedAt = n
      /\ sub.canceledAt = when
  BY <1>1, <1>2, <1>3, <1>4
<1> QED
  BY <1>1, <1>3, <1>4, <1>5 DEF SubShape, words, goods, early, dates, ends

\* A Chargebee subscription has its shape whatever becomes of it.
LEMMA ChargebeeShape ==
  ASSUME NEW n \in Nat, NEW a, SubShape(a, "chargebee", n)
  PROVE  /\ \A to \in ChargebeeStatuses :
              SubShape(BecomeAt(a, to, n), "chargebee", n)
         /\ BecomeAt(a, "cancelled", n).canceledAt # Null
         /\ \A p \in {"monthly", "yearly"} :
              SubShape([a EXCEPT !.plan = p, !.items = ItemsIn(p, "chargebee"),
                                 !.mrr = MonthlyWorth(p)], "chargebee", n)
<1> DEFINE words == StripeStatuses \union ChargebeeStatuses
           goods == {ItemsIn("monthly", "chargebee"), ItemsIn("yearly", "chargebee")}
           early == 0..n
           dates == 0..n \union {Null}
           ends == Nat \union {Null}
           All == [id : {s1}, customer : {c1}, plan : {"monthly", "yearly"},
                   status : words, cur : {Cur}, items : goods,
                   mrr : 0..3, paused : BOOLEAN, atEnd : BOOLEAN,
                   createdAt : early, itemAt : early, trialStart : ends, trialEnd : ends,
                   canceledAt : dates, endedAt : dates]
<1>1. /\ a \in All /\ a.status \in ChargebeeStatuses
      /\ a.items = ItemsIn(a.plan, "chargebee") /\ a.mrr = MonthlyWorth(a.plan)
      /\ a.endedAt = Null
  BY DEF SubShape, ChargebeeStatuses
<1>2. n \in dates /\ Null \in dates /\ n # Null
  BY BillingAssumption
<1>3. ASSUME NEW x, x \in All, x.status \in ChargebeeStatuses, x.endedAt = Null,
             x.items = ItemsIn(x.plan, "chargebee"), x.mrr = MonthlyWorth(x.plan)
      PROVE  SubShape(x, "chargebee", n)
  BY <1>3 DEF SubShape, ChargebeeStatuses
<1>4. ASSUME NEW to \in ChargebeeStatuses
      PROVE  /\ SubShape(BecomeAt(a, to, n), "chargebee", n)
             /\ to = "cancelled" => BecomeAt(a, to, n).canceledAt # Null
  BY <1>1, <1>2, <1>3 DEF BecomeAt
<1>5. ASSUME NEW p \in {"monthly", "yearly"}
      PROVE  SubShape([a EXCEPT !.plan = p, !.items = ItemsIn(p, "chargebee"),
                                !.mrr = MonthlyWorth(p)], "chargebee", n)
  BY <1>1, <1>3, PlanShape
<1> QED
  BY <1>4, <1>5 DEF ChargebeeStatuses

\* The invoice keeps its shape, and its events are formed.
LEMMA InvoiceTurnedFormed ==
  ASSUME NEW n \in Times, NEW src \in {"stripe", "chargebee"}, NEW a, NEW inv, NEW events,
         a # NoRow => InvoiceShape(a, src, n), InvoiceTurned(a, inv, src, n, events)
  PROVE  InvoiceShape(inv, src, n) /\ FormedStream(events)
<1>1. n \in Nat /\ n # Null /\ n \in 0..n
  BY BillingAssumption DEF Times
<1>2. InvoiceShape(inv, src, n)
  <2>1. CASE inv = InvoiceIn(src, n)
    <3> DEFINE early == 0..n
               word == IF src = "stripe" THEN "open" ELSE "payment_due"
               words == {"open", "paid", "void", "uncollectible", "payment_due", "voided"}
    <3>1. n \in early /\ word \in {"open", "payment_due"} /\ word \in words
      BY <1>1
    <3>2. inv = [id |-> i1, customer |-> c1, sub |-> Null, total |-> 2, cur |-> Cur,
                 status |-> word, lines |-> LineObjs, createdAt |-> n,
                 paidAt |-> Null, voidedAt |-> Null]
      BY <2>1 DEF InvoiceIn
    <3> HIDE DEF early, words
    <3>3. /\ inv \in [id : {i1}, customer : {c1}, sub : {Null}, total : {2}, cur : {Cur},
                      status : words, lines : {LineObjs}, createdAt : early,
                      paidAt : early \union {Null}, voidedAt : early \union {Null}]
          /\ inv.status = word /\ inv.paidAt = Null /\ inv.voidedAt = Null
      BY <3>1, <3>2
    <3> QED
      BY <3>3 DEF InvoiceShape, words, early
  <2>2. CASE \E status \in {"paid", "void", "uncollectible"} :
               /\ inv = Settled(a, status, src, n) /\ a # NoRow
               /\ status = "uncollectible" => src = "stripe"
    <3>1. PICK status \in {"paid", "void", "uncollectible"} :
               /\ inv = Settled(a, status, src, n) /\ a # NoRow
               /\ status = "uncollectible" => src = "stripe"
      BY <2>2
    <3> DEFINE early == 0..n
               words == {"open", "paid", "void", "uncollectible", "payment_due", "voided"}
    <3>2. PICK word, paid, voided :
            /\ word = (IF status = "void" /\ src = "chargebee" THEN "voided" ELSE status)
            /\ paid = (IF status = "paid" THEN n ELSE Null)
            /\ voided = (IF status = "void" THEN n ELSE Null)
      OBVIOUS
    <3>3. /\ word \in words /\ paid \in early \union {Null} /\ voided \in early \union {Null}
          /\ word \in IF src = "stripe" THEN {"open", "paid", "void", "uncollectible"}
                       ELSE {"payment_due", "paid", "voided"}
          /\ word = "paid" <=> paid # Null
          /\ word \in {"void", "voided"} <=> voided # Null
      BY <1>1, <3>1, <3>2
    <3>4. inv = [a EXCEPT !.status = word, !.paidAt = paid, !.voidedAt = voided]
      BY <3>1, <3>2 DEF Settled
    <3>5. a \in [id : {i1}, customer : {c1}, sub : {Null}, total : {2}, cur : {Cur},
                 status : words, lines : {LineObjs}, createdAt : early,
                 paidAt : early \union {Null}, voidedAt : early \union {Null}]
      BY <3>1 DEF InvoiceShape
    <3> HIDE DEF early, words
    <3>6. /\ inv \in [id : {i1}, customer : {c1}, sub : {Null}, total : {2}, cur : {Cur},
                      status : words, lines : {LineObjs}, createdAt : early,
                      paidAt : early \union {Null}, voidedAt : early \union {Null}]
          /\ inv.status = word /\ inv.paidAt = paid /\ inv.voidedAt = voided
      BY <3>3, <3>4, <3>5
    <3> QED
      BY <3>3, <3>6 DEF InvoiceShape, words, early
  <2> QED
    BY <2>1, <2>2 DEF InvoiceTurned
<1>3. CASE src = "stripe"
  BY <1>2, <1>3, StripeInvoiceFormed DEF InvoiceTurned
<1>4. CASE src = "chargebee"
  BY <1>2, <1>4, ChargebeeInvoiceFormed DEF InvoiceTurned
<1> QED
  BY <1>3, <1>4

\* So do the payment ...
LEMMA PaymentTurnedFormed ==
  ASSUME NEW n \in Nat, NEW src \in {"stripe", "chargebee"}, NEW a, NEW pi, NEW events,
         a # NoRow => PaymentShape(a), PaymentTurned(a, pi, src, n, events)
  PROVE  PaymentShape(pi) /\ FormedStream(events)
BY PaymentFormed DEF PaymentObj, PaymentShape, PaymentTurned

\* ... the credit note ...
LEMMA NoteTurnedFormed ==
  ASSUME NEW n \in Nat, NEW src \in {"stripe", "chargebee"}, NEW a, NEW cn, NEW events,
         a # NoRow => NoteShape(a, n), NoteTurned(a, cn, src, n, events)
  PROVE  NoteShape(cn, n) /\ FormedStream(events)
<1>1. n # Null /\ n \in 0..n
  BY BillingAssumption
<1>2. NoteShape(cn, n) /\ (src = "stripe" => cn.status \in {"issued", "void"})
  <2> DEFINE early == 0..n
             words == {"issued", "refund_due", "void", "voided"}
  <2>1. CASE cn = NoteIn(src)
    <3> DEFINE word == IF src = "stripe" THEN "issued" ELSE "refund_due"
    <3>1. word \in {"issued", "refund_due"} /\ word \in words /\ (src = "stripe" => word = "issued")
      OBVIOUS
    <3>2. cn = [id |-> n1, customer |-> c1, invoice |-> i1, status |-> word,
                total |-> 1, cur |-> Cur, voidedAt |-> Null]
      BY <2>1 DEF NoteIn
    <3> HIDE DEF early, words, word
    <3>3. /\ cn \in [id : {n1}, customer : {c1}, invoice : {i1}, status : words,
                     total : {1}, cur : {Cur}, voidedAt : early \union {Null}]
          /\ cn.status = word /\ cn.voidedAt = Null
      BY <3>1, <3>2
    <3> QED
      BY <3>1, <3>3 DEF NoteShape, early, words
  <2>2. CASE /\ a # NoRow
             /\ cn = [a EXCEPT !.status = IF src = "stripe" THEN "void" ELSE "voided",
                               !.voidedAt = n]
    <3> DEFINE word == IF src = "stripe" THEN "void" ELSE "voided"
    <3>1. word \in {"void", "voided"} /\ word \in words /\ (src = "stripe" => word = "void")
      OBVIOUS
    <3>2. cn = [a EXCEPT !.status = word, !.voidedAt = n]
      BY <2>2
    <3>3. a \in [id : {n1}, customer : {c1}, invoice : {i1}, status : words,
                 total : {1}, cur : {Cur}, voidedAt : early \union {Null}]
      BY <2>2 DEF NoteShape
    <3>4. n \in early
      BY <1>1
    <3> HIDE DEF early, words, word
    <3>5. /\ cn \in [id : {n1}, customer : {c1}, invoice : {i1}, status : words,
                     total : {1}, cur : {Cur}, voidedAt : early \union {Null}]
          /\ cn.status = word /\ cn.voidedAt = n
      BY <3>1, <3>2, <3>3, <3>4
    <3> QED
      BY <1>1, <3>1, <3>5 DEF NoteShape, early, words
  <2> QED
    BY <2>1, <2>2 DEF NoteTurned
<1>3. /\ src = "stripe" => FormedStream(Stripe!NoteCreated(cn, n))
      /\ FormedStream(Chargebee!NoteCreated(cn, n))
      /\ FormedStream(Stripe!NoteVoided(cn, n))
      /\ FormedStream(Chargebee!NoteUpdated(cn, n))
  BY <1>2, NoteFormed
<1> QED
  BY <1>2, <1>3 DEF NoteTurned

\* ... the coupon ...
LEMMA CouponTurnedFormed ==
  ASSUME NEW n \in Nat, NEW src \in {"stripe", "chargebee"}, NEW a, NEW c, NEW events,
         CouponShape(a), CouponTurned(a, c, src, n, events)
  PROVE  CouponShape(c) /\ FormedStream(events)
BY CouponFormed DEF CouponShape, CouponTurned, CouponTypes

\* ... and the subscription.
LEMMA SubTurnedFormed ==
  ASSUME NEW n \in Times, NEW src \in {"stripe", "chargebee"}, NEW a, NEW sub, NEW events,
         a # NoRow => SubShape(a, src, n), SubTurned(a, sub, src, n, events)
  PROVE  SubShape(sub, src, n) /\ FormedStream(events)
<1>1. n \in Nat
  BY DEF Times
<1>2. CASE src = "stripe"
  BY <1>1, <1>2, NewSubShape, StripeCreatedFormed, StripeChangeShape,
     StripeUpdatedFormed, StripeEndShape, StripeDeletedFormed
     DEF SubTurned
<1>3. CASE src = "chargebee"
  <2>1. CASE a = NoRow
    BY <1>1, <1>3, <2>1, NewSubShape, ChargebeeCreatedFormed DEF SubTurned
  <2>2. CASE a # NoRow /\ ChargebeeChange(a, sub, n, events)
    <3>1. SubShape(a, "chargebee", n)
      BY <1>3, <2>2
    <3>2. ASSUME NEW x, SubShape(x, "chargebee", n)
          PROVE  /\ FormedStream(Chargebee!SubActivated(a, x, n))
                 /\ FormedStream(Chargebee!SubChanged(a, x, n))
                 /\ x.canceledAt # Null => FormedStream(Chargebee!SubCancelled(x, n))
                 /\ FormedStream(Chargebee!SubPaused(x, n))
                 /\ FormedStream(Chargebee!SubResumed(x, n))
                 /\ FormedStream(Chargebee!SubDeleted(x, n))
      BY <3>2, ChargebeeOthersFormed
    <3>3. /\ \A to \in ChargebeeStatuses : SubShape(BecomeAt(a, to, n), "chargebee", n)
          /\ BecomeAt(a, "cancelled", n).canceledAt # Null
          /\ \A p \in {"monthly", "yearly"} :
               SubShape([a EXCEPT !.plan = p, !.items = ItemsIn(p, "chargebee"),
                                  !.mrr = MonthlyWorth(p)], "chargebee", n)
      BY <1>1, <3>1, ChargebeeShape
    <3>4. {"active", "non_renewing", "paused", "cancelled", "deleted"} \subseteq ChargebeeStatuses
      BY DEF ChargebeeStatuses
    <3>5. SubShape(sub, "chargebee", n)
      BY <2>2, <3>3, <3>4 DEF ChargebeeChange
    <3>6. events = Chargebee!SubCancelled(sub, n) => sub.canceledAt # Null \/ FormedStream(events)
      BY <2>2, <3>2, <3>3, <3>5 DEF ChargebeeChange
    <3>7. \/ events = Chargebee!SubActivated(a, sub, n)
          \/ events = Chargebee!SubChanged(a, sub, n)
          \/ events = Chargebee!SubPaused(sub, n)
          \/ events = Chargebee!SubResumed(sub, n)
          \/ events = Chargebee!SubDeleted(sub, n)
          \/ events = Chargebee!SubCancelled(sub, n)
      BY <2>2, Zenon DEF ChargebeeChange
    <3> QED
      BY <1>3, <3>2, <3>5, <3>6, <3>7
  <2> QED
    BY <1>3, <2>1, <2>2 DEF SubTurned
<1> QED
  BY <1>2, <1>3

\* A turn keeps every shape, and what it reports is formed.
LEMMA TurnedFormed ==
  ASSUME NEW n \in Nat, n + 1 \in Times, NEW src \in {"stripe", "chargebee"},
         NEW a, NEW o, NEW events,
         Shaped(a, src, n), Turned(a, o, src, n + 1, events)
  PROVE  Shaped(o, src, n + 1) /\ FormedStream(events)
<1> DEFINE m == n + 1
<1>1. m \in Nat /\ m \in Times
  OBVIOUS
<1>2. /\ a.sub # NoRow => SubShape(a.sub, src, m)
      /\ a.invoice # NoRow => InvoiceShape(a.invoice, src, m)
      /\ a.payment # NoRow => PaymentShape(a.payment)
      /\ a.note # NoRow => NoteShape(a.note, m)
      /\ CouponShape(a.coupon)
  BY ShapesLater DEF Shaped
<1> HIDE DEF m
<1>3. o = [product |-> o.product, price |-> o.price, customer |-> o.customer,
           coupon |-> o.coupon, sub |-> o.sub, invoice |-> o.invoice,
           payment |-> o.payment, note |-> o.note]
  BY DEF Turned
<1> SUFFICES /\ o.sub # NoRow => SubShape(o.sub, src, m)
             /\ o.invoice # NoRow => InvoiceShape(o.invoice, src, m)
             /\ o.payment # NoRow => PaymentShape(o.payment)
             /\ o.note # NoRow => NoteShape(o.note, m)
             /\ CouponShape(o.coupon)
             /\ FormedStream(events)
  BY <1>3 DEF Shaped, m
<1>4. CASE Rest(a, o, "sub") /\ SubTurned(a.sub, o.sub, src, m, events)
  BY <1>1, <1>2, <1>4, SubTurnedFormed DEF Rest
<1>5. CASE Rest(a, o, "invoice") /\ InvoiceTurned(a.invoice, o.invoice, src, m, events)
  BY <1>1, <1>2, <1>5, InvoiceTurnedFormed DEF Rest
<1>6. CASE Rest(a, o, "payment") /\ PaymentTurned(a.payment, o.payment, src, m, events)
  BY <1>1, <1>2, <1>6, PaymentTurnedFormed DEF Rest
<1>7. CASE Rest(a, o, "note") /\ NoteTurned(a.note, o.note, src, m, events)
  BY <1>1, <1>2, <1>7, NoteTurnedFormed DEF Rest
<1>8. CASE Rest(a, o, "coupon") /\ CouponTurned(a.coupon, o.coupon, src, m, events)
  BY <1>1, <1>2, <1>8, CouponTurnedFormed DEF Rest
<1>9. CASE Rest(a, o, "other") /\ Others(events)
  BY <1>2, <1>9 DEF Rest, Others
<1> QED
  BY <1>4, <1>5, <1>6, <1>7, <1>8, <1>9 DEF Turned, m

-----------------------------------------------------------------------------
(* The provider's turns are those turns *)

\* One of the objects is replaced, and the rest stays.
LEMMA ObjectReplaced ==
  ASSUME NEW a, NEW src, NEW n, Shaped(a, src, n), NEW v, NEW o, NEW x,
         \/ x = "sub" /\ o = [a EXCEPT !.sub = v]
         \/ x = "invoice" /\ o = [a EXCEPT !.invoice = v]
         \/ x = "payment" /\ o = [a EXCEPT !.payment = v]
         \/ x = "note" /\ o = [a EXCEPT !.note = v]
         \/ x = "coupon" /\ o = [a EXCEPT !.coupon = v]
         \/ x = "product" /\ o = [a EXCEPT !.product = v]
         \/ x = "customer" /\ o = [a EXCEPT !.customer = v]
         \/ x = "price" /\ o = [a EXCEPT !.price = v]
  PROVE  /\ o = [product |-> o.product, price |-> o.price, customer |-> o.customer,
                 coupon |-> o.coupon, sub |-> o.sub, invoice |-> o.invoice,
                 payment |-> o.payment, note |-> o.note]
         /\ x = "sub" => o.sub = v /\ Rest(a, o, "sub")
         /\ x = "invoice" => o.invoice = v /\ Rest(a, o, "invoice")
         /\ x = "payment" => o.payment = v /\ Rest(a, o, "payment")
         /\ x = "note" => o.note = v /\ Rest(a, o, "note")
         /\ x = "coupon" => o.coupon = v /\ Rest(a, o, "coupon")
         /\ x \in {"product", "customer", "price"} => Rest(a, o, "other")
BY DEF Shaped, Rest

\* What objects the items and the plans are of.
LEMMA OfSource ==
  /\ \A p : ItemsOf(p) = ItemsIn(p, source)
  /\ \A status : SubObj(status, Now) = SubIn(status, source, turns + 1)
  /\ \A to : Become(to) = BecomeAt(obj.sub, to, turns + 1)
  /\ InvoiceObj(Now) = InvoiceIn(source, turns + 1)
  /\ NoteObj = NoteIn(source)
<1>1. \A p : ItemsOf(p) = ItemsIn(p, source)
  BY DEF ItemsOf, ItemsIn, ItemId
<1>2. \A status : SubObj(status, Now) = SubIn(status, source, turns + 1)
  BY <1>1 DEF SubObj, SubIn, Now
<1>3. \A to : Become(to) = BecomeAt(obj.sub, to, turns + 1)
  BY DEF Become, BecomeAt, Now
<1> QED
  BY <1>1, <1>2, <1>3 DEF InvoiceObj, InvoiceIn, NoteObj, NoteIn, Now

\* The turns of a subscription.
LEMMA SubTurnIs ==
  ASSUME NEW src, src = source, NEW n, Shaped(obj, src, n), NEW m, m = Now,
         NEW sub, NEW events, SubTurned(obj.sub, sub, src, m, events),
         Act([obj EXCEPT !.sub = sub], events)
  PROVE  \E o, s : Act(o, s) /\ Turned(obj, o, source, Now, s)
<1> DEFINE o == [obj EXCEPT !.sub = sub]
<1>1. /\ o = [product |-> o.product, price |-> o.price, customer |-> o.customer,
              coupon |-> o.coupon, sub |-> o.sub, invoice |-> o.invoice,
              payment |-> o.payment, note |-> o.note]
      /\ o.sub = sub /\ Rest(obj, o, "sub")
  BY ObjectReplaced
<1> HIDE DEF o
<1>2. Turned(obj, o, source, Now, events)
  BY <1>1 DEF Turned
<1> QED
  BY <1>2 DEF o

\* Stripe's ...
LEMMA StripeTurnIs ==
  ASSUME Shaped(obj, source, turns), source = "stripe",
         \/ \E status \in {"trialing", "active", "incomplete"} : StripeSubscribe(status)
         \/ \E status \in {"active", "past_due", "unpaid", "paused",
                           "incomplete_expired"} : StripeMove(status)
         \/ \E p \in {"monthly", "yearly"} : StripeSwitch(p)
         \/ StripeHold \/ StripeSchedule \/ StripeDelete
  PROVE  \E o, s : Act(o, s) /\ Turned(obj, o, source, Now, s)
<1>1. PICK sub, events :
        /\ Act([obj EXCEPT !.sub = sub], events)
        /\ SubTurned(obj.sub, sub, "stripe", Now, events)
  <2>1. CASE \E status \in {"trialing", "active", "incomplete"} : StripeSubscribe(status)
    <3>1. PICK status \in {"trialing", "active", "incomplete"} : StripeSubscribe(status)
      BY <2>1
    <3> DEFINE sub == SubObj(status, Now)
    <3>2. /\ obj.sub = NoRow
          /\ Act([obj EXCEPT !.sub = sub], Stripe!SubCreated(sub))
      BY <3>1 DEF StripeSubscribe
    <3>3. sub = SubIn(status, "stripe", Now)
      BY OfSource DEF Now
    <3> HIDE DEF sub
    <3>4. SubTurned(obj.sub, sub, "stripe", Now, Stripe!SubCreated(sub))
      BY <3>2, <3>3 DEF SubTurned
    <3> QED
      BY <3>2, <3>4
  <2>2. ASSUME NEW sub, StripeUpdate(sub), obj.sub # NoRow, StripeChange(obj.sub, sub, Now)
        PROVE  \E y, events : /\ Act([obj EXCEPT !.sub = y], events)
                              /\ SubTurned(obj.sub, y, "stripe", Now, events)
    BY <2>2 DEF SubTurned, StripeUpdate
  <2>3. CASE \E status \in {"active", "past_due", "unpaid", "paused",
                            "incomplete_expired"} : StripeMove(status)
    <3>1. PICK status : StripeMove(status)
      BY <2>3
    <3> DEFINE sub == [obj.sub EXCEPT !.status = status,
                         !.trialEnd = IF Status = "trialing" THEN Now ELSE @]
    <3>2. /\ StripeUpdate(sub) /\ obj.sub # NoRow /\ status \in StripeMoves(Status)
      BY <3>1, StatusIsThere DEF StripeMove
    <3>3. Status = obj.sub.status
      BY <3>2 DEF Status
    <3>4. StripeChange(obj.sub, sub, Now)
      BY <3>2, <3>3 DEF StripeChange
    <3> HIDE DEF sub
    <3> QED
      BY <2>2, <3>2, <3>4
  <2>4. CASE \E p \in {"monthly", "yearly"} : StripeSwitch(p)
    <3>1. PICK p \in {"monthly", "yearly"} : StripeSwitch(p)
      BY <2>4
    <3> DEFINE sub == [obj.sub EXCEPT !.plan = p, !.items = ItemsOf(p),
                         !.mrr = MonthlyWorth(p), !.itemAt = Now]
    <3>2. /\ StripeUpdate(sub) /\ obj.sub # NoRow /\ Status \in StripeLive /\ obj.sub.plan # p
      BY <3>1, StatusIsThere DEF StripeSwitch
    <3>3. Status = obj.sub.status /\ ItemsOf(p) = ItemsIn(p, "stripe")
      BY <3>2, OfSource DEF Status
    <3>4. sub = [obj.sub EXCEPT !.plan = p, !.items = ItemsIn(p, "stripe"),
                                !.mrr = MonthlyWorth(p), !.itemAt = Now]
      BY <3>3
    <3> HIDE DEF sub
    <3>5. StripeChange(obj.sub, sub, Now)
      BY <3>2, <3>3, <3>4 DEF StripeChange
    <3> QED
      BY <2>2, <3>2, <3>5
  <2>5. CASE StripeHold
    <3> DEFINE sub == [obj.sub EXCEPT !.paused = ~@]
    <3>1. /\ StripeUpdate(sub) /\ obj.sub # NoRow /\ Status \in StripeLive
      BY <2>5, StatusIsThere DEF StripeHold
    <3>2. StripeChange(obj.sub, sub, Now)
      BY <3>1 DEF Status, StripeChange
    <3> HIDE DEF sub
    <3> QED
      BY <2>2, <3>1, <3>2
  <2>6. CASE StripeSchedule
    <3> DEFINE sub == [obj.sub EXCEPT !.atEnd = ~@,
                         !.canceledAt = IF obj.sub.atEnd THEN Null ELSE Now]
    <3>1. /\ StripeUpdate(sub) /\ obj.sub # NoRow /\ Status \in StripeLive
      BY <2>6, StatusIsThere DEF StripeSchedule
    <3>2. StripeChange(obj.sub, sub, Now)
      BY <3>1 DEF Status, StripeChange
    <3> HIDE DEF sub
    <3> QED
      BY <2>2, <3>1, <3>2
  <2>7. CASE StripeDelete
    <3> DEFINE sub == [obj.sub EXCEPT !.status = "canceled", !.endedAt = Now,
                         !.canceledAt = IF @ = Null THEN Now ELSE @]
    <3>1. /\ Act([obj EXCEPT !.sub = sub], Stripe!SubDeleted(sub, Now))
          /\ obj.sub # NoRow /\ Status \in StripeLive \union {"unpaid", "paused"}
      BY <2>7, StatusIsThere DEF StripeDelete
    <3>2. StripeEnd(obj.sub, sub, Now)
      BY <3>1 DEF Status, StripeEnd
    <3> HIDE DEF sub
    <3>3. SubTurned(obj.sub, sub, "stripe", Now, Stripe!SubDeleted(sub, Now))
      BY <3>1, <3>2 DEF SubTurned
    <3> QED
      BY <3>1, <3>3
  <2> QED
    BY <2>1, <2>3, <2>4, <2>5, <2>6, <2>7
<1> QED
  BY <1>1, SubTurnIs

\* ... and Chargebee's.
LEMMA ChargebeeTurnIs ==
  ASSUME Shaped(obj, source, turns), source = "chargebee",
         \/ \E status \in {"in_trial", "active"} : ChargebeeSubscribe(status)
         \/ ChargebeeActivate \/ ChargebeeSchedule \/ ChargebeePause \/ ChargebeeResume
         \/ ChargebeeCancel \/ ChargebeeDelete
         \/ \E p \in {"monthly", "yearly"} : ChargebeeSwitch(p)
  PROVE  \E o, s : Act(o, s) /\ Turned(obj, o, source, Now, s)
<1>1. PICK sub, events :
        /\ Act([obj EXCEPT !.sub = sub], events)
        /\ SubTurned(obj.sub, sub, "chargebee", Now, events)
  <2>1. CASE \E status \in {"in_trial", "active"} : ChargebeeSubscribe(status)
    <3>1. PICK status \in {"in_trial", "active"} : ChargebeeSubscribe(status)
      BY <2>1
    <3> DEFINE sub == SubObj(status, Now)
    <3>2. /\ obj.sub = NoRow
          /\ Act([obj EXCEPT !.sub = sub], Chargebee!SubCreated(sub, Now))
      BY <3>1 DEF ChargebeeSubscribe
    <3>3. sub = SubIn(status, "chargebee", Now)
      BY OfSource DEF Now
    <3> HIDE DEF sub
    <3>4. SubTurned(obj.sub, sub, "chargebee", Now, Chargebee!SubCreated(sub, Now))
      BY <3>2, <3>3 DEF SubTurned
    <3> QED
      BY <3>2, <3>4
  <2>2. ASSUME NEW sub, NEW events, Act([obj EXCEPT !.sub = sub], events), obj.sub # NoRow,
               ChargebeeChange(obj.sub, sub, Now, events)
        PROVE  \E y, s : /\ Act([obj EXCEPT !.sub = y], s)
                         /\ SubTurned(obj.sub, y, "chargebee", Now, s)
    BY <2>2 DEF SubTurned
  <2>3. \A to : Become(to) = BecomeAt(obj.sub, to, Now)
    BY OfSource DEF Now
  <2>4. ASSUME NEW from, NEW to, NEW events, ChargebeeTurn(from, to, events),
               from \subseteq ChargebeeLive \union {"paused", "cancelled"}
        PROVE  /\ obj.sub # NoRow /\ obj.sub.status \in from
               /\ Act([obj EXCEPT !.sub = Become(to)], events)
    BY <2>4, StatusIsThere DEF ChargebeeTurn, Status
  <2>5. CASE ChargebeeActivate
    <3> DEFINE sub == Become("active")
               events == Chargebee!SubActivated(obj.sub, sub, Now)
    <3>1. /\ obj.sub # NoRow /\ obj.sub.status \in {"in_trial", "cancelled"}
          /\ Act([obj EXCEPT !.sub = sub], events)
      BY <2>4, <2>5 DEF ChargebeeActivate, ChargebeeLive
    <3>2. sub = BecomeAt(obj.sub, "active", Now)
      BY <2>3
    <3> HIDE DEF sub
    <3>3. ChargebeeChange(obj.sub, sub, Now, events)
      BY <3>1, <3>2 DEF ChargebeeChange
    <3> QED
      BY <2>2, <3>1, <3>3
  <2>6. CASE ChargebeeSchedule
    <3> DEFINE sub == Become("non_renewing")
               events == Chargebee!SubChanged(obj.sub, sub, Now)
    <3>1. /\ obj.sub # NoRow /\ obj.sub.status \in {"active"}
          /\ Act([obj EXCEPT !.sub = sub], events)
      BY <2>4, <2>6 DEF ChargebeeSchedule, ChargebeeLive
    <3>2. sub = BecomeAt(obj.sub, "non_renewing", Now)
      BY <2>3
    <3> HIDE DEF sub
    <3>3. ChargebeeChange(obj.sub, sub, Now, events)
      BY <3>1, <3>2 DEF ChargebeeChange
    <3> QED
      BY <2>2, <3>1, <3>3
  <2>7. CASE ChargebeePause
    <3> DEFINE sub == Become("paused")
               events == Chargebee!SubPaused(sub, Now)
    <3>1. /\ obj.sub # NoRow /\ obj.sub.status \in {"active"}
          /\ Act([obj EXCEPT !.sub = sub], events)
      BY <2>4, <2>7 DEF ChargebeePause, ChargebeeLive
    <3>2. sub = BecomeAt(obj.sub, "paused", Now)
      BY <2>3
    <3> HIDE DEF sub
    <3>3. ChargebeeChange(obj.sub, sub, Now, events)
      BY <3>1, <3>2 DEF ChargebeeChange
    <3> QED
      BY <2>2, <3>1, <3>3
  <2>8. CASE ChargebeeResume
    <3> DEFINE sub == Become("active")
               events == Chargebee!SubResumed(sub, Now)
    <3>1. /\ obj.sub # NoRow /\ obj.sub.status \in {"paused"}
          /\ Act([obj EXCEPT !.sub = sub], events)
      BY <2>4, <2>8 DEF ChargebeeResume, ChargebeeLive
    <3>2. sub = BecomeAt(obj.sub, "active", Now)
      BY <2>3
    <3> HIDE DEF sub
    <3>3. ChargebeeChange(obj.sub, sub, Now, events)
      BY <3>1, <3>2 DEF ChargebeeChange
    <3> QED
      BY <2>2, <3>1, <3>3
  <2>9. CASE ChargebeeCancel
    <3> DEFINE sub == Become("cancelled")
               events == Chargebee!SubCancelled(sub, Now)
    <3>1. /\ obj.sub # NoRow /\ obj.sub.status \in ChargebeeLive
          /\ Act([obj EXCEPT !.sub = sub], events)
      BY <2>4, <2>9 DEF ChargebeeCancel
    <3>2. sub = BecomeAt(obj.sub, "cancelled", Now)
      BY <2>3
    <3> HIDE DEF sub
    <3>3. ChargebeeChange(obj.sub, sub, Now, events)
      BY <3>1, <3>2 DEF ChargebeeChange
    <3> QED
      BY <2>2, <3>1, <3>3
  <2>10. CASE ChargebeeDelete
    <3> DEFINE sub == Become("deleted")
               events == Chargebee!SubDeleted(sub, Now)
    <3>1. /\ obj.sub # NoRow
          /\ obj.sub.status \in ChargebeeLive \union {"paused", "cancelled"}
          /\ Act([obj EXCEPT !.sub = sub], events)
      BY <2>4, <2>10 DEF ChargebeeDelete
    <3>2. sub = BecomeAt(obj.sub, "deleted", Now)
      BY <2>3
    <3> HIDE DEF sub
    <3>3. ChargebeeChange(obj.sub, sub, Now, events)
      BY <3>1, <3>2 DEF ChargebeeChange
    <3> QED
      BY <2>2, <3>1, <3>3
  <2>11. CASE \E p \in {"monthly", "yearly"} : ChargebeeSwitch(p)
    <3>1. PICK p \in {"monthly", "yearly"} : ChargebeeSwitch(p)
      BY <2>11
    <3> DEFINE sub == [obj.sub EXCEPT !.plan = p, !.items = ItemsOf(p),
                                      !.mrr = MonthlyWorth(p)]
               events == Chargebee!SubChanged(obj.sub, sub, Now)
    <3>2. /\ Status \in ChargebeeLive /\ obj.sub.plan # p
          /\ Act([obj EXCEPT !.sub = sub], events)
      BY <3>1 DEF ChargebeeSwitch
    <3>3. obj.sub # NoRow /\ Status = obj.sub.status
      BY <3>2, StatusIsThere DEF Status
    <3>4. sub = [obj.sub EXCEPT !.plan = p, !.items = ItemsIn(p, "chargebee"),
                                !.mrr = MonthlyWorth(p)]
      BY OfSource
    <3> HIDE DEF sub
    <3>5. ChargebeeChange(obj.sub, sub, Now, events)
      BY <3>2, <3>3, <3>4 DEF ChargebeeChange
    <3> QED
      BY <2>2, <3>2, <3>3, <3>5
  <2> QED
    BY <2>1, <2>5, <2>6, <2>7, <2>8, <2>9, <2>10, <2>11
<1> QED
  BY <1>1, SubTurnIs

-----------------------------------------------------------------------------
\* A price is reported by one event or none.
LEMMA PriceSingles ==
  ASSUME NEW type, NEW x, NEW at
  PROVE  /\ LET s == Stripe!Price(type, x, at) IN s = <<>> \/ Single(s, type, x.id)
         /\ LET s == Chargebee!ItemPrice(type, x, at) IN s = <<>> \/ Single(s, type, x.id)
<1>1. ASSUME NEW w, NEW p
      PROVE  /\ Single(<<Stripe!Make(type, x.id, NoCust, w, p)>>, type, x.id)
             /\ Single(<<Chargebee!Make(type, x.id, NoCust, w, p)>>, type, x.id)
  <2>1. /\ Stripe!Make(type, x.id, NoCust, w, p).type = type
        /\ Stripe!Make(type, x.id, NoCust, w, p).obj = x.id
        /\ Chargebee!Make(type, x.id, NoCust, w, p).type = type
        /\ Chargebee!Make(type, x.id, NoCust, w, p).obj = x.id
    BY DEF Stripe!Make, Chargebee!Make
  <2> QED
    BY <2>1 DEF Single
<1> QED
  BY <1>1 DEF Stripe!Price, Stripe!If, Chargebee!ItemPrice

\* A turn of the catalog or the customer replaces an object that is not billed.
LEMMA OtherTurnIs ==
  ASSUME Shaped(obj, source, turns), NEW v, NEW o,
         \/ o = [obj EXCEPT !.product = v]
         \/ o = [obj EXCEPT !.customer = v]
         \/ o = [obj EXCEPT !.price = v],
         NEW type \in OtherTypes, NEW y, NEW events, Act(o, events),
         FormedStream(events), events = <<>> \/ Single(events, type, y)
  PROVE  \E q, s : Act(q, s) /\ Turned(obj, q, source, Now, s)
BY NoEvents, OneEvent DEF Shaped, Rest, Single, Turned, Others

\* The catalog and the customer.
LEMMA CatalogTurnIs ==
  ASSUME Objects(obj), Shaped(obj, source, turns),
         EditProduct \/ ArchivePrice \/ MoveCustomer \/ DeleteCustomer
  PROVE  \E o, s : Act(o, s) /\ Turned(obj, o, source, Now, s)
<1>1. CASE EditProduct
  <2> DEFINE prod == [obj.product EXCEPT !.name = "B"]
             events == IF source = "stripe" THEN Stripe!Product("product.updated", prod, Now)
                       ELSE Chargebee!Item("product.updated", prod, Now)
  <2>1. Act([obj EXCEPT !.product = prod], events)
    BY <1>1 DEF EditProduct
  <2> HIDE DEF prod
  <2>2. FormedStream(events) /\ Single(events, "product.updated", prod.id)
    BY CatalogFormed, StripeSingles, ChargebeeSingles DEF ProductTypes
  <2> HIDE DEF events
  <2> QED
    BY <2>1, <2>2, OtherTurnIs DEF OtherTypes, ProductTypes
<1>2. CASE ArchivePrice
  <2> DEFINE price == [obj.price["yearly"] EXCEPT !.active = FALSE]
             events == IF source = "stripe" THEN Stripe!Price("plan.deleted", price, Now)
                       ELSE Chargebee!ItemPrice("plan.deleted", price, Now)
             prices == [obj.price EXCEPT !["yearly"] = price]
  <2>1. Act([obj EXCEPT !.price["yearly"] = price], events)
    BY <1>2 DEF ArchivePrice
  <2>2. [obj EXCEPT !.price["yearly"] = price] = [obj EXCEPT !.price = prices]
    OBVIOUS
  <2>3. Act([obj EXCEPT !.price = prices], events)
    BY <2>1, <2>2
  <2> HIDE DEF price
  <2>4. FormedStream(events) /\ (events = <<>> \/ Single(events, "plan.deleted", price.id))
    BY CatalogFormed, PriceSingles DEF PlanTypes
  <2> HIDE DEF events, prices
  <2> QED
    BY <2>3, <2>4, OtherTurnIs DEF OtherTypes, PlanTypes
<1>3. CASE MoveCustomer
  <2> DEFINE cust == [obj.customer EXCEPT !.country = Null]
             events == IF source = "stripe" THEN Stripe!Customer("customer.updated", cust)
                       ELSE Chargebee!Customer("customer.updated", cust, Now)
  <2>1. Act([obj EXCEPT !.customer = cust], events) /\ obj.customer # NoRow
    BY <1>3 DEF MoveCustomer
  <2>2. cust.id = c1
    BY <2>1 DEF Objects
  <2> HIDE DEF cust
  <2>3. FormedStream(events) /\ Single(events, "customer.updated", cust.id)
    BY <2>2, CustomerFormed, StripeSingles, ChargebeeSingles DEF CustomerTypes
  <2> HIDE DEF events
  <2> QED
    BY <2>1, <2>3, OtherTurnIs DEF OtherTypes, CustomerTypes
<1>4. CASE DeleteCustomer
  <2> DEFINE cust == obj.customer
             events == IF source = "stripe" THEN Stripe!Customer("customer.deleted", cust)
                       ELSE Chargebee!Customer("customer.deleted", cust, Now)
  <2>1. Act([obj EXCEPT !.customer = NoRow], events) /\ obj.customer # NoRow
    BY <1>4 DEF DeleteCustomer
  <2>2. cust.id = c1
    BY <2>1 DEF Objects
  <2> HIDE DEF cust
  <2>3. FormedStream(events) /\ Single(events, "customer.deleted", cust.id)
    BY <2>2, CustomerFormed, StripeSingles, ChargebeeSingles DEF CustomerTypes
  <2> HIDE DEF events
  <2> QED
    BY <2>1, <2>3, OtherTurnIs DEF OtherTypes, CustomerTypes
<1> QED
  BY <1>1, <1>2, <1>3, <1>4

\* The invoice.
LEMMA InvoiceTurnIs ==
  ASSUME Shaped(obj, source, turns), source \in {"stripe", "chargebee"},
         IssueInvoice \/ \E status \in {"paid", "void", "uncollectible"} :
                           SettleInvoice(status)
  PROVE  \E o, s : /\ Act(o, s) /\ Turned(obj, o, source, Now, s)
                    /\ BillTurned(obj, o, source, Now, s)
<1>1. PICK inv, events :
        /\ Act([obj EXCEPT !.invoice = inv], events)
        /\ InvoiceTurned(obj.invoice, inv, source, Now, events)
  <2>1. CASE IssueInvoice
    <3> DEFINE inv == InvoiceObj(Now)
               events == IF source = "stripe" THEN Stripe!InvoiceCreated(inv)
                         ELSE Chargebee!InvoiceGenerated(inv, Now)
    <3>1. Act([obj EXCEPT !.invoice = inv], events) /\ obj.invoice = NoRow
      BY <2>1 DEF IssueInvoice
    <3>2. inv = InvoiceIn(source, Now)
      BY OfSource DEF Now
    <3> HIDE DEF inv
    <3>3. InvoiceTurned(obj.invoice, inv, source, Now, events)
      BY <3>1, <3>2 DEF InvoiceTurned
    <3> QED
      BY <3>1, <3>3
  <2>2. CASE \E status \in {"paid", "void", "uncollectible"} : SettleInvoice(status)
    <3>1. PICK status \in {"paid", "void", "uncollectible"} : SettleInvoice(status)
      BY <2>2
    <3> DEFINE inv == Settled(obj.invoice, status, source, Now)
    <3> DEFINE events ==
          CASE source = "chargebee" -> Chargebee!InvoiceUpdated(inv, Now)
            [] source = "stripe" /\ status = "paid" -> Stripe!InvoicePaid(inv, Now)
            [] source = "stripe" /\ status = "void" -> Stripe!InvoiceVoided(inv, Now)
            [] OTHER -> Stripe!InvoiceUncollectible(inv, Now)
    <3>2. /\ obj.invoice # NoRow /\ obj.invoice.status \in {"open", "payment_due"}
          /\ status = "uncollectible" => source = "stripe"
          /\ Act([obj EXCEPT !.invoice = inv], events)
      BY <3>1, Zenon DEF SettleInvoice, Open, Settled
    <3>3. CASE source = "chargebee"
      BY <3>2, <3>3 DEF InvoiceTurned
    <3>4. CASE source = "stripe"
      BY <3>2, <3>4 DEF InvoiceTurned
    <3> QED
      BY <3>3, <3>4
  <2> QED
    BY <2>1, <2>2
<1> DEFINE o == [obj EXCEPT !.invoice = inv]
<1>2. /\ o = [product |-> o.product, price |-> o.price, customer |-> o.customer,
              coupon |-> o.coupon, sub |-> o.sub, invoice |-> o.invoice,
              payment |-> o.payment, note |-> o.note]
      /\ o.invoice = inv /\ Rest(obj, o, "invoice")
  BY ObjectReplaced
<1> HIDE DEF o
<1>3. Turned(obj, o, source, Now, events) /\ BillTurned(obj, o, source, Now, events)
  BY <1>1, <1>2 DEF Turned, BillTurned
<1> QED
  BY <1>1, <1>3 DEF o

\* The payment.
LEMMA PaymentTurnIs ==
  ASSUME Shaped(obj, source, turns),
         Refund \/ \E status \in {"failed", "succeeded"} : Charge(status)
  PROVE  \E o, s : /\ Act(o, s) /\ Turned(obj, o, source, Now, s)
                    /\ BillTurned(obj, o, source, Now, s)
<1>1. PICK pi, events :
        /\ Act([obj EXCEPT !.payment = pi], events)
        /\ PaymentTurned(obj.payment, pi, source, Now, events)
  <2>1. CASE Refund
    <3> DEFINE pi == [obj.payment EXCEPT !.status = "refunded"]
               events == IF source = "stripe"
                         THEN Stripe!ChargeRefunded("charge", obj.payment, Now)
                         ELSE Chargebee!Refunded("refund", obj.payment, Now)
    <3>1. Act([obj EXCEPT !.payment.status = "refunded"], events) /\ obj.payment # NoRow
      BY <2>1 DEF Refund
    <3>2. [obj EXCEPT !.payment.status = "refunded"] = [obj EXCEPT !.payment = pi]
      OBVIOUS
    <3>3. Act([obj EXCEPT !.payment = pi], events)
      BY <3>1, <3>2
    <3>4. PaymentTurned(obj.payment, pi, source, Now, events)
      BY <3>1 DEF PaymentTurned
    <3> QED
      BY <3>3, <3>4
  <2>2. CASE \E status \in {"failed", "succeeded"} : Charge(status)
    <3>1. PICK status \in {"failed", "succeeded"} : Charge(status)
      BY <2>2
    <3> DEFINE pi == PaymentObj(status, Now)
               type == IF status = "failed" THEN "payment.failed" ELSE "payment.succeeded"
               events == IF source = "stripe" THEN Stripe!Payment(type, pi, Now)
                         ELSE Chargebee!Payment(type, pi, Now)
    <3>2. Act([obj EXCEPT !.payment = pi], events)
      BY <3>1, Zenon DEF Charge
    <3>3. PaymentTurned(obj.payment, pi, source, Now, events)
      BY Zenon DEF PaymentTurned
    <3> QED
      BY <3>2, <3>3
  <2> QED
    BY <2>1, <2>2
<1> DEFINE o == [obj EXCEPT !.payment = pi]
<1>2. /\ o = [product |-> o.product, price |-> o.price, customer |-> o.customer,
              coupon |-> o.coupon, sub |-> o.sub, invoice |-> o.invoice,
              payment |-> o.payment, note |-> o.note]
      /\ o.payment = pi /\ Rest(obj, o, "payment")
  BY ObjectReplaced
<1> HIDE DEF o
<1>3. Turned(obj, o, source, Now, events) /\ BillTurned(obj, o, source, Now, events)
  BY <1>1, <1>2 DEF Turned, BillTurned
<1> QED
  BY <1>1, <1>3 DEF o

\* The coupon.
LEMMA CouponTurnIs ==
  ASSUME Shaped(obj, source, turns), ExpireCoupon
  PROVE  \E o, s : /\ Act(o, s) /\ Turned(obj, o, source, Now, s)
                    /\ BillTurned(obj, o, source, Now, s)
<1> DEFINE c == [obj.coupon EXCEPT !.valid = FALSE]
           events == IF source = "stripe" THEN Stripe!Coupon("coupon.deleted", c, Now)
                     ELSE Chargebee!Coupon("coupon.deleted", c, Now)
           o == [obj EXCEPT !.coupon = c]
<1>1. Act(o, events)
  BY DEF ExpireCoupon
<1>2. CouponTurned(obj.coupon, c, source, Now, events)
  BY DEF CouponTurned
<1> HIDE DEF c, events
<1>3. /\ o = [product |-> o.product, price |-> o.price, customer |-> o.customer,
              coupon |-> o.coupon, sub |-> o.sub, invoice |-> o.invoice,
              payment |-> o.payment, note |-> o.note]
      /\ o.coupon = c /\ Rest(obj, o, "coupon")
  BY ObjectReplaced
<1> HIDE DEF o
<1>4. Turned(obj, o, source, Now, events) /\ BillTurned(obj, o, source, Now, events)
  BY <1>2, <1>3 DEF Turned, BillTurned
<1> QED
  BY <1>1, <1>4

\* The credit note.
LEMMA NoteTurnIs ==
  ASSUME Objects(obj), Shaped(obj, source, turns), IssueNote \/ VoidNote,
         obj.note # NoRow => obj.invoice # NoRow
  PROVE  \E o, s : /\ Act(o, s) /\ Turned(obj, o, source, Now, s)
                    /\ BillTurned(obj, o, source, Now, s)
<1>1. PICK cn, events :
        /\ Act([obj EXCEPT !.note = cn], events) /\ obj.invoice # NoRow
        /\ NoteTurned(obj.note, cn, source, Now, events)
  <2>1. CASE IssueNote
    <3> DEFINE cn == NoteObj
               events == IF source = "stripe" THEN Stripe!NoteCreated(cn, Now)
                         ELSE Chargebee!NoteCreated(cn, Now)
    <3>1. Act([obj EXCEPT !.note = cn], events) /\ obj.invoice # NoRow /\ obj.note = NoRow
      BY <2>1 DEF IssueNote
    <3>2. cn = NoteIn(source)
      BY OfSource
    <3> HIDE DEF cn
    <3>3. NoteTurned(obj.note, cn, source, Now, events)
      BY <3>1, <3>2 DEF NoteTurned
    <3> QED
      BY <3>1, <3>3
  <2>2. CASE VoidNote
    <3> DEFINE cn == [obj.note EXCEPT !.status = IF source = "stripe" THEN "void" ELSE "voided",
                                      !.voidedAt = Now]
               events == IF source = "stripe" THEN Stripe!NoteVoided(cn, Now)
                         ELSE Chargebee!NoteUpdated(cn, Now)
    <3>1. Act([obj EXCEPT !.note = cn], events) /\ obj.note # NoRow
      BY <2>2, Zenon DEF VoidNote
    <3>2. NoteTurned(obj.note, cn, source, Now, events)
      BY <3>1 DEF NoteTurned
    <3> QED
      BY <3>1, <3>2
  <2> QED
    BY <2>1, <2>2
<1> DEFINE o == [obj EXCEPT !.note = cn]
<1>2. /\ o = [product |-> o.product, price |-> o.price, customer |-> o.customer,
              coupon |-> o.coupon, sub |-> o.sub, invoice |-> o.invoice,
              payment |-> o.payment, note |-> o.note]
      /\ o.note = cn /\ Rest(obj, o, "note")
  BY ObjectReplaced
<1> HIDE DEF o
<1>3. Turned(obj, o, source, Now, events) /\ BillTurned(obj, o, source, Now, events)
  BY <1>1, <1>2 DEF Turned, BillTurned
<1> QED
  BY <1>1, <1>3 DEF o

\* Every turn is one of them.
LEMMA TurnIs ==
  ASSUME Objects(obj), Shaped(obj, source, turns), source \in {"stripe", "chargebee"},
         obj.note # NoRow => obj.invoice # NoRow, Turn
  PROVE  \E o, s : Act(o, s) /\ Turned(obj, o, source, Now, s)
<1>1. CASE source = "stripe" /\
         (\/ \E status \in {"trialing", "active", "incomplete"} : StripeSubscribe(status)
          \/ \E status \in {"active", "past_due", "unpaid", "paused",
                            "incomplete_expired"} : StripeMove(status)
          \/ \E p \in {"monthly", "yearly"} : StripeSwitch(p)
          \/ StripeHold \/ StripeSchedule \/ StripeDelete)
  BY <1>1, StripeTurnIs
<1>2. CASE source = "chargebee" /\
         (\/ \E status \in {"in_trial", "active"} : ChargebeeSubscribe(status)
          \/ ChargebeeActivate \/ ChargebeeSchedule \/ ChargebeePause \/ ChargebeeResume
          \/ ChargebeeCancel \/ ChargebeeDelete
          \/ \E p \in {"monthly", "yearly"} : ChargebeeSwitch(p))
  BY <1>2, ChargebeeTurnIs
<1>3. CASE EditProduct \/ ArchivePrice \/ MoveCustomer \/ DeleteCustomer
  BY <1>3, CatalogTurnIs
<1>4. CASE IssueInvoice \/ \E status \in {"paid", "void", "uncollectible"} :
                             SettleInvoice(status)
  BY <1>4, InvoiceTurnIs
<1>5. CASE Refund \/ \E status \in {"failed", "succeeded"} : Charge(status)
  BY <1>5, PaymentTurnIs
<1>6. CASE ExpireCoupon
  BY <1>6, CouponTurnIs
<1>7. CASE IssueNote \/ VoidNote
  BY <1>7, NoteTurnIs
<1>8. /\ \A status : StripeSubscribe(status) => source = "stripe"
      /\ \A status : StripeMove(status) => source = "stripe"
      /\ \A p : StripeSwitch(p) => source = "stripe"
      /\ StripeHold \/ StripeSchedule \/ StripeDelete => source = "stripe"
  BY DEF StripeSubscribe, StripeMove, StripeSwitch, StripeHold, StripeSchedule, StripeDelete
<1>9. /\ \A status : ChargebeeSubscribe(status) => source = "chargebee"
      /\ ChargebeeActivate \/ ChargebeeSchedule \/ ChargebeePause \/ ChargebeeResume
         \/ ChargebeeCancel \/ ChargebeeDelete => source = "chargebee"
      /\ \A p : ChargebeeSwitch(p) => source = "chargebee"
  BY DEF ChargebeeSubscribe, ChargebeeActivate, ChargebeeSchedule, ChargebeePause,
         ChargebeeResume, ChargebeeCancel, ChargebeeDelete, ChargebeeTurn, ChargebeeSwitch
<1> QED
  BY <1>1, <1>2, <1>3, <1>4, <1>5, <1>6, <1>7, <1>8, <1>9 DEF Turn

-----------------------------------------------------------------------------
(* Row by row, what an event makes of the tables *)

\* The subscription's row: a new one, or one written over.
NewSubRow(t, e) ==
  [customer |-> Lookup(t.customer, e.p.customer), plan |-> Lookup(t.plan, e.p.plan),
   status |-> e.p.status, mrr |-> e.p.mrr, base |-> e.p.mrr, pending |-> FALSE,
   canceledAt |-> Null, endedAt |-> Null]

SubRewritten(t, e, r) ==
  CASE e.type = "subscription.created" ->
         [r EXCEPT !.status = e.p.status, !.mrr = e.p.mrr, !.base = e.p.mrr]
    [] e.type \in ActiveTypes ->
         [r EXCEPT !.status = "active", !.mrr = e.p.mrr, !.endedAt = Null,
                   !.canceledAt = Null, !.pending = FALSE]
    [] e.type = "subscription.changed" ->
         [r EXCEPT !.mrr = e.p.mrr, !.plan = Coalesce(Lookup(t.plan, e.p.plan), @)]
    [] e.type = "subscription.canceled" ->
         [r EXCEPT !.status = "canceled", !.pending = TRUE,
                   !.canceledAt = Coalesce(e.p.canceledAt, e.at)]
    [] e.type = "subscription.churned" ->
         [r EXCEPT !.status = "canceled", !.mrr = 0, !.endedAt = e.at]
    [] e.type = "subscription.paused" -> [r EXCEPT !.status = "paused", !.mrr = 0]
    [] OTHER -> r

SubRow(t, e) ==
  IF t.sub[s1] # NoRow THEN SubRewritten(t, e, t.sub[s1])
  ELSE IF e.type = "subscription.created" THEN NewSubRow(t, e) ELSE NoRow

\* A table of subscriptions.
IsSubs(f) == f = [s \in Subs |-> f[s]]

\* The row alone, ...
LEMMA PutSubRow ==
  ASSUME NEW t, IsTables(t), NEW r
  PROVE  /\ PutSub(t, r).sub[s1] = r /\ PutSub(t, r).item = t.item
         /\ \A s \in Subs \ {s1} : PutSub(t, r).sub[s] = t.sub[s]
         /\ IsSubs(PutSub(t, r).sub)
BY TheObjects DEF IsTables, TableNames, PutSub, IsSubs

\* ... and with its items.
LEMMA PutSubWithItems ==
  ASSUME NEW t, IsTables(t), NEW r, r # NoRow, NEW e, e.obj = s1, NEW items,
         NEW u, u = ReplaceItems(PutSub(t, r), e, items)
  PROVE  /\ u.sub[s1] = r /\ \A s \in Subs \ {s1} : u.sub[s] = t.sub[s]
         /\ u.item = ItemsNow(t.plan, items) /\ IsSubs(u.sub)
<1> DEFINE w == PutSub(t, r)
<1>1. /\ IsTables(w) /\ w.sub[s1] = r /\ \A s \in Subs \ {s1} : w.sub[s] = t.sub[s]
      /\ w.plan = t.plan /\ IsSubs(w.sub)
  BY SubWritten, PutSubRow DEF SameBut, TableNames
<1>2. u = ReplaceItems(w, e, items)
  OBVIOUS
<1> HIDE DEF w
<1>3. u = PutItems(w, items) /\ SameBut(w, u, {"item"})
  BY <1>1, <1>2, ItemsReplaced
<1>4. u.sub = w.sub /\ u.item = ItemsNow(w.plan, items)
  BY <1>1, <1>3 DEF SameBut, TableNames, PutItems, IsTables
<1> QED
  BY <1>1, <1>4

\* A row written by an UPDATE.
LEMMA SubRowUpdated ==
  ASSUME NEW t, IsTables(t), NEW e, e.obj = s1, NEW r,
         NEW u, u = UpdateSub(t, e, r)
  PROVE  /\ u.sub[s1] = IF t.sub[s1] = NoRow THEN NoRow ELSE r
         /\ u.item = t.item /\ \A s \in Subs \ {s1} : u.sub[s] = t.sub[s]
         /\ IsSubs(t.sub) => IsSubs(u.sub)
BY PutSubRow DEF UpdateSub, PutSub

SubChanges(t, u, e) ==
  /\ u.sub[s1] = SubRow(t, e)
  /\ \A s \in Subs \ {s1} : u.sub[s] = t.sub[s]
  /\ u.item = IF e.type \in {"subscription.created", "subscription.changed"}
                 /\ u.sub[s1] # NoRow
              THEN ItemsNow(t.plan, e.p.items) ELSE t.item
  /\ IsSubs(t.sub) => IsSubs(u.sub)

\* The handler makes that row.
LEMMA SubRowMade ==
  ASSUME NoRowIsNoRecord, NEW t, IsTables(t), NEW e, e.obj = s1, e.type \in SubTypes,
         NEW u, u = HandleSubscription(t, e)
  PROVE  SubChanges(t, u, e)
<1> DEFINE r == t.sub[s1]
<1>1. CASE e.type = "subscription.created"
  <2> DEFINE q == SubRow(t, e)
  <2>1. q = IF r = NoRow THEN NewSubRow(t, e)
            ELSE [r EXCEPT !.status = e.p.status, !.mrr = e.p.mrr, !.base = e.p.mrr]
    BY <1>1 DEF SubRow, SubRewritten, ActiveTypes
  <2>2. u = ReplaceItems(PutSub(t, q), e, e.p.items)
    <3>1. u = SubscriptionCreated(t, e)
      BY <1>1 DEF HandleSubscription
    <3> DEFINE new == [customer |-> Lookup(t.customer, e.p.customer),
                       plan |-> Lookup(t.plan, e.p.plan), status |-> e.p.status,
                       mrr |-> e.p.mrr, base |-> e.p.mrr, pending |-> FALSE,
                       canceledAt |-> Null, endedAt |-> Null]
    <3>2. SubscriptionCreated(t, e) =
            ReplaceItems(PutSub(t, IF r = NoRow THEN new
                                   ELSE [r EXCEPT !.status = e.p.status, !.mrr = e.p.mrr,
                                                  !.base = e.p.mrr]), e, e.p.items)
      BY DEF SubscriptionCreated, PutSub
    <3>3. NewSubRow(t, e) = new
      BY DEF NewSubRow
    <3> HIDE DEF new, q
    <3> QED
      BY <2>1, <3>1, <3>2, <3>3
  <2>3. q # NoRow
    BY <2>1 DEF NoRowIsNoRecord, NewSubRow
  <2> HIDE DEF q
  <2>4. /\ u.sub[s1] = q /\ \A s \in Subs \ {s1} : u.sub[s] = t.sub[s]
        /\ u.item = ItemsNow(t.plan, e.p.items) /\ IsSubs(u.sub)
    BY <2>2, <2>3, PutSubWithItems
  <2> QED
    BY <1>1, <2>3, <2>4 DEF SubChanges, q
<1>2. CASE e.type = "subscription.changed"
  <2>1. u = SubscriptionChanged(t, e)
    BY <1>2 DEF HandleSubscription
  <2>2. CASE r = NoRow
    BY <1>2, <2>1, <2>2
       DEF SubscriptionChanged, UpdateSub, ReplaceItems, SubChanges, SubRow
  <2>3. CASE r # NoRow
    <3> DEFINE q == SubRow(t, e)
    <3>1. q = [r EXCEPT !.mrr = e.p.mrr, !.plan = Coalesce(Lookup(t.plan, e.p.plan), @)]
      BY <1>2, <2>3 DEF SubRow, SubRewritten, ActiveTypes
    <3>2. u = ReplaceItems(PutSub(t, q), e, e.p.items)
      BY <2>1, <2>3, <3>1 DEF SubscriptionChanged, UpdateSub, PutSub
    <3>3. q # NoRow
      BY <3>1 DEF NoRowIsNoRecord
    <3> HIDE DEF q
    <3>4. /\ u.sub[s1] = q /\ \A s \in Subs \ {s1} : u.sub[s] = t.sub[s]
          /\ u.item = ItemsNow(t.plan, e.p.items) /\ IsSubs(u.sub)
      BY <3>2, <3>3, PutSubWithItems
    <3> QED
      BY <1>2, <3>3, <3>4 DEF SubChanges, q
  <2> QED
    BY <2>2, <2>3
<1>3. ASSUME NEW q, u = UpdateSub(t, e, q),
             e.type \notin {"subscription.created", "subscription.changed"},
             q = SubRewritten(t, e, r)
      PROVE  SubChanges(t, u, e)
  BY <1>3, SubRowUpdated DEF SubChanges, SubRow
<1>4. CASE e.type \in ActiveTypes
  <2> DEFINE q == [r EXCEPT !.status = "active", !.mrr = e.p.mrr, !.endedAt = Null,
                            !.canceledAt = Null, !.pending = FALSE]
  <2>1. u = UpdateSub(t, e, q)
    BY <1>4 DEF HandleSubscription, SubscriptionActive, ActiveTypes
  <2>2. q = SubRewritten(t, e, r)
    BY <1>4 DEF SubRewritten, ActiveTypes
  <2> HIDE DEF q
  <2> QED
    BY <1>3, <1>4, <2>1, <2>2 DEF ActiveTypes
<1>5. CASE e.type = "subscription.canceled"
  <2> DEFINE q == [r EXCEPT !.status = "canceled", !.pending = TRUE,
                            !.canceledAt = Coalesce(e.p.canceledAt, e.at)]
  <2>1. u = UpdateSub(t, e, q)
    BY <1>5 DEF HandleSubscription, SubscriptionCanceled
  <2>2. q = SubRewritten(t, e, r)
    BY <1>5 DEF SubRewritten, ActiveTypes
  <2> HIDE DEF q
  <2> QED
    BY <1>3, <1>5, <2>1, <2>2
<1>6. CASE e.type = "subscription.churned"
  <2> DEFINE q == [r EXCEPT !.status = "canceled", !.mrr = 0, !.endedAt = e.at]
  <2>1. u = UpdateSub(t, e, q)
    BY <1>6 DEF HandleSubscription, SubscriptionChurned
  <2>2. q = SubRewritten(t, e, r)
    BY <1>6 DEF SubRewritten, ActiveTypes
  <2> HIDE DEF q
  <2> QED
    BY <1>3, <1>6, <2>1, <2>2
<1>7. CASE e.type = "subscription.paused"
  <2> DEFINE q == [r EXCEPT !.status = "paused", !.mrr = 0]
  <2>1. u = UpdateSub(t, e, q)
    BY <1>7 DEF HandleSubscription, SubscriptionPaused
  <2>2. q = SubRewritten(t, e, r)
    BY <1>7 DEF SubRewritten, ActiveTypes
  <2> HIDE DEF q
  <2> QED
    BY <1>3, <1>7, <2>1, <2>2
<1>8. CASE e.type \in {"subscription.trial_started", "subscription.trial_converted",
                      "subscription.trial_expired"}
  BY <1>8 DEF HandleSubscription, SubRow, SubRewritten, ActiveTypes, SubChanges
<1> QED
  BY <1>1, <1>2, <1>4, <1>5, <1>6, <1>7, <1>8 DEF SubTypes, ActiveTypes

\* The consumer's transaction makes it too.
LEMMA SubEffect ==
  ASSUME NoRowIsNoRecord, NEW t, IsTables(t), NEW e, e.obj = s1, e.type \in SubTypes,
         NEW u, u = HandleState(t, e)
  PROVE  SubChanges(t, u, e) /\ SameBut(t, u, {"sub", "item", "log"})
<1> DEFINE v == LogEvent(t, e)
<1>1. IsTables(v) /\ SameBut(t, v, {"log"})
  BY Logged
<1>2. u = HandleSubscription(v, e)
  BY Dispatched DEF HandleState
<1> HIDE DEF v
<1>3. SubChanges(v, u, e)
  BY <1>1, <1>2, SubRowMade
<1>4. SameBut(v, u, {"sub", "item"})
  BY <1>1, <1>2, SubscriptionHandled DEF SubHandled
<1>5. v.sub = t.sub /\ v.customer = t.customer /\ v.plan = t.plan /\ v.item = t.item
  BY <1>1 DEF SameBut, TableNames
<1>6. SubRow(v, e) = SubRow(t, e)
  BY <1>5 DEF SubRow, SubRewritten, NewSubRow
<1> QED
  BY <1>1, <1>3, <1>4, <1>5, <1>6 DEF SubChanges, SameBut

\* The invoice's row.
InvoiceRow(t, e) ==
  LET r == t.invoice[i1]
  IN  CASE e.type = "invoice.created" ->
             IF r = NoRow
             THEN [customer |-> Lookup(t.customer, e.p.customer),
                   sub |-> Lookup(t.sub, e.p.sub), status |-> e.p.status,
                   total |-> e.p.total, paidAt |-> Null, voidedAt |-> Null]
             ELSE [r EXCEPT !.status = e.p.status, !.total = e.p.total]
        [] e.type = "invoice.paid" ->
             IF r = NoRow THEN NoRow
             ELSE [r EXCEPT !.status = "paid", !.paidAt = Coalesce(e.p.paidAt, e.at)]
        [] e.type = "invoice.voided" ->
             IF r = NoRow THEN NoRow
             ELSE [r EXCEPT !.status = "void", !.voidedAt = Coalesce(e.p.voidedAt, e.at)]
        [] e.type = "invoice.uncollectible" ->
             IF r = NoRow THEN NoRow ELSE [r EXCEPT !.status = "uncollectible"]

InvoiceChanges(t, u, e) ==
  /\ u.invoice[i1] = InvoiceRow(t, e)
  /\ \A i \in Invoices \ {i1} : u.invoice[i] = t.invoice[i]
  /\ \A i \in Invoices :
       u.line[i] = IF e.type = "invoice.created" /\ i = i1 THEN Lines(t, e) ELSE t.line[i]

\* An invoice's row alone.
LEMMA PutInvoiceRow ==
  ASSUME NEW t, IsTables(t), NEW r
  PROVE  /\ PutInvoice(t, i1, r).invoice[i1] = r /\ PutInvoice(t, i1, r).line = t.line
         /\ \A i \in Invoices \ {i1} : PutInvoice(t, i1, r).invoice[i] = t.invoice[i]
BY TheObjects DEF IsTables, TableNames, PutInvoice

\* An invoice's handler makes that row.
LEMMA InvoiceRowMade ==
  ASSUME NoRowIsNoRecord, NEW t, IsTables(t), NEW e, e.obj = i1, e.type \in InvoiceTypes,
         NEW u, u = HandleInvoice(t, e)
  PROVE  InvoiceChanges(t, u, e)
<1> DEFINE r == t.invoice[i1]
<1>1. CASE e.type = "invoice.created"
  <2> DEFINE q == InvoiceRow(t, e)
             new == [customer |-> Lookup(t.customer, e.p.customer),
                     sub |-> Lookup(t.sub, e.p.sub), status |-> e.p.status,
                     total |-> e.p.total, paidAt |-> Null, voidedAt |-> Null]
             w == PutInvoice(t, i1, q)
  <2>1. q = IF r = NoRow THEN new ELSE [r EXCEPT !.status = e.p.status, !.total = e.p.total]
    BY <1>1 DEF InvoiceRow
  <2>2. u = InvoiceCreated(t, e)
    BY <1>1 DEF HandleInvoice
  <2>3. InvoiceCreated(t, e) =
          PutLines(PutInvoice(t, i1, IF r = NoRow THEN new
                                     ELSE [r EXCEPT !.status = e.p.status,
                                                    !.total = e.p.total]),
                   i1, Lines(t, e))
    BY DEF InvoiceCreated, PutLines, PutInvoice
  <2> HIDE DEF new, q
  <2>4. u = PutLines(w, i1, Lines(t, e))
    BY <2>1, <2>2, <2>3
  <2>5. /\ q # NoRow /\ "status" \in DOMAIN q
    <3> USE DEF new
    <3> QED
      BY <2>1, TheObjects DEF NoRowIsNoRecord, IsTables
  <2>6. /\ IsTables(w) /\ w.line = t.line /\ w.invoice[i1] = q
        /\ \A i \in Invoices \ {i1} : w.invoice[i] = t.invoice[i]
    BY <2>5, InvoiceWritten, PutInvoiceRow
  <2> HIDE DEF w
  <2>7. /\ u.line[i1] = Lines(t, e) /\ SameBut(w, u, {"line"})
        /\ \A i \in Invoices : i # i1 => u.line[i] = w.line[i]
    BY <2>4, <2>6, TheObjects, LinesWritten
  <2>8. u.invoice = w.invoice
    BY <2>7 DEF SameBut, TableNames
  <2> QED
    BY <1>1, <2>6, <2>7, <2>8 DEF InvoiceChanges, q
<1>2. ASSUME NEW q, u = UpdateInvoice(t, e, q), e.type # "invoice.created",
             InvoiceRow(t, e) = IF r = NoRow THEN NoRow ELSE q
      PROVE  InvoiceChanges(t, u, e)
  BY <1>2, PutInvoiceRow DEF UpdateInvoice, InvoiceChanges, PutInvoice
<1>3. CASE e.type = "invoice.paid"
  <2> DEFINE q == [r EXCEPT !.status = "paid", !.paidAt = Coalesce(e.p.paidAt, e.at)]
  <2>1. u = UpdateInvoice(t, e, q) /\ InvoiceRow(t, e) = IF r = NoRow THEN NoRow ELSE q
    BY <1>3 DEF HandleInvoice, InvoiceRow
  <2> HIDE DEF q
  <2> QED
    BY <1>2, <1>3, <2>1
<1>4. CASE e.type = "invoice.voided"
  <2> DEFINE q == [r EXCEPT !.status = "void", !.voidedAt = Coalesce(e.p.voidedAt, e.at)]
  <2>1. u = UpdateInvoice(t, e, q) /\ InvoiceRow(t, e) = IF r = NoRow THEN NoRow ELSE q
    BY <1>4 DEF HandleInvoice, InvoiceRow
  <2> HIDE DEF q
  <2> QED
    BY <1>2, <1>4, <2>1
<1>5. CASE e.type = "invoice.uncollectible"
  <2> DEFINE q == [r EXCEPT !.status = "uncollectible"]
  <2>1. u = UpdateInvoice(t, e, q) /\ InvoiceRow(t, e) = IF r = NoRow THEN NoRow ELSE q
    BY <1>5 DEF HandleInvoice, InvoiceRow
  <2> HIDE DEF q
  <2> QED
    BY <1>2, <1>5, <2>1
<1> QED
  BY <1>1, <1>3, <1>4, <1>5 DEF InvoiceTypes

\* So does the consumer's transaction.
LEMMA InvoiceEffect ==
  ASSUME NoRowIsNoRecord, NEW t, IsTables(t), NEW e, e.obj = i1, e.type \in InvoiceTypes,
         NEW u, u = HandleState(t, e)
  PROVE  InvoiceChanges(t, u, e) /\ SameBut(t, u, {"invoice", "line", "log"})
<1> DEFINE v == LogEvent(t, e)
<1>1. IsTables(v) /\ SameBut(t, v, {"log"})
  BY Logged
<1>2. u = HandleInvoice(v, e)
  BY Dispatched DEF HandleState
<1> HIDE DEF v
<1>3. InvoiceChanges(v, u, e)
  BY <1>1, <1>2, InvoiceRowMade
<1>4. SameBut(v, u, {"invoice", "line"})
  BY <1>1, <1>2, InvoiceCreatedHandled, InvoicePaidHandled, InvoiceVoidedHandled,
     InvoiceUncollectibleHandled
     DEF InvoiceTypes, InvoiceUpdated, SameBut
<1>5. /\ v.sub = t.sub /\ v.customer = t.customer /\ v.plan = t.plan
      /\ v.coupon = t.coupon /\ v.invoice = t.invoice /\ v.line = t.line
  BY <1>1 DEF SameBut, TableNames
<1>6. InvoiceRow(v, e) = InvoiceRow(t, e)
  BY <1>5 DEF InvoiceRow
<1>7. Lines(v, e) = Lines(t, e)
  BY <1>5 DEF LineKind, Lines
<1> QED
  BY <1>1, <1>3, <1>4, <1>5, <1>6, <1>7 DEF InvoiceChanges, SameBut

-----------------------------------------------------------------------------
\* A payment's row.
PayRow(t, e, r) ==
  LET status == IF e.type = "payment.failed" THEN "failed" ELSE "succeeded"
  IN  IF e.type = "payment.refunded"
      THEN IF r = NoRow THEN NoRow
           ELSE [r EXCEPT !.status = "refunded",
                          !.refundedAt = Coalesce(e.p.refundedAt, e.at)]
      ELSE IF r = NoRow THEN PaymentRow(t, e, status) ELSE [r EXCEPT !.status = status]

PaymentChanges(t, u, e) ==
  \A p \in Payments : u.payment[p] = IF p = e.obj THEN PayRow(t, e, t.payment[p])
                                     ELSE t.payment[p]

\* A payment's row alone.
LEMMA PutPaymentRow ==
  ASSUME NEW t, IsTables(t), NEW x, NEW r
  PROVE  \A p \in Payments : PutPayment(t, x, r).payment[p] =
                               IF p = x THEN r ELSE t.payment[p]
BY DEF IsTables, TableNames, PutPayment

\* A payment's handler makes that row.
LEMMA PaymentRowMade ==
  ASSUME NEW t, IsTables(t), NEW e, e.type \in PaymentTypes,
         NEW u, u = HandlePayment(t, e)
  PROVE  PaymentChanges(t, u, e)
<1> DEFINE x == e.obj
           r == t.payment[x]
           q == PayRow(t, e, r)
<1>1. CASE e.type # "payment.refunded"
  <2>1. u = PutPayment(t, x, q)
    BY <1>1 DEF HandlePayment, PutPayment, PayRow, PaymentTypes
  <2> HIDE DEF q
  <2>2. \A p \in Payments : u.payment[p] = IF p = x THEN q ELSE t.payment[p]
    BY <2>1, PutPaymentRow
  <2> QED
    BY <2>2 DEF q, PaymentChanges
<1>2. CASE e.type = "payment.refunded" /\ Lookup(t.payment, x) = Null
  BY <1>2, BillingAssumption DEF HandlePayment, Lookup, IsTables, PayRow, PaymentChanges
<1>3. CASE e.type = "payment.refunded" /\ Lookup(t.payment, x) # Null
  BY <1>3, PutPaymentRow
     DEF HandlePayment, PutPayment, IsTables, TableNames, Lookup, PayRow, q,
         PaymentChanges
<1> QED
  BY <1>1, <1>2, <1>3

\* So does the consumer's transaction.
LEMMA PaymentEffect ==
  ASSUME NoRowIsNoRecord, NEW t, IsTables(t), NEW e, e.type \in PaymentTypes,
         NEW u, u = HandleState(t, e)
  PROVE  PaymentChanges(t, u, e) /\ SameBut(t, u, {"payment", "log"})
<1> DEFINE v == LogEvent(t, e)
<1>1. IsTables(v) /\ SameBut(t, v, {"log"})
  BY Logged
<1>2. u = HandlePayment(v, e)
  BY Dispatched DEF HandleState
<1> HIDE DEF v
<1>3. PaymentChanges(v, u, e) /\ SameBut(v, u, {"payment"})
  BY <1>1, <1>2, PaymentRowMade, PaymentHandled DEF PaymentsKept
<1>4. v.payment = t.payment /\ v.customer = t.customer /\ v.invoice = t.invoice
  BY <1>1 DEF SameBut, TableNames
<1>5. \A r : PayRow(v, e, r) = PayRow(t, e, r)
  BY <1>4 DEF PayRow, PaymentRow
<1> QED
  BY <1>1, <1>3, <1>4, <1>5 DEF PaymentChanges, SameBut

-----------------------------------------------------------------------------
\* The coupon's row.
CouponRow(t, e) ==
  LET r == t.coupon[k1]
  IN  IF e.type = "coupon.deleted"
      THEN IF r = NoRow THEN NoRow ELSE [r EXCEPT !.valid = FALSE]
      ELSE [off |-> IF r = NoRow THEN e.p.off ELSE Coalesce(e.p.off, r.off),
            base |-> IF e.p.off = Null THEN 0 ELSE ToBase(e.p.off, e.p.cur),
            valid |-> e.p.valid]

\* The consumer's transaction makes it.
LEMMA CouponEffect ==
  ASSUME NoRowIsNoRecord, NEW t, IsTables(t), NEW e, e.obj = k1, e.type \in CouponTypes,
         NEW u, u = HandleState(t, e)
  PROVE  u.coupon[k1] = CouponRow(t, e) /\ SameBut(t, u, {"coupon", "log"})
<1> DEFINE v == LogEvent(t, e)
           q == CouponRow(t, e)
<1>1. IsTables(v) /\ SameBut(t, v, {"log"})
  BY Logged
<1>2. u = HandleCoupon(v, e)
  BY Dispatched DEF HandleState
<1> HIDE DEF v
<1>3. SameBut(v, u, {"coupon"})
  BY <1>1, <1>2, CouponHandled
<1>4. v.coupon = t.coupon
  BY <1>1 DEF SameBut, TableNames
<1>5. u = [v EXCEPT !.coupon[k1] = q]
  BY <1>2, <1>4 DEF HandleCoupon, CouponRow, CouponTypes
<1> HIDE DEF q
<1>6. u.coupon[k1] = q
  BY <1>1, <1>5, TheObjects DEF IsTables, TableNames
<1> QED
  BY <1>1, <1>3, <1>6 DEF SameBut, q

\* The credit note's row.
NoteRow(t, e) ==
  LET r == t.note[n1]
  IN  IF e.type = "credit_note.voided"
      THEN IF r = NoRow THEN NoRow
           ELSE [r EXCEPT !.status = "void", !.voidedAt = Coalesce(e.p.voidedAt, e.at)]
      ELSE IF r = NoRow
           THEN [invoice |-> Lookup(t.invoice, e.p.invoice),
                 customer |-> Lookup(t.customer, e.p.customer), status |-> e.p.status,
                 total |-> e.p.total, base |-> ToBase(e.p.total, e.p.cur),
                 voidedAt |-> Null]
           ELSE [r EXCEPT !.status = e.p.status, !.total = e.p.total,
                          !.base = ToBase(e.p.total, e.p.cur)]

\* The consumer's transaction makes it.
LEMMA NoteEffect ==
  ASSUME NoRowIsNoRecord, NEW t, IsTables(t), NEW e, e.obj = n1, e.type \in NoteTypes,
         NEW u, u = HandleState(t, e)
  PROVE  /\ u.note[n1] = NoteRow(t, e) /\ \A n \in Notes \ {n1} : u.note[n] = t.note[n]
         /\ SameBut(t, u, {"note", "log"})
<1> DEFINE v == LogEvent(t, e)
           q == NoteRow(t, e)
           new == [invoice |-> Lookup(t.invoice, e.p.invoice),
                   customer |-> Lookup(t.customer, e.p.customer), status |-> e.p.status,
                   total |-> e.p.total, base |-> ToBase(e.p.total, e.p.cur),
                   voidedAt |-> Null]
<1>1. IsTables(v) /\ SameBut(t, v, {"log"})
  BY Logged
<1>2. u = HandleCreditNote(v, e)
  BY Dispatched DEF HandleState
<1> HIDE DEF v
<1>3. SameBut(v, u, {"note"})
  BY <1>1, <1>2, NoteHandled
<1>4. v.note = t.note /\ v.invoice = t.invoice /\ v.customer = t.customer
  BY <1>1 DEF SameBut, TableNames
<1>5. u = [v EXCEPT !.note[n1] = q]
  BY <1>2, <1>4 DEF HandleCreditNote, NoteRow, NoteTypes
<1> HIDE DEF q
<1>6. u.note[n1] = q /\ \A n \in Notes \ {n1} : u.note[n] = v.note[n]
  BY <1>1, <1>5, TheObjects DEF IsTables, TableNames
<1> QED
  BY <1>1, <1>3, <1>4, <1>6 DEF SameBut, q

\* The product, the prices and the customer are not what is billed.
LEMMA OtherEffect ==
  ASSUME NoRowIsNoRecord, NEW t, IsTables(t), NEW e, e.type \in OtherTypes,
         NEW u, u = HandleState(t, e)
  PROVE  SameBut(t, u, {"product", "plan", "customer", "log"})
<1> DEFINE v == LogEvent(t, e)
<1>1. IsTables(v) /\ SameBut(t, v, {"log"})
  BY Logged
<1>2. u = Dispatch(v, e)
  BY DEF HandleState
<1> HIDE DEF v
<1>3. SameBut(v, u, {"product"}) \/ SameBut(v, u, {"plan"}) \/ SameBut(v, u, {"customer"})
  BY <1>1, <1>2, Dispatched, ProductHandled, PlanHandled, CustomerHandled DEF OtherTypes
<1> QED
  BY <1>1, <1>3 DEF SameBut

-----------------------------------------------------------------------------
(* Every column of every row has its type *)

RowRec == [customer : Customers \union {Null}, plan : Plans \union {Null},
           status : CanonicalSubscriptionStatuses, mrr : 0..3, base : 0..3,
           pending : BOOLEAN, canceledAt : Times \union {Null},
           endedAt : Times \union {Null}]

Typed(t) ==
  /\ IsSubs(t.sub)
  /\ \A s \in Subs : t.sub[s] # NoRow => t.sub[s] \in RowRec
  /\ \A x \in Items : t.item[x] # NoRow => /\ t.item[x].sub = s1
                                           /\ t.item[x].plan \in Plans \union {Null}
                                           /\ "mrr" \in DOMAIN t.item[x]
  /\ \A i \in Invoices : t.invoice[i] # NoRow =>
       /\ {"status", "total", "paidAt", "voidedAt"} \subseteq DOMAIN t.invoice[i]
       /\ t.invoice[i].status \in CanonicalInvoiceStatuses
  /\ \A i \in Invoices \ {i1} : t.invoice[i] = NoRow
  /\ \A i \in Invoices : \A li \in t.line[i] : li.kind \in CanonicalLineKinds
  /\ \A p \in Payments : t.payment[p] # NoRow =>
       /\ {"status", "refundedAt"} \subseteq DOMAIN t.payment[p]
       /\ t.payment[p].status \in CanonicalPaymentStatuses
  /\ \A n \in Notes : t.note[n] # NoRow =>
       /\ {"status", "invoice", "voidedAt"} \subseteq DOMAIN t.note[n]
       /\ t.note[n].status \in CanonicalNoteStatuses
  /\ t.coupon[k1] # NoRow => "valid" \in DOMAIN t.coupon[k1]

\* Some columns of a row are written.
LEMMA ColumnsWritten ==
  ASSUME NEW r \in RowRec
  PROVE  /\ \A x \in Plans \union {Null} : [r EXCEPT !.plan = x] \in RowRec
         /\ \A x \in CanonicalSubscriptionStatuses : [r EXCEPT !.status = x] \in RowRec
         /\ \A x \in 0..3 : [r EXCEPT !.mrr = x] \in RowRec
         /\ \A x \in 0..3 : [r EXCEPT !.base = x] \in RowRec
         /\ \A x \in BOOLEAN : [r EXCEPT !.pending = x] \in RowRec
         /\ \A x \in Times \union {Null} : [r EXCEPT !.canceledAt = x] \in RowRec
         /\ \A x \in Times \union {Null} : [r EXCEPT !.endedAt = x] \in RowRec
<1> DEFINE customers == Customers \union {Null}
           plans == Plans \union {Null}
           amounts == 0..3
           dates == Times \union {Null}
<1>1. RowRec = [customer : customers, plan : plans,
                status : CanonicalSubscriptionStatuses, mrr : amounts, base : amounts,
                pending : BOOLEAN, canceledAt : dates, endedAt : dates]
  BY DEF RowRec
<1> HIDE DEF customers, plans, amounts, dates
<1>2. /\ \A x \in plans : [r EXCEPT !.plan = x] \in RowRec
      /\ \A x \in CanonicalSubscriptionStatuses : [r EXCEPT !.status = x] \in RowRec
      /\ \A x \in amounts : [r EXCEPT !.mrr = x] \in RowRec
      /\ \A x \in amounts : [r EXCEPT !.base = x] \in RowRec
  BY <1>1
<1>3. /\ \A x \in BOOLEAN : [r EXCEPT !.pending = x] \in RowRec
      /\ \A x \in dates : [r EXCEPT !.canceledAt = x] \in RowRec
      /\ \A x \in dates : [r EXCEPT !.endedAt = x] \in RowRec
  BY <1>1
<1> QED
  BY <1>2, <1>3 DEF plans, amounts, dates

\* What is found is a key of the table.
LEMMA Found ==
  ASSUME NEW f, NEW x
  PROVE  Lookup(f, x) \in DOMAIN f \union {Null}
BY DEF Lookup

\* The subscription's row keeps its type.
LEMMA SubRowTyped ==
  ASSUME NEW t, IsTables(t), NEW e, Formed(e), e.type \in SubTypes,
         e.type = "subscription.created" => e.p.status \in CanonicalSubscriptionStatuses,
         t.sub[s1] # NoRow => t.sub[s1] \in RowRec
  PROVE  SubRow(t, e) # NoRow => SubRow(t, e) \in RowRec
<1> DEFINE r == t.sub[s1]
           plan == Lookup(t.plan, e.p.plan)
<1>1. /\ Lookup(t.customer, e.p.customer) \in Customers \union {Null}
      /\ plan \in Plans \union {Null}
  BY Found DEF IsTables
<1>2. /\ "active" \in CanonicalSubscriptionStatuses /\ "paused" \in CanonicalSubscriptionStatuses
      /\ "canceled" \in CanonicalSubscriptionStatuses /\ Null \in Times \union {Null}
      /\ 0 \in 0..3 /\ TRUE \in BOOLEAN /\ FALSE \in BOOLEAN
  BY DEF CanonicalSubscriptionStatuses
<1>3. CASE r = NoRow
  <2>1. CASE e.type = "subscription.created"
    <3> DEFINE customers == Customers \union {Null}
               plans == Plans \union {Null}
               amounts == 0..3
               dates == Times \union {Null}
               c == Lookup(t.customer, e.p.customer)
               m == e.p.mrr
               s == e.p.status
    <3>1. /\ c \in customers /\ plan \in plans /\ m \in amounts /\ Null \in dates
          /\ s \in CanonicalSubscriptionStatuses
      BY <1>1, <1>2, <2>1 DEF Formed, AmountTypes
    <3>2. SubRow(t, e) = [customer |-> c, plan |-> plan, status |-> s, mrr |-> m,
                          base |-> m, pending |-> FALSE, canceledAt |-> Null,
                          endedAt |-> Null]
      BY <1>3, <2>1 DEF SubRow, NewSubRow
    <3>3. RowRec = [customer : customers, plan : plans,
                    status : CanonicalSubscriptionStatuses, mrr : amounts, base : amounts,
                    pending : BOOLEAN, canceledAt : dates, endedAt : dates]
      BY DEF RowRec
    <3> HIDE DEF customers, plans, amounts, dates, c, m, s, plan, r
    <3> QED
      BY <3>1, <3>2, <3>3
  <2>2. CASE e.type # "subscription.created"
    BY <1>3, <2>2 DEF SubRow
  <2> QED
    BY <2>1, <2>2
<1>4. CASE r # NoRow
  <2>1. r \in RowRec /\ SubRow(t, e) = SubRewritten(t, e, r)
    BY <1>4 DEF SubRow
  <2> HIDE DEF r
  <2>2. CASE e.type = "subscription.created"
    <3>1. e.p.mrr \in 0..3 /\ e.p.status \in CanonicalSubscriptionStatuses
      BY <2>2 DEF Formed, AmountTypes
    <3> DEFINE a == [r EXCEPT !.status = e.p.status]
               b == [a EXCEPT !.mrr = e.p.mrr]
    <3>2. SubRewritten(t, e, r) = [b EXCEPT !.base = e.p.mrr]
      BY <2>2 DEF SubRewritten, ActiveTypes
    <3>3. a \in RowRec
      BY <2>1, <3>1, ColumnsWritten
    <3> HIDE DEF a
    <3>4. b \in RowRec
      BY <3>1, <3>3, ColumnsWritten
    <3> HIDE DEF b
    <3> QED
      BY <2>1, <3>1, <3>2, <3>4, ColumnsWritten
  <2>3. CASE e.type \in ActiveTypes
    <3>1. e.p.mrr \in 0..3
      BY <2>3 DEF Formed, AmountTypes
    <3> DEFINE a == [r EXCEPT !.status = "active"]
               b == [a EXCEPT !.mrr = e.p.mrr]
               c == [b EXCEPT !.endedAt = Null]
               d == [c EXCEPT !.canceledAt = Null]
    <3>2. SubRewritten(t, e, r) = [d EXCEPT !.pending = FALSE]
      BY <2>3 DEF SubRewritten, ActiveTypes
    <3>3. a \in RowRec
      BY <1>2, <2>1, ColumnsWritten
    <3> HIDE DEF a
    <3>4. b \in RowRec
      BY <3>1, <3>3, ColumnsWritten
    <3> HIDE DEF b
    <3>5. c \in RowRec
      BY <1>2, <3>4, ColumnsWritten
    <3> HIDE DEF c
    <3>6. d \in RowRec
      BY <1>2, <3>5, ColumnsWritten
    <3> HIDE DEF d
    <3> QED
      BY <1>2, <2>1, <3>2, <3>6, ColumnsWritten
  <2>4. CASE e.type = "subscription.changed"
    <3>1. e.p.mrr \in 0..3
      BY <2>4 DEF Formed, AmountTypes
    <3> DEFINE a == [r EXCEPT !.mrr = e.p.mrr]
               given == Coalesce(plan, r.plan)
    <3>2. a \in RowRec
      BY <2>1, <3>1, ColumnsWritten
    <3>3. given \in Plans \union {Null}
      BY <1>1, <2>1 DEF Coalesce, RowRec
    <3>4. SubRewritten(t, e, r) = [r EXCEPT !.mrr = e.p.mrr, !.plan = Coalesce(plan, @)]
      BY <2>4 DEF SubRewritten, ActiveTypes
    <3>5. SubRewritten(t, e, r) = [r EXCEPT !.mrr = e.p.mrr, !.plan = given]
      <4> HIDE DEF plan
      <4> QED
        BY <3>4
    <3>6. SubRewritten(t, e, r) = [a EXCEPT !.plan = given]
      BY <3>5
    <3> HIDE DEF a, given
    <3>7. \A x \in Plans \union {Null} : [a EXCEPT !.plan = x] \in RowRec
      BY <3>2, ColumnsWritten
    <3>8. [a EXCEPT !.plan = given] \in RowRec
      BY <3>3, <3>7
    <3> QED
      BY <2>1, <3>6, <3>8
  <2>5. CASE e.type = "subscription.canceled"
    <3> DEFINE at == Coalesce(e.p.canceledAt, e.at)
               a == [r EXCEPT !.status = "canceled"]
               b == [a EXCEPT !.pending = TRUE]
    <3>1. at \in Times \union {Null}
      BY <2>5, BillingAssumption DEF Formed, Coalesce, Times
    <3>2. SubRewritten(t, e, r) = [b EXCEPT !.canceledAt = at]
      BY <2>5 DEF SubRewritten, ActiveTypes
    <3> HIDE DEF at
    <3>3. a \in RowRec
      BY <1>2, <2>1, ColumnsWritten
    <3> HIDE DEF a
    <3>4. b \in RowRec
      BY <1>2, <3>3, ColumnsWritten
    <3> HIDE DEF b
    <3> QED
      BY <2>1, <3>1, <3>2, <3>4, ColumnsWritten
  <2>6. CASE e.type = "subscription.churned"
    <3> DEFINE a == [r EXCEPT !.status = "canceled"]
               b == [a EXCEPT !.mrr = 0]
    <3>1. e.at \in Times \union {Null}
      BY <2>6 DEF Formed
    <3>2. SubRewritten(t, e, r) = [b EXCEPT !.endedAt = e.at]
      BY <2>6 DEF SubRewritten, ActiveTypes
    <3>3. a \in RowRec
      BY <1>2, <2>1, ColumnsWritten
    <3> HIDE DEF a
    <3>4. b \in RowRec
      BY <1>2, <3>3, ColumnsWritten
    <3> HIDE DEF b
    <3> QED
      BY <2>1, <3>1, <3>2, <3>4, ColumnsWritten
  <2>7. CASE e.type = "subscription.paused"
    <3> DEFINE a == [r EXCEPT !.status = "paused"]
    <3>1. SubRewritten(t, e, r) = [a EXCEPT !.mrr = 0]
      BY <2>7 DEF SubRewritten, ActiveTypes
    <3>2. a \in RowRec
      BY <1>2, <2>1, ColumnsWritten
    <3> HIDE DEF a
    <3> QED
      BY <1>2, <2>1, <3>1, <3>2, ColumnsWritten
  <2>8. CASE e.type \in {"subscription.trial_started", "subscription.trial_converted",
                        "subscription.trial_expired"}
    BY <2>1, <2>8 DEF SubRewritten, ActiveTypes
  <2> QED
    BY <2>2, <2>3, <2>4, <2>5, <2>6, <2>7, <2>8 DEF SubTypes, ActiveTypes
<1> QED
  BY <1>3, <1>4

\* Sets of rows unchanged ...
LEMMA TypedSame ==
  ASSUME NEW t, NEW u, Typed(t), SameBut(t, u, {"product", "plan", "customer", "log"})
  PROVE  Typed(u)
BY DEF SameBut, TableNames, Typed

\* The items of a payload have their types.
LEMMA ItemsTyped ==
  ASSUME NEW t, IsTables(t), NEW items, NEW f, f = ItemsNow(t.plan, items)
  PROVE  \A x \in Items : f[x] # NoRow => /\ f[x].sub = s1
                                          /\ f[x].plan \in Plans \union {Null}
                                          /\ "mrr" \in DOMAIN f[x]
<1> SUFFICES ASSUME NEW x \in Items, f[x] # NoRow
             PROVE  /\ f[x].sub = s1 /\ f[x].plan \in Plans \union {Null}
                    /\ "mrr" \in DOMAIN f[x]
  OBVIOUS
<1> DEFINE plan == Lookup(t.plan, items[x].plan)
<1>1. f[x] = [sub |-> s1, plan |-> plan, mrr |-> items[x].mrr,
              base |-> ToBase(items[x].mrr, items[x].cur)]
  BY DEF ItemsNow
<1>2. plan \in Plans \union {Null}
  BY Found DEF IsTables
<1> HIDE DEF plan
<1> QED
  BY <1>1, <1>2

\* A line is given a canonical kind.
LEMMA LinesTyped ==
  ASSUME NEW t, NEW e, \A li \in e.p.lines : li.kind \in CanonicalLineKinds
  PROVE  \A li \in Lines(t, e) : li.kind \in CanonicalLineKinds
BY DEF LineKind, CanonicalLineKinds, Lines

\* The invoice's row keeps its type, ...
LEMMA InvoiceRowTyped ==
  ASSUME NEW t, NEW e, Formed(e), e.type \in InvoiceTypes,
         t.invoice[i1] # NoRow =>
           /\ {"status", "total", "paidAt", "voidedAt"} \subseteq DOMAIN t.invoice[i1]
           /\ t.invoice[i1].status \in CanonicalInvoiceStatuses
  PROVE  InvoiceRow(t, e) # NoRow =>
           /\ {"status", "total", "paidAt", "voidedAt"} \subseteq DOMAIN InvoiceRow(t, e)
           /\ InvoiceRow(t, e).status \in CanonicalInvoiceStatuses
<1> DEFINE r == t.invoice[i1]
           q == InvoiceRow(t, e)
<1>1. CASE e.type = "invoice.created"
  BY <1>1 DEF Formed, InvoiceRow, q
<1>2. CASE e.type = "invoice.paid"
  BY <1>2 DEF InvoiceRow, CanonicalInvoiceStatuses
<1>3. CASE e.type = "invoice.voided"
  BY <1>3 DEF InvoiceRow, CanonicalInvoiceStatuses
<1>4. CASE e.type = "invoice.uncollectible"
  BY <1>4 DEF InvoiceRow, CanonicalInvoiceStatuses
<1> QED
  BY <1>1, <1>2, <1>3, <1>4 DEF InvoiceTypes

\* ... a payment's too, ...
LEMMA PayRowTyped ==
  ASSUME NEW t, NEW e, e.type \in PaymentTypes, NEW r,
         r # NoRow => /\ {"status", "refundedAt"} \subseteq DOMAIN r
                      /\ r.status \in CanonicalPaymentStatuses
  PROVE  PayRow(t, e, r) # NoRow =>
           /\ {"status", "refundedAt"} \subseteq DOMAIN PayRow(t, e, r)
           /\ PayRow(t, e, r).status \in CanonicalPaymentStatuses
BY DEF PayRow, PaymentRow, CanonicalPaymentStatuses

\* ... and the credit note's.
LEMMA NoteRowTyped ==
  ASSUME NEW t, NEW e, Formed(e), e.type \in NoteTypes,
         t.note[n1] # NoRow =>
           /\ {"status", "invoice", "voidedAt"} \subseteq DOMAIN t.note[n1]
           /\ t.note[n1].status \in CanonicalNoteStatuses
  PROVE  NoteRow(t, e) # NoRow =>
           /\ {"status", "invoice", "voidedAt"} \subseteq DOMAIN NoteRow(t, e)
           /\ NoteRow(t, e).status \in CanonicalNoteStatuses
<1> DEFINE r == t.note[n1]
           q == NoteRow(t, e)
<1>1. CASE e.type = "credit_note.created"
  BY <1>1 DEF Formed, NoteRow, q
<1>2. CASE e.type = "credit_note.voided"
  BY <1>2 DEF NoteRow, CanonicalNoteStatuses
<1> QED
  BY <1>1, <1>2 DEF NoteTypes

\* No event takes a table out of its type.
LEMMA TypedKept ==
  ASSUME NoRowIsNoRecord, NEW t, IsTables(t), Typed(t), NEW e, Formed(e), NEW o, Sound(e, o),
         NEW rates, ~Raises(t, e, rates), NEW u, u = HandleState(t, e)
  PROVE  Typed(u)
<1>1. CASE e.type \in SubTypes
  <2>1. e.obj = s1
    BY <1>1 DEF Sound
  <2>2. SubChanges(t, u, e) /\ SameBut(t, u, {"sub", "item", "log"})
    BY <1>1, <2>1, SubEffect
  <2>3. e.type = "subscription.created" => e.p.status \in CanonicalSubscriptionStatuses
    BY DEF Raises
  <2>4. t.sub[s1] # NoRow => t.sub[s1] \in RowRec
    BY TheObjects DEF Typed
  <2>5. u.sub[s1] # NoRow => u.sub[s1] \in RowRec
    BY <1>1, <2>2, <2>3, <2>4, SubRowTyped DEF SubChanges
  <2>6. IsSubs(u.sub) /\ \A s \in Subs : u.sub[s] # NoRow => u.sub[s] \in RowRec
    BY <2>2, <2>5 DEF SubChanges, Typed
  <2>7. \A x \in Items : u.item[x] # NoRow => /\ u.item[x].sub = s1
                                              /\ u.item[x].plan \in Plans \union {Null}
                                              /\ "mrr" \in DOMAIN u.item[x]
    BY <2>2, ItemsTyped DEF SubChanges, Typed
  <2>8. /\ u.invoice = t.invoice /\ u.line = t.line /\ u.payment = t.payment
        /\ u.coupon = t.coupon /\ u.note = t.note
    BY <2>2 DEF SameBut, TableNames
  <2> QED
    BY <2>6, <2>7, <2>8 DEF Typed
<1>2. CASE e.type \in InvoiceTypes
  BY <1>2, InvoiceEffect, TheObjects, InvoiceRowTyped, LinesTyped
     DEF Formed, Typed, InvoiceChanges, SameBut, TableNames
<1>3. CASE e.type \in PaymentTypes
  BY <1>3, PaymentEffect, PayRowTyped DEF Typed, PaymentChanges, SameBut, TableNames
<1>4. CASE e.type \in CouponTypes
  <2>1. u.coupon[k1] = CouponRow(t, e) /\ SameBut(t, u, {"coupon", "log"})
    BY <1>4, CouponEffect DEF Formed
  <2>2. u.coupon[k1] # NoRow => "valid" \in DOMAIN u.coupon[k1]
    BY <2>1 DEF CouponRow, Typed
  <2>3. /\ u.sub = t.sub /\ u.item = t.item /\ u.invoice = t.invoice /\ u.line = t.line
        /\ u.payment = t.payment /\ u.note = t.note
    BY <2>1 DEF SameBut, TableNames
  <2> QED
    BY <2>2, <2>3 DEF Typed
<1>5. CASE e.type \in NoteTypes
  BY <1>5, NoteEffect, TheObjects, NoteRowTyped DEF Formed, Typed, SameBut, TableNames
<1>6. CASE e.type \in OtherTypes
  BY <1>6, OtherEffect, TypedSame
<1> QED
  BY <1>1, <1>2, <1>3, <1>4, <1>5, <1>6 DEF Sound, AllTypes, OtherTypes

-----------------------------------------------------------------------------
(* The types are kept *)

TypesInv ==
  /\ source \in {"stripe", "chargebee"} /\ turns \in Times
  /\ Shaped(obj, source, turns)
  /\ obj.note # NoRow => obj.invoice # NoRow
  /\ \A e \in Known : Formed(e)
  /\ Typed(tables)
  /\ \A e \in Range(queue["customer"]) : Partition(e) = "customer"
  /\ steady \in {"calm", "refreshed", "disturbed"}

\* What is published under the customer's key is the customer's.
LEMMA Addressed ==
  ASSUME Streams, NEW events, IsStream(events), Publish(events),
         \A e \in Range(queue["customer"]) : Partition(e) = "customer"
  PROVE  \A e \in Range(queue'["customer"]) : Partition(e) = "customer"
BY KeyedIs, Joined DEF Streams, Publish

\* Formed events keep the types of everything but the tables and the objects.
LEMMA Delivered ==
  ASSUME TypesInv, UNCHANGED <<source, turns, obj, tables>>,
         \A e \in Known' : Formed(e),
         \A e \in Range(queue'["customer"]) : Partition(e) = "customer",
         steady' \in {"calm", "refreshed", "disturbed"}
  PROVE  TypesInv'
BY DEF TypesInv, Shaped, SubShape, InvoiceShape, NoteShape, Typed

\* A turn's webhook is formed, ...
LEMMA TypesTurn ==
  ASSUME NoRowIsNoRecord, BillingInv, TypesInv, Turn
  PROVE  TypesInv'
<1>1. PICK o, s : Act(o, s) /\ Turned(obj, o, source, Now, s)
  BY TurnIs DEF BillingInv, TypesInv
<1>2. /\ turns < MaxTurns /\ turns' = turns + 1 /\ obj' = o /\ Send(s)
      /\ UNCHANGED <<source, tables, parked>>
  BY <1>1 DEF Act, state
<1>3. turns \in Nat /\ turns + 1 \in Times
  BY <1>2, BillingAssumption DEF TypesInv, Times
<1>4. Shaped(o, source, turns + 1) /\ FormedStream(s)
  BY <1>1, <1>3, TurnedFormed DEF TypesInv, Now
<1>5. Shaped(obj, source, turns)'
  BY <1>2, <1>4 DEF Shaped, SubShape, InvoiceShape, NoteShape
<1>6. o.note # NoRow => o.invoice # NoRow
  BY <1>1, <1>3, ShapesLater, InvoiceTurnedFormed
     DEF TypesInv, Rest, Shaped, Now, InvoiceShape, NoRowIsNoRecord, Turned
<1>7. Known' = Known \union Range(s)
  BY <1>2, <1>4, Reported DEF BillingInv, FormedStream
<1>8. (\A e \in Known : Formed(e))'
  BY <1>4, <1>7 DEF TypesInv, FormedStream
<1>9. \A e \in Range(queue'["customer"]) : Partition(e) = "customer"
  BY <1>2, <1>4, Addressed DEF TypesInv, BillingInv, FormedStream, Send
<1>10. steady' \in {"calm", "refreshed", "disturbed"}
  BY <1>2 DEF Send, TypesInv
<1>11. Typed(tables)'
  BY <1>2 DEF TypesInv, Typed
<1> QED
  BY <1>2, <1>3, <1>5, <1>6, <1>8, <1>9, <1>10, <1>11 DEF TypesInv

\* ... so are a backfill's events, ...
LEMMA BackfillFormed ==
  ASSUME BillingInv, TypesInv, source = "stripe"
  PROVE  FormedStream(BackfillEvents)
<1> DEFINE product == Stripe!Product("product.created", obj.product, Now)
           plan(p) == Stripe!Price("plan.created", obj.price[p], Now)
           customer == IF obj.customer = NoRow THEN <<>>
                       ELSE Stripe!Customer("customer.created", obj.customer)
           sub == IF obj.sub = NoRow THEN <<>> ELSE Stripe!SubBackfill(obj.sub)
           invoice == IF obj.invoice = NoRow THEN <<>>
                      ELSE Stripe!InvoiceBackfill(obj.invoice)
           payment == IF obj.payment = NoRow THEN <<>>
                      ELSE Stripe!PaymentBackfill(obj.payment)
<1>1. /\ FormedStream(product)
      /\ FormedStream(plan("monthly")) /\ FormedStream(plan("yearly"))
      /\ FormedStream(plan("metered"))
  BY CatalogFormed DEF ProductTypes, PlanTypes
<1>2. FormedStream(customer)
  BY CustomerFormed, FormedNothing DEF BillingInv, Objects, CustomerTypes
<1>3. FormedStream(sub)
  BY StripeSubBackfillFormed, FormedNothing DEF TypesInv, Shaped
<1>4. FormedStream(invoice)
  BY StripeInvoiceFormed, FormedNothing DEF TypesInv, Shaped
<1>5. FormedStream(payment)
  BY PaymentFormed, FormedNothing DEF TypesInv, Shaped
<1>6. BackfillEvents = product \o plan("monthly") \o plan("yearly") \o plan("metered")
                       \o customer \o sub \o invoice \o payment
  BY DEF BackfillEvents
<1> HIDE DEF product, plan, customer, sub, invoice, payment
<1>7. FormedStream(product \o plan("monthly") \o plan("yearly") \o plan("metered"))
  BY <1>1, FormedBoth
<1>8. FormedStream(product \o plan("monthly") \o plan("yearly") \o plan("metered")
                   \o customer \o sub)
  BY <1>2, <1>3, <1>7, FormedBoth
<1> QED
  BY <1>4, <1>5, <1>6, <1>8, FormedBoth

\* ... and whatever the bus delivers was formed when it was reported.
LEMMA TypesDelivery ==
  ASSUME BillingInv, TypesInv, Arrive \/ Resend \/ Replay \/ Backfill \/ RatesArrive
  PROVE  TypesInv'
<1>1. ASSUME NEW events, FormedStream(events), Publish(events),
             UNCHANGED <<source, turns, obj, parked, tables>>,
             EventsOf(late') \subseteq EventsOf(late),
             EventsOf(sent') \subseteq EventsOf(sent) \union Range(events),
             steady' \in {"calm", "refreshed", "disturbed"}
      PROVE  TypesInv'
  BY <1>1, Published, Addressed, Delivered
     DEF BillingInv, Known, Waiting, FormedStream, TypesInv
<1>2. CASE Arrive
  BY <1>1, <1>2
     DEF Arrive, BillingInv, Streams, Known, Waiting, EventsOf, TypesInv, FormedStream,
         state
<1>3. CASE Resend
  BY <1>1, <1>3
     DEF Resend, BillingInv, Streams, Known, Waiting, EventsOf, TypesInv, FormedStream,
         state
<1>4. CASE Replay
  BY <1>4, Appended, Delivered
     DEF Replay, BillingInv, Streams, Known, Waiting, state, TypesInv
<1>5. CASE Backfill
  BY <1>1, <1>5, BackfillFormed DEF Backfill, state
<1>6. CASE RatesArrive
  BY <1>6, Delivered DEF RatesArrive, bus, Known, Waiting, TypesInv
<1> QED
  BY <1>2, <1>3, <1>4, <1>5, <1>6

\* The consumer keeps the tables' types, as what it handles is formed.
LEMMA TypesConsumed ==
  ASSUME NoRowIsNoRecord, BillingInv, TypesInv, NEW p \in {"catalog", "customer"}, Consume(p)
  PROVE  TypesInv'
<1>1. PICK e : /\ e = Head(queue[p])
               /\ queue[p] # <<>> /\ queue' = [queue EXCEPT ![p] = Tail(@)]
               /\ UNCHANGED <<source, turns, obj, late, sent>>
               /\ Handle(p, e) \/ SetAside(p, e)
  BY DEF Consume
<1>2. Range(queue["catalog"]) \union Range(queue["customer"]) =
        Range(queue'["catalog"]) \union Range(queue'["customer"]) \union {e}
  BY <1>1, Taken DEF BillingInv
<1>3. Sound(e, obj) /\ Formed(e)
  BY <1>1, <1>2 DEF BillingInv, TypesInv, Known, Waiting
<1>4. \A d \in Range(queue'["customer"]) : Partition(d) = "customer"
  BY <1>1, Consumed DEF BillingInv, Streams, TypesInv
<1>5. parked' \subseteq parked \union {e}
  BY <1>1 DEF Handle, SetAside
<1>6. \A d \in Known' : Formed(d)
  BY <1>1, <1>2, <1>3, <1>5 DEF TypesInv, Known, Waiting
<1>7. steady' \in {"calm", "refreshed", "disturbed"}
  BY <1>1 DEF Handle, SetAside, TypesInv
<1>8. CASE SetAside(p, e)
  BY <1>1, <1>4, <1>6, <1>7, <1>8, Delivered DEF SetAside
<1>9. CASE Handle(p, e)
  <2>1. ~Raises(tables, e, fx) /\ tables' = HandleState(tables, e)
    BY <1>9 DEF Handle
  <2>2. Typed(tables')
    BY <1>3, <2>1, TypedKept DEF BillingInv, TypesInv
  <2>3. Typed(tables)' /\ Shaped(obj, source, turns)'
    BY <1>1, <2>2 DEF TypesInv, Typed, Shaped, SubShape, InvoiceShape, NoteShape
  <2>4. (\A d \in Known : Formed(d))'
    BY <1>6
  <2> QED
    BY <1>1, <1>4, <1>7, <2>3, <2>4 DEF TypesInv
<1> QED
  BY <1>1, <1>8, <1>9

\* What the provider reports first is formed and of the catalog, but for the
\* customer.
LEMMA OpeningFormed ==
  ASSUME source \in {"stripe", "chargebee"}
  PROVE  /\ FormedStream(Opening[1]) /\ FormedStream(Opening[2])
         /\ FormedStream(Opening[3]) /\ FormedStream(Opening[4])
         /\ FormedStream(Opening[5]) /\ FormedStream(Opening[6])
         /\ Single(Opening[1], "product.created", ProductObj.id)
BY CatalogFormed, CouponFormed, CustomerFormed, StripeSingles, ChargebeeSingles
   DEF CustomerObj, CouponObj, CouponShape, ProductTypes, PlanTypes, CustomerTypes,
       CouponTypes, Opening

\* Empty tables are of every type.
LEMMA EmptyTyped == Typed(NoTables)
BY TheObjects DEF NoTables, Typed, IsSubs

\* The tables after the first events of the catalog.
LEMMA OpenedTables ==
  ASSUME NoRowIsNoRecord, NEW product, product.type \in OtherTypes, NEW monthly,
         monthly.type \in OtherTypes, NEW yearly, yearly.type \in OtherTypes,
         NEW o, Sound(product, o), Sound(monthly, o),
         NEW one, one = HandleState(NoTables, product),
         NEW two, two = HandleState(one, monthly)
  PROVE  \A u \in {two, HandleState(two, yearly)} :
           /\ Typed(u) /\ u.sub = NoTables.sub
           /\ u.invoice = NoTables.invoice /\ u.note = NoTables.note
BY EmptyTables, StateHandled, EmptyTyped, OtherEffect, TypedSame
   DEF Handled, SameBut, TableNames

\* The types hold at first, ...
LEMMA TypesInit ==
  ASSUME NoRowIsNoRecord, Init
  PROVE  /\ TypesInv /\ tables.sub[s1] = NoRow
         /\ tables.invoice = NoTables.invoice /\ tables.note = NoTables.note
         /\ \A e \in Known : e.type \notin SubTypes
         /\ \A e \in Range(queue["catalog"]) : Partition(e) = "catalog"
<1>1. source \in {"stripe", "chargebee"} /\ turns = 0 /\ turns \in Times
  BY BillingAssumption DEF Init, Times
<1>2. PICK product, monthly, yearly, metered, coupon, customer :
           Opens(obj, product, monthly, yearly, metered, coupon, customer)
  BY Opened
<1>3. product.type = "product.created"
  BY <1>1, <1>2, OpeningFormed DEF Opens, Single
<1>4. /\ Formed(product) /\ Formed(monthly) /\ Formed(yearly) /\ Formed(metered)
      /\ Formed(coupon) /\ Formed(customer)
  BY <1>1, <1>2, OneEvent, OpeningFormed DEF Opens, FormedStream
<1>5. Partition(customer) = "customer"
  BY <1>2, <1>4, Keys DEF Opens, CatalogTypes, ProductTypes, PlanTypes, CouponTypes
<1> DEFINE lagging == IF scene = "subs" THEN Opening[3] ELSE Opening[4] \o Opening[5]
           one == HandleState(NoTables, product)
           two == HandleState(one, monthly)
<1>6. /\ parked = {}
      /\ \/ /\ queue = [catalog |-> lagging, customer |-> <<customer>>]
            /\ late = {} /\ sent = {<<customer>>}
         \/ /\ queue = [catalog |-> lagging, customer |-> <<>>]
            /\ late = {<<customer>>} /\ sent = {}
  BY <1>2, Zenon DEF Opens, Init
<1>7. Range(lagging) \subseteq {yearly, metered, coupon}
  BY <1>2, OneEvent, Joined DEF Opens
<1> HIDE DEF lagging
<1>8. /\ Range(queue["customer"]) \subseteq {customer}
      /\ Known \subseteq {yearly, metered, coupon, customer}
      /\ Range(queue["catalog"]) \subseteq {yearly, metered, coupon}
  BY <1>6, <1>7, OneEvent, NoEvents DEF EventsOf, Known, Waiting
<1>12. /\ \A e \in Known : e.type \notin SubTypes
       /\ \A e \in Range(queue["catalog"]) : Partition(e) = "catalog"
  BY <1>2, <1>4, <1>8, Keys DEF Opens, SubTypes, CatalogTypes, PlanTypes, CouponTypes
<1>9. /\ Typed(tables) /\ tables.sub[s1] = NoRow
      /\ tables.invoice = NoTables.invoice /\ tables.note = NoTables.note
  <2>1. Head(Opening[1]) = product /\ Head(Opening[2]) = monthly /\ Head(Opening[3]) = yearly
    BY <1>2 DEF Opens
  <2>2. tables = IF scene = "subs" THEN two ELSE HandleState(two, yearly)
    BY <2>1 DEF Init
  <2>3. /\ product.type \in OtherTypes /\ monthly.type \in OtherTypes
        /\ yearly.type \in OtherTypes
    BY <1>2, <1>3 DEF Opens, OtherTypes, ProductTypes, PlanTypes
  <2>4. \A u \in {two, HandleState(two, yearly)} :
          /\ Typed(u) /\ u.sub = NoTables.sub
          /\ u.invoice = NoTables.invoice /\ u.note = NoTables.note
    BY <1>2, <2>3, OpenedTables DEF Opens
  <2>5. NoTables.sub[s1] = NoRow
    BY TheObjects DEF NoTables
  <2> HIDE DEF two
  <2> QED
    BY <2>2, <2>4, <2>5
<1>10. Shaped(obj, source, turns) /\ obj.note = NoRow
  BY DEF Init, CouponShape, CouponObj, Shaped
<1>11. steady \in {"calm", "refreshed", "disturbed"}
  BY DEF Init
<1> QED
  BY <1>1, <1>4, <1>5, <1>8, <1>9, <1>10, <1>11, <1>12 DEF TypesInv

\* ... after every step, ...
LEMMA TypesStep ==
  ASSUME NoRowIsNoRecord, BillingInv, TypesInv, [Next]_vars
  PROVE  TypesInv'
BY Delivered, TypesTurn, TypesDelivery, TypesConsumed
   DEF vars, Known, Waiting, TypesInv, Next

\* ... and so always.
LEMMA TypesAlways == NoRowIsNoRecord => (Spec => [](BillingInv /\ TypesInv))
<1> SUFFICES ASSUME NoRowIsNoRecord PROVE Spec => [](BillingInv /\ TypesInv)
  OBVIOUS
<1>1. Init => BillingInv /\ TypesInv
  BY BillingInvInit, TypesInit
<1>2. BillingInv /\ TypesInv /\ [Next]_vars => BillingInv' /\ TypesInv'
  BY BillingInvStep, TypesStep
<1> QED
  BY <1>1, <1>2, PTL DEF Spec

\* Every column of a subscription, and the status of an invoice, a payment and a
\* credit note, is of the canonical values, whatever the connectors report
\* (stripe/connector.py, chargebee/connector.py, state.py).
THEOREM BillingTypes == NoRowIsNoRecord => (Spec => []TypeOK)
<1>1. BillingInv /\ TypesInv => TypeOK
  <2> SUFFICES ASSUME BillingInv, TypesInv PROVE TypeOK
    OBVIOUS
  <2> DEFINE rows == [customer : Customers \union {Null}, plan : Plans \union {Null},
                      status : CanonicalSubscriptionStatuses, mrr : 0..3, base : 0..3,
                      pending : BOOLEAN, canceledAt : 0..MaxTurns \union {Null},
                      endedAt : 0..MaxTurns \union {Null}]
  <2>1. IsSubs(tables.sub) /\ \A s \in Subs : tables.sub[s] \in rows \union {NoRow}
    BY DEF TypesInv, Typed, RowRec, Times
  <2> HIDE DEF rows
  <2>2. tables.sub \in [Subs -> rows \union {NoRow}]
    BY <2>1 DEF IsSubs
  <2>3. /\ \A x \in Items : tables.item[x] # NoRow =>
             tables.item[x].sub \in Subs /\ tables.item[x].plan \in Plans \union {Null}
        /\ \A i \in Invoices : tables.invoice[i] # NoRow =>
             tables.invoice[i].status \in CanonicalInvoiceStatuses
        /\ \A i \in Invoices : \A li \in tables.line[i] : li.kind \in CanonicalLineKinds
        /\ \A p \in Payments : tables.payment[p] # NoRow =>
             tables.payment[p].status \in CanonicalPaymentStatuses
        /\ \A n \in Notes : tables.note[n] # NoRow =>
             tables.note[n].status \in CanonicalNoteStatuses
    BY TheObjects DEF TypesInv, Typed
  <2>4. /\ DOMAIN queue = {"catalog", "customer"}
        /\ \A e \in Range(queue["customer"]) : Partition(e) = "customer"
        /\ steady \in {"calm", "refreshed", "disturbed"}
    BY DEF BillingInv, Streams, TypesInv
  <2> QED
    BY <2>2, <2>3, <2>4 DEF TypeOK, rows
<1> QED
  BY <1>1, TypesAlways, PTL

-----------------------------------------------------------------------------
(* What is still to come *)

TrialTypes == {"subscription.trial_started", "subscription.trial_converted",
               "subscription.trial_expired"}
\* What the tables t and the trial's row r should say of a subscription x: w
\* names it.  The last are said of the invoice and, x being one, of the coupon.
SubWants == {"row", "mrr", "endless", "ended", "items"}
TrialWants == {"trialless", "undecided", "expired"}
Outcomes == {"unconverted", "unexpired"}

\* A coupon has expired when that is reported, else it is as it was created.
CouponSays(e, x) ==
  /\ e.type \in CouponTypes
  /\ x.valid = IF e.type = "coupon.deleted" THEN FALSE ELSE e.p.valid

Holds(w, t, r, x) ==
  /\ w = "row" => t.sub[s1] # NoRow
  /\ w = "mrr" /\ t.sub[s1] # NoRow => t.sub[s1].mrr = x.mrr
  /\ w = "endless" /\ t.sub[s1] # NoRow => t.sub[s1].endedAt = Null
  /\ w = "ended" /\ t.sub[s1] # NoRow =>
       t.sub[s1].status = "canceled" /\ t.sub[s1].mrr = 0 /\ t.sub[s1].endedAt # Null
  /\ w = "items" /\ t.sub[s1] # NoRow => \A i \in Items :
       /\ t.item[i] # NoRow <=> i \in DOMAIN x.items
       /\ i \in DOMAIN x.items => t.item[i].mrr = x.mrr
  /\ w = "trialless" => r = NoRow
  /\ w \in {"undecided", "unconverted"} /\ r # NoRow => r.converted = Null
  /\ w \in {"undecided", "unexpired"} /\ r # NoRow => r.expired = Null
  /\ w = "expired" => r # NoRow /\ r.expired # Null
  /\ w = "dated" /\ IsPaid(t, i1) => t.invoice[i1].paidAt # Null
  /\ w = "coupon" /\ t.coupon[k1] # NoRow => t.coupon[k1].valid = x.valid

\* An event after which it holds ...
Makes(w, e, x) ==
  \/ w = "row" /\ e.type = "subscription.created"
  \/ w = "mrr" /\ e.type \in AmountTypes /\ e.p.mrr = x.mrr
  \/ w = "endless" /\ e.type \in ActiveTypes
  \/ w = "ended" /\ e.type = "subscription.churned"
  \/ /\ w = "items" /\ e.type \in {"subscription.created", "subscription.changed"}
     /\ e.p.items = Stripe!SerializeItems(x)
  \/ w = "expired" /\ e.type = "subscription.trial_expired"
  \/ w = "dated" /\ e.type = "invoice.paid"
  \/ w = "coupon" /\ CouponSays(e, x)

\* ... and one that leaves it so.
Keeps(w, e, x) ==
  /\ w = "mrr" => /\ e.type \notin {"subscription.churned", "subscription.paused"}
                  /\ e.type \in AmountTypes => e.p.mrr = x.mrr
  /\ w = "endless" => e.type # "subscription.churned"
  /\ w = "ended" => e.type \notin AmountTypes \union {"subscription.paused"}
  /\ w = "items" /\ e.type \in {"subscription.created", "subscription.changed"} =>
       e.p.items = Stripe!SerializeItems(x)
  /\ w = "trialless" => e.type \notin TrialTypes
  /\ w \in {"undecided", "unconverted"} => e.type # "subscription.trial_converted"
  /\ w \in {"undecided", "unexpired"} => e.type # "subscription.trial_expired"
  /\ w = "dated" /\ e.type = "invoice.created" => e.p.status # "paid"
  /\ w = "coupon" /\ e.type \in CouponTypes => CouponSays(e, x)

\* The events make it so in the end, or leave what is so already.
Brings(w, s, x) ==
  \E k \in 1..Len(s) : /\ Makes(w, s[k], x)
                       /\ \A j \in (k + 1)..Len(s) : Keeps(w, s[j], x)
Spares(w, s, x) == \A e \in Range(s) : Keeps(w, e, x)
Comes(w, s, t, r, x) == Brings(w, s, x) \/ (Holds(w, t, r, x) /\ Spares(w, s, x))
\* An event after which w is as it should be.
Turns(w, t, r, e, u, v, x) ==
  Makes(w, e, x) \/ (Keeps(w, e, x) /\ Holds(w, t, r, x)) => Holds(w, u, v, x)

\* What comes still comes once the first event has been handled, ...
LEMMA ComesLater ==
  ASSUME NEW w, NEW s, IsStream(s), s # <<>>, NEW t, NEW r, NEW x, Comes(w, s, t, r, x),
         NEW u, NEW v, Turns(w, t, r, Head(s), u, v, x)
  PROVE  Comes(w, Tail(s), u, v, x)
<1>1. /\ Len(Tail(s)) = Len(s) - 1 /\ Head(s) = s[1] /\ Len(s) \in Nat \ {0}
      /\ \A i \in 1..Len(Tail(s)) : Tail(s)[i] = s[i + 1]
  BY HeadTailProperties, EmptySeq, LenProperties DEF IsStream
<1>2. Range(s) = Range(Tail(s)) \union {Head(s)} /\ IsStream(Tail(s))
  BY Consumed
<1>3. CASE Holds(w, t, r, x) /\ Spares(w, s, x)
  BY <1>2, <1>3 DEF Spares, Comes, Turns
<1>4. CASE Brings(w, s, x)
  <2>1. PICK k \in 1..Len(s) : /\ Makes(w, s[k], x)
                               /\ \A j \in (k + 1)..Len(s) : Keeps(w, s[j], x)
    BY <1>4 DEF Brings
  <2>2. \A j \in k..Len(Tail(s)) : Keeps(w, Tail(s)[j], x)
    BY <1>1, <2>1
  <2>3. CASE k = 1
    <3>1. Spares(w, Tail(s), x)
      BY <1>2, <2>2, <2>3, Places DEF Spares
    <3> QED
      BY <1>1, <2>1, <2>3, <3>1 DEF Comes, Turns
  <2>4. CASE k # 1
    BY <1>1, <2>1, <2>2, <2>4 DEF Comes, Brings
  <2> QED
    BY <2>3, <2>4
<1> QED
  BY <1>3, <1>4 DEF Comes

\* ... an event of the other partition, ...
LEMMA ComesBeside ==
  ASSUME NEW w, NEW s, NEW t, NEW r, NEW x, Comes(w, s, t, r, x),
         NEW e, Keeps(w, e, x), NEW u, NEW v, Turns(w, t, r, e, u, v, x)
  PROVE  Comes(w, s, u, v, x)
BY DEF Comes, Turns

\* ... and when there is none left it is there.
LEMMA ComesAtOnce ==
  ASSUME NEW w, NEW t, NEW r, NEW x, Comes(w, <<>>, t, r, x)
  PROVE  Holds(w, t, r, x)
BY DEF Comes, Brings

\* Events none of which undoes it bring it, or leave it.
LEMMA Leads ==
  ASSUME NEW w, NEW s, IsStream(s), NEW x, Spares(w, s, x)
  PROVE  /\ (\E e \in Range(s) : Makes(w, e, x)) => Brings(w, s, x)
         /\ \A t, r : Holds(w, t, r, x) \/ (\E e \in Range(s) : Makes(w, e, x)) =>
                     Comes(w, s, t, r, x)
BY Places DEF Spares, Brings, Comes

\* What a part of a sequence brings, the whole does.
LEMMA BringsAfter ==
  ASSUME NEW w, NEW x, NEW q, IsStream(q), NEW s, IsStream(s)
  PROVE  /\ Brings(w, s, x) => Brings(w, q \o s, x)
         /\ Brings(w, q, x) /\ Spares(w, s, x) => Brings(w, q \o s, x)
<1>1. /\ Len(q) \in Nat /\ Len(s) \in Nat /\ Len(q \o s) = Len(q) + Len(s)
      /\ \A i \in 1..Len(q) : (q \o s)[i] = q[i]
      /\ \A i \in 1..Len(s) : (q \o s)[Len(q) + i] = s[i]
  BY ConcatProperties, LenProperties DEF IsStream
<1>2. ASSUME Brings(w, s, x) PROVE Brings(w, q \o s, x)
  <2>1. PICK k \in 1..Len(s) : /\ Makes(w, s[k], x)
                               /\ \A j \in (k + 1)..Len(s) : Keeps(w, s[j], x)
    BY <1>2 DEF Brings
  <2>2. Len(q) + k \in 1..Len(q \o s) /\ Makes(w, (q \o s)[Len(q) + k], x)
    BY <1>1, <2>1
  <2>3. ASSUME NEW j \in (Len(q) + k + 1)..Len(q \o s) PROVE Keeps(w, (q \o s)[j], x)
    BY <1>1, <2>1
  <2> QED
    BY <2>2, <2>3 DEF Brings
<1>3. ASSUME Brings(w, q, x), Spares(w, s, x) PROVE Brings(w, q \o s, x)
  BY <1>1, <1>3, Places DEF Brings, Spares
<1> QED
  BY <1>2, <1>3

\* One event makes it so.
LEMMA BringsOne ==
  ASSUME NEW w, NEW e, NEW x, Makes(w, e, x)
  PROVE  IsStream(<<e>>) /\ Brings(w, <<e>>, x)
<1>1. Len(<<e>>) = 1 /\ <<e>>[1] = e /\ (1 + 1)..1 = {}
  OBVIOUS
<1> QED
  BY <1>1, OneEvent DEF Brings

\* A partition brings what the whole does, if what makes it so goes there.
LEMMA KeyedBrings ==
  ASSUME NEW w, NEW x, NEW s, IsStream(s), NEW p, Brings(w, s, x),
         \A e \in Range(s) : Makes(w, e, x) => Partition(e) = p
  PROVE  Brings(w, Keyed(s, p), x)
<1> DEFINE f == CHOOSE g : IsKeyed(s, p, Len(s), g)
<1>1. Len(s) \in Nat /\ \A i \in 1..Len(s) : s[i] \in Range(s)
  BY Places
<1>2. IsKeyed(s, p, Len(s), f)
  BY <1>1, KeyedExists
<1>3. Keyed(s, p) = f[Len(s)]
  BY DEF Keyed, IsKeyed, KeyedStep
<1> HIDE DEF f
<1>4. PICK k \in 1..Len(s) : /\ Makes(w, s[k], x)
                             /\ \A j \in (k + 1)..Len(s) : Keeps(w, s[j], x)
  BY DEF Brings
<1> DEFINE P == {n \in Nat : n <= Len(s) => /\ IsStream(f[n])
                                            /\ n >= k => Brings(w, f[n], x)}
<1>5. 0 \in P
  BY <1>1, <1>2, NoEvents DEF IsKeyed, KeyedStep
<1>6. ASSUME NEW n \in Nat, n \in P PROVE n + 1 \in P
  <2> SUFFICES ASSUME n + 1 <= Len(s)
               PROVE  IsStream(f[n + 1]) /\ (n + 1 >= k => Brings(w, f[n + 1], x))
    OBVIOUS
  <2>1. IsStream(f[n]) /\ (n >= k => Brings(w, f[n], x))
    BY <1>1, <1>6
  <2>2. n + 1 \in 0..Len(s) /\ n + 1 \in 1..Len(s) /\ (n + 1) - 1 = n
    BY <1>1
  <2>3. f[n + 1] = KeyedStep(s, p, f, n + 1)
    BY <1>2, <2>2 DEF IsKeyed
  <2>4. CASE Partition(s[n + 1]) = p
    <3> DEFINE one == <<s[n + 1]>>
    <3>1. f[n + 1] = f[n] \o one
      <4>1. f[n + 1] = Append(f[n], s[n + 1])
        BY <2>2, <2>3, <2>4 DEF KeyedStep
      <4>2. f[n] \in Seq(Range(f[n]) \union {s[n + 1]})
        BY <2>1 DEF IsStream
      <4> QED
        BY <4>1, <4>2, AppendIsConcat
    <3>2. IsStream(one) /\ Range(one) = {s[n + 1]}
      BY OneEvent
    <3>3. Len(one) = 1 /\ one[1] = s[n + 1] /\ (1 + 1)..1 = {}
      OBVIOUS
    <3> HIDE DEF one
    <3>4. IsStream(f[n + 1])
      BY <2>1, <3>1, <3>2, Joined
    <3>5. CASE n >= k
      <4>1. Spares(w, one, x)
        BY <1>1, <1>4, <2>2, <3>2, <3>5 DEF Spares
      <4>2. Brings(w, f[n] \o one, x)
        BY <2>1, <3>2, <3>5, <4>1, BringsAfter
      <4> QED
        BY <3>1, <3>4, <4>2
    <3>6. CASE n + 1 = k
      <4>1. Brings(w, one, x)
        BY <1>4, <3>3, <3>6 DEF Brings
      <4>2. Brings(w, f[n] \o one, x)
        BY <2>1, <3>2, <4>1, BringsAfter
      <4> QED
        BY <3>1, <3>4, <4>2
    <3> QED
      BY <1>1, <3>4, <3>5, <3>6
  <2>5. CASE Partition(s[n + 1]) # p
    BY <1>1, <1>4, <2>1, <2>2, <2>3, <2>5 DEF KeyedStep
  <2> QED
    BY <2>4, <2>5
<1>7. Nat \subseteq P
  BY <1>5, <1>6, SetInduction
<1> QED
  BY <1>1, <1>3, <1>7

-----------------------------------------------------------------------------
(* What the connectors tell of a subscription *)

\* What an event says is true of sub; by is the connector, or "backfill".
Agrees(e, sub, by) ==
  /\ e.type \in AmountTypes => e.p.mrr = sub.mrr
  /\ by # "chargebee" /\ e.type \in {"subscription.created", "subscription.changed"} =>
       e.p.items = Stripe!SerializeItems(sub)
  /\ e.type \in {"subscription.churned", "subscription.paused"} => sub.status \notin Live
\* A trial's outcome is told when it comes; a is the subscription before.
Tries(e, a, sub) ==
  /\ e.type \in TrialTypes => sub.trialEnd # Null
  /\ e.type = "subscription.trial_converted" =>
       sub.status = "active" /\ a.status = "trialing"
  /\ e.type = "subscription.trial_expired" =>
       sub.status \notin {"active", "trialing"} /\ a.status = "trialing"
Telling(s, a, sub, by) ==
  /\ IsStream(s)
  /\ \A e \in Range(s) : /\ e.type \in SubTypes /\ Agrees(e, sub, by)
                         /\ by = "stripe" => Tries(e, a, sub)
\* One of the events is of a type.
Tells(s, types) == \E e \in Range(s) : e.type \in types

\* Streams are told in parts.
LEMMA TellingNothing == ASSUME NEW a, NEW sub, NEW by PROVE Telling(<<>>, a, sub, by)
BY NoEvents DEF Telling

LEMMA TellingBoth ==
  ASSUME NEW a, NEW sub, NEW by, NEW s, NEW t, Telling(s, a, sub, by), Telling(t, a, sub, by)
  PROVE  /\ Telling(s \o t, a, sub, by)
         /\ \A types : Tells(s \o t, types) <=> Tells(s, types) \/ Tells(t, types)
BY Joined DEF Telling, Tells

LEMMA TellingIf ==
  ASSUME NEW a, NEW sub, NEW by, NEW s, NEW c, c => Telling(s, a, sub, by)
  PROVE  Telling(Stripe!If(c, s), a, sub, by)
BY TellingNothing DEF Stripe!If

\* One event.
LEMMA TellingOne ==
  ASSUME NEW a, NEW sub, NEW by, NEW type \in SubTypes, NEW at, NEW p,
         sub.id = s1, sub.customer = c1, type \in AmountTypes => p.mrr = sub.mrr,
         by # "chargebee" /\ type \in {"subscription.created", "subscription.changed"} =>
           p.items = Stripe!SerializeItems(sub),
         type \in {"subscription.churned", "subscription.paused"} => sub.status \notin Live,
         by = "stripe" =>
           /\ type \in TrialTypes => sub.trialEnd # Null
           /\ type = "subscription.trial_converted" =>
                sub.status = "active" /\ a.status = "trialing"
           /\ type = "subscription.trial_expired" =>
                sub.status \notin {"active", "trialing"} /\ a.status = "trialing"
  PROVE  /\ Telling(<<Stripe!SubEvent(type, sub, at, p)>>, a, sub, by)
         /\ Telling(<<Chargebee!SubEvent(type, sub, at, p)>>, a, sub, by)
         /\ \A types : Tells(<<Stripe!SubEvent(type, sub, at, p)>>, types) <=> type \in types
         /\ \A types : Tells(<<Chargebee!SubEvent(type, sub, at, p)>>, types) <=> type \in types
<1> DEFINE e == Told(type, at, p)
<1>1. e.type = type /\ e.p = p
  BY DEF Told
<1>2. Stripe!SubEvent(type, sub, at, p) = e /\ Chargebee!SubEvent(type, sub, at, p) = e
  BY ToldBoth
<1> HIDE DEF e
<1>3. Agrees(e, sub, by)
  BY <1>1 DEF Agrees
<1>4. IsStream(<<e>>) /\ Range(<<e>>) = {e}
  BY OneEvent
<1>5. by = "stripe" => Tries(e, a, sub)
  BY <1>1 DEF Tries
<1>6. Telling(<<e>>, a, sub, by) /\ \A types : Tells(<<e>>, types) <=> type \in types
  BY <1>1, <1>3, <1>4, <1>5 DEF Telling, Tells
<1> QED
  BY <1>2, <1>6

\* The events of a type, from either connector.
TellsOne(type, at, p, a, sub, by) ==
  LET s == <<Stripe!SubEvent(type, sub, at, p)>>
      t == <<Chargebee!SubEvent(type, sub, at, p)>>
  IN  /\ Telling(s, a, sub, by) /\ \A types : Tells(s, types) <=> type \in types
      /\ Telling(t, a, sub, by) /\ \A types : Tells(t, types) <=> type \in types

LEMMA TellingEach ==
  ASSUME NEW a, NEW sub, NEW by, sub.id = s1, sub.customer = c1, NEW at, NEW p
  PROVE  LET One(type) == TellsOne(type, at, p, a, sub, by)
             starts == by = "stripe" => sub.trialEnd # Null
             ends == by = "stripe" => a.status = "trialing"
         IN  /\ p.mrr = sub.mrr /\ (by # "chargebee" => p.items = Stripe!SerializeItems(sub))
                  => One("subscription.created") /\ One("subscription.changed")
             /\ p.mrr = sub.mrr =>
                  One("subscription.activated") /\ One("subscription.resumed")
             /\ One("subscription.canceled")
             /\ sub.status \notin Live =>
                  One("subscription.churned") /\ One("subscription.paused")
             /\ starts => One("subscription.trial_started")
             /\ starts /\ ends /\ (by = "stripe" => sub.status = "active") =>
                  One("subscription.trial_converted")
             /\ starts /\ ends /\ (by = "stripe" => sub.status \notin {"active", "trialing"}) =>
                  One("subscription.trial_expired")
<1> DEFINE One(type) == TellsOne(type, at, p, a, sub, by)
<1>1. ASSUME NEW type \in {"subscription.created", "subscription.changed"},
             p.mrr = sub.mrr,
             by # "chargebee" => p.items = Stripe!SerializeItems(sub)
      PROVE  One(type)
  <2>1. type \in SubTypes \ TrialTypes
    BY DEF SubTypes, AmountTypes, ActiveTypes, TrialTypes
  <2> QED
    BY <1>1, <2>1, TellingOne DEF TellsOne
<1>2. ASSUME NEW type \in {"subscription.activated", "subscription.resumed"},
             p.mrr = sub.mrr
      PROVE  One(type)
  <2>1. type \in SubTypes \ TrialTypes
    BY DEF SubTypes, AmountTypes, ActiveTypes, TrialTypes
  <2> QED
    BY <1>2, <2>1, TellingOne DEF TellsOne
<1>3. ASSUME NEW type \in {"subscription.canceled"}
      PROVE  One(type)
  <2>1. type \in SubTypes \ (AmountTypes \union TrialTypes)
    BY DEF SubTypes, AmountTypes, ActiveTypes, TrialTypes
  <2> QED
    BY <1>3, <2>1, TellingOne DEF TellsOne
<1>4. ASSUME NEW type \in {"subscription.churned", "subscription.paused"},
             sub.status \notin Live
      PROVE  One(type)
  <2>1. type \in SubTypes \ (AmountTypes \union TrialTypes)
    BY DEF SubTypes, AmountTypes, ActiveTypes, TrialTypes
  <2> QED
    BY <1>4, <2>1, TellingOne DEF TellsOne
<1>5. ASSUME NEW type \in {"subscription.trial_started"},
             by = "stripe" => sub.trialEnd # Null
      PROVE  One(type)
  <2>1. type \in SubTypes \ AmountTypes
    BY DEF SubTypes, AmountTypes, ActiveTypes, TrialTypes
  <2> QED
    BY <1>5, <2>1, TellingOne DEF TellsOne
<1>6. ASSUME NEW type \in {"subscription.trial_converted"},
             by = "stripe" => sub.trialEnd # Null /\ sub.status = "active" /\ a.status = "trialing"
      PROVE  One(type)
  <2>1. type \in SubTypes \ AmountTypes
    BY DEF SubTypes, AmountTypes, ActiveTypes, TrialTypes
  <2> QED
    BY <1>6, <2>1, TellingOne DEF TellsOne
<1>7. ASSUME NEW type \in {"subscription.trial_expired"},
             by = "stripe" => /\ sub.trialEnd # Null /\ a.status = "trialing"
                        /\ sub.status \notin {"active", "trialing"}
      PROVE  One(type)
  <2>1. type \in SubTypes \ AmountTypes
    BY DEF SubTypes, AmountTypes, ActiveTypes, TrialTypes
  <2> QED
    BY <1>7, <2>1, TellingOne DEF TellsOne
<1> HIDE DEF One
<1>8. p.mrr = sub.mrr /\ (by # "chargebee" => p.items = Stripe!SerializeItems(sub)) =>
        One("subscription.created") /\ One("subscription.changed")
  BY <1>1
<1>9. p.mrr = sub.mrr => One("subscription.activated") /\ One("subscription.resumed")
  BY <1>2
<1>10. One("subscription.canceled")
  BY <1>3
<1>11. sub.status \notin Live => One("subscription.churned") /\ One("subscription.paused")
  BY <1>4
<1> QED
  BY <1>5, <1>6, <1>7, <1>8, <1>9, <1>10, <1>11 DEF One

\* The amounts in Stripe's payloads.
LEMMA StripePayloads ==
  ASSUME NEW sub, NEW n, SubShape(sub, "stripe", n)
  PROVE  /\ sub.id = s1 /\ sub.customer = c1 /\ Stripe!SubMrr(sub.items) = sub.mrr
         /\ Stripe!MrrOf(sub).mrr = sub.mrr
         /\ Stripe!SubCreatedPayload(sub).mrr = sub.mrr
         /\ Stripe!SubCreatedPayload(sub).items = Stripe!SerializeItems(sub)
         /\ sub.status = "trialing" => sub.trialEnd # Null
BY StripeAmounts DEF SubShape

\* Stripe's creation, ...
LEMMA StripeCreatedTells ==
  ASSUME NEW a, NEW n, NEW sub, SubShape(sub, "stripe", n)
  PROVE  /\ Telling(Stripe!SubCreated(sub), a, sub, "stripe")
         /\ Tells(Stripe!SubCreated(sub), {"subscription.created"})
<1> DEFINE at == sub.createdAt
           one == <<Stripe!SubEvent("subscription.created", sub, at, Stripe!SubCreatedPayload(sub))>>
           two == <<Stripe!SubEvent("subscription.activated", sub, at, Stripe!MrrOf(sub))>>
           three == <<Stripe!SubEvent("subscription.trial_started", sub, at, Stripe!MrrOf(sub))>>
           first == Stripe!If(sub.status = "active", two)
           second == Stripe!If(sub.status = "trialing", three)
<1>0. /\ sub.id = s1 /\ sub.customer = c1 /\ Stripe!MrrOf(sub).mrr = sub.mrr
      /\ Stripe!SubCreatedPayload(sub).mrr = sub.mrr
      /\ Stripe!SubCreatedPayload(sub).items = Stripe!SerializeItems(sub)
      /\ sub.status = "trialing" => sub.trialEnd # Null
  BY StripePayloads
<1> HIDE DEF at
<1>1. Telling(one, a, sub, "stripe") /\ Tells(one, {"subscription.created"})
  BY <1>0, TellingEach DEF TellsOne
<1>2. Telling(two, a, sub, "stripe")
  BY <1>0, TellingEach DEF TellsOne
<1>3. sub.status = "trialing" => Telling(three, a, sub, "stripe")
  BY <1>0, TellingEach DEF TellsOne
<1>4. Stripe!SubCreated(sub) = (one \o first) \o second
  BY DEF Stripe!SubCreated, at
<1> HIDE DEF one, two, three
<1>5. Telling(first, a, sub, "stripe") /\ Telling(second, a, sub, "stripe")
  BY <1>2, <1>3, TellingNothing DEF Stripe!If
<1> HIDE DEF first, second
<1>6. Telling(one \o first, a, sub, "stripe") /\ Tells(one \o first, {"subscription.created"})
  BY <1>1, <1>5, TellingBoth
<1>7. /\ Telling((one \o first) \o second, a, sub, "stripe")
      /\ Tells((one \o first) \o second, {"subscription.created"})
  BY <1>5, <1>6, TellingBoth
<1> QED
  BY <1>4, <1>7

\* ... its updates, ...
LEMMA StripeUpdatedTells ==
  ASSUME NEW n, NEW m, NEW a, SubShape(a, "stripe", m), NEW sub, SubShape(sub, "stripe", n),
         a.status = "trialing" => sub.trialEnd # Null, sub.status # "canceled"
  PROVE  /\ Telling(Stripe!SubUpdated(a, sub, n), a, sub, "stripe")
         /\ a.status # "active" /\ sub.status = "active" =>
              Tells(Stripe!SubUpdated(a, sub, n), ActiveTypes)
         /\ a.mrr # sub.mrr => Tells(Stripe!SubUpdated(a, sub, n), {"subscription.changed"})
<1> DEFINE at == Stripe!SubOccurred(sub, n)
           One(type) == <<Stripe!SubEvent(type, sub, at, Stripe!MrrOf(sub))>>
           canceled == <<Stripe!SubEvent("subscription.canceled", sub, at,
                                         Stripe!CanceledPayload(sub))>>
           churned == <<Stripe!SubEvent("subscription.churned", sub, at,
                                        Stripe!ChurnedPayload(sub))>>
           news == [plan |-> sub.plan, prev |-> Stripe!SubMrr(a.items),
                    mrr |-> Stripe!SubMrr(sub.items), cur |-> sub.cur,
                    items |-> Stripe!SerializeItems(sub)]
           changed == <<Stripe!SubEvent("subscription.changed", sub, at, news)>>
           moves == Stripe!StatusEvents(a, sub, at)
           one == Stripe!If(a.paused /\ ~sub.paused, One("subscription.resumed"))
           two == Stripe!If(~a.atEnd /\ sub.atEnd, canceled)
           three == Stripe!If(Stripe!SubMrr(a.items) # Stripe!SubMrr(sub.items), changed)
           True(s) == Telling(s, a, sub, "stripe")
<1>1. /\ sub.id = s1 /\ sub.customer = c1 /\ Stripe!MrrOf(sub).mrr = sub.mrr
      /\ Stripe!SubMrr(sub.items) = sub.mrr /\ Stripe!SubMrr(a.items) = a.mrr
  BY StripePayloads
<1> HIDE DEF at
<1>2. True(One("subscription.activated")) /\ Tells(One("subscription.activated"), ActiveTypes)
  <2>1. TellsOne("subscription.activated", at, Stripe!MrrOf(sub), a, sub, "stripe")
    BY <1>1, TellingEach
  <2> QED
    BY <2>1 DEF TellsOne, ActiveTypes
<1>3. True(One("subscription.resumed"))
  BY <1>1, TellingEach DEF TellsOne
<1>4. sub.status = "paused" => True(One("subscription.paused"))
  BY <1>1, TellingEach DEF TellsOne, Live
<1>5. True(canceled)
  BY <1>1, TellingEach DEF TellsOne
<1>6. sub.status \in {"incomplete_expired", "unpaid"} => True(churned)
  BY <1>1, TellingEach DEF TellsOne, Live
<1>7. a.status = "trialing" /\ sub.status = "active" =>
        True(One("subscription.trial_converted"))
  BY <1>1, TellingEach DEF TellsOne
<1>8. a.status = "trialing" /\ sub.status \notin {"active", "trialing"} =>
        True(One("subscription.trial_expired"))
  BY <1>1, TellingEach DEF TellsOne
<1>9. True(changed) /\ Tells(changed, {"subscription.changed"})
  <2>1. news.mrr = sub.mrr /\ news.items = Stripe!SerializeItems(sub)
    BY <1>1
  <2> HIDE DEF news
  <2> QED
    BY <1>1, <2>1, TellingEach DEF TellsOne
<1>10. True(moves) /\ (a.status # "active" /\ sub.status = "active" => Tells(moves, ActiveTypes))
  <2> DEFINE c == Stripe!SubEvent("subscription.trial_converted", sub, at, Stripe!MrrOf(sub))
             b == Stripe!SubEvent("subscription.activated", sub, at, Stripe!MrrOf(sub))
  <2>1. a.status = "trialing" /\ sub.status = "active" =>
          True(<<c, b>>) /\ Tells(<<c, b>>, ActiveTypes)
    BY <1>2, <1>7, OneEvent, TwoEvents DEF Telling, Tells
  <2>2. \/ moves = <<>> /\ ~(a.status # "active" /\ sub.status = "active")
        \/ a.status = "trialing" /\ sub.status = "active" /\ moves = <<c, b>>
        \/ /\ a.status = "trialing" /\ sub.status \notin {"active", "trialing"}
           /\ moves = One("subscription.trial_expired")
        \/ moves = One("subscription.activated")
        \/ sub.status = "paused" /\ moves = One("subscription.paused")
        \/ sub.status \in {"incomplete_expired", "unpaid"} /\ moves = churned
    BY DEF Stripe!StatusEvents
  <2>3. CASE moves = <<>> /\ ~(a.status # "active" /\ sub.status = "active")
    BY <2>3, TellingNothing
  <2> HIDE DEF moves, c, b, One, churned
  <2> QED
    BY <1>2, <1>4, <1>6, <1>8, <2>1, <2>2, <2>3
<1>11. Stripe!SubUpdated(a, sub, n) = ((moves \o one) \o two) \o three
  BY DEF Stripe!SubUpdated, at
<1>12. a.mrr # sub.mrr => three = changed
  BY <1>1 DEF Stripe!If
<1> HIDE DEF moves, One, canceled, churned, changed
<1>13. True(one) /\ True(two) /\ True(three)
  BY <1>3, <1>5, <1>9, TellingIf
<1> HIDE DEF one, two, three
<1>14. True(moves \o one) /\ (Tells(moves, ActiveTypes) => Tells(moves \o one, ActiveTypes))
  BY <1>10, <1>13, TellingBoth
<1>15. /\ True((moves \o one) \o two)
       /\ Tells(moves, ActiveTypes) => Tells((moves \o one) \o two, ActiveTypes)
  BY <1>13, <1>14, TellingBoth
<1>16. /\ True(((moves \o one) \o two) \o three)
       /\ \A types : Tells(((moves \o one) \o two) \o three, types) <=>
                       Tells((moves \o one) \o two, types) \/ Tells(three, types)
  BY <1>13, <1>15, TellingBoth
<1> QED
  BY <1>9, <1>10, <1>11, <1>12, <1>15, <1>16

\* ... its end, ...
LEMMA StripeDeletedTells ==
  ASSUME NEW n, NEW a, NEW sub, SubShape(sub, "stripe", n), sub.status = "canceled",
         Stripe!CanceledInTrial(sub) => a.status = "trialing"
  PROVE  /\ Telling(Stripe!SubDeleted(sub, n), a, sub, "stripe")
         /\ Tells(Stripe!SubDeleted(sub, n), {"subscription.churned"})
         /\ Stripe!CanceledInTrial(sub) =>
              Tells(Stripe!SubDeleted(sub, n), {"subscription.trial_expired"})
         /\ \A e \in Range(Stripe!SubDeleted(sub, n)) :
              e.type \in {"subscription.churned", "subscription.trial_expired"}
<1> DEFINE at == Stripe!SubOccurred(sub, n)
           one == <<Stripe!SubEvent("subscription.churned", sub, at, Stripe!ChurnedPayload(sub))>>
           two == <<Stripe!SubEvent("subscription.trial_expired", sub, at, Stripe!MrrOf(sub))>>
           kinds == {"subscription.churned", "subscription.trial_expired"}
<1>1. sub.id = s1 /\ sub.customer = c1 /\ (Stripe!CanceledInTrial(sub) => sub.trialEnd # Null)
  BY StripePayloads DEF Stripe!CanceledInTrial
<1> HIDE DEF at
<1>2. TellsOne("subscription.churned", at, Stripe!ChurnedPayload(sub), a, sub, "stripe")
  BY <1>1, TellingEach DEF Live
<1>3. Stripe!CanceledInTrial(sub) =>
        TellsOne("subscription.trial_expired", at, Stripe!MrrOf(sub), a, sub, "stripe")
  BY <1>1, TellingEach
<1>4. Stripe!SubDeleted(sub, n) =
        one \o (IF Stripe!CanceledInTrial(sub) THEN two ELSE <<>>)
  BY DEF Stripe!SubDeleted, Stripe!If, at
<1>5. /\ Range(one) = {Stripe!SubEvent("subscription.churned", sub, at, Stripe!ChurnedPayload(sub))}
      /\ Range(two) = {Stripe!SubEvent("subscription.trial_expired", sub, at, Stripe!MrrOf(sub))}
  BY OneEvent
<1>6. (\A e \in Range(one) : e.type \in kinds) /\ \A e \in Range(two) : e.type \in kinds
  BY <1>1, <1>5, ToldBoth DEF Told
<1>7. /\ Telling(one, a, sub, "stripe") /\ Tells(one, {"subscription.churned"})
      /\ Stripe!CanceledInTrial(sub) =>
           Telling(two, a, sub, "stripe") /\ Tells(two, {"subscription.trial_expired"})
  BY <1>2, <1>3 DEF TellsOne
<1> HIDE DEF one, two
<1>8. CASE ~Stripe!CanceledInTrial(sub)
  BY <1>4, <1>6, <1>7, <1>8, NoEvents, Joined, TellingNothing, TellingBoth DEF Telling
<1>9. CASE Stripe!CanceledInTrial(sub)
  BY <1>4, <1>6, <1>7, <1>9, Joined, TellingBoth DEF Telling
<1> QED
  BY <1>8, <1>9

\* ... and what a backfill makes of it.
LEMMA BackfillTells ==
  ASSUME NEW n, NEW sub, SubShape(sub, "stripe", n)
  PROVE  /\ Telling(Stripe!SubBackfill(sub), NoRow, sub, "backfill")
         /\ Tells(Stripe!SubBackfill(sub), {"subscription.created"})
         /\ sub.status = "active" => Tells(Stripe!SubBackfill(sub), ActiveTypes)
         /\ sub.status = "canceled" => Brings("ended", Stripe!SubBackfill(sub), sub)
         /\ \E e \in Range(Stripe!SubBackfill(sub)) :
              e.type = "subscription.created" /\ e.p.status = sub.status
<1> DEFINE at == sub.createdAt
           True(s) == Telling(s, NoRow, sub, "backfill")
           One(type, when) == <<Stripe!SubEvent(type, sub, when, Stripe!MrrOf(sub))>>
           created == <<Stripe!SubEvent("subscription.created", sub, at,
                                        Stripe!SubCreatedPayload(sub))>>
           churned == <<Stripe!SubEvent("subscription.churned", sub, at,
                                        Stripe!ChurnedPayload(sub))>>
           active == Stripe!If(sub.status = "active", One("subscription.activated", at))
           gone == Stripe!If(sub.status \in {"canceled", "incomplete_expired", "unpaid"}, churned)
           tried == Stripe!TrialBackfill(sub)
           trials == {"subscription.trial_started", "subscription.trial_converted",
                      "subscription.trial_expired"}
<1>1. /\ sub.id = s1 /\ sub.customer = c1 /\ Stripe!MrrOf(sub).mrr = sub.mrr
      /\ Stripe!SubCreatedPayload(sub).mrr = sub.mrr
      /\ Stripe!SubCreatedPayload(sub).items = Stripe!SerializeItems(sub)
      /\ Stripe!SubCreatedPayload(sub).status = sub.status
  BY StripePayloads, StripeAmounts
<1>2. Stripe!SubBackfill(sub) = ((created \o active) \o gone) \o tried
  BY DEF Stripe!SubBackfill
<1> HIDE DEF at
<1>3. True(created) /\ Tells(created, {"subscription.created"})
  BY <1>1, TellingEach DEF TellsOne
<1>12. \E e \in Range(created) : e.type = "subscription.created" /\ e.p.status = sub.status
  BY <1>1, OneEvent, ToldBoth DEF Told
<1>4. True(One("subscription.activated", at)) /\ Tells(One("subscription.activated", at), ActiveTypes)
  <2>1. TellsOne("subscription.activated", at, Stripe!MrrOf(sub), NoRow, sub, "backfill")
    BY <1>1, TellingEach
  <2> QED
    BY <2>1 DEF TellsOne, ActiveTypes
<1>5. sub.status \in {"canceled", "incomplete_expired", "unpaid"} =>
        True(churned) /\ Tells(churned, {"subscription.churned"})
  BY <1>1, TellingEach DEF TellsOne, Live
<1>6. True(tried) /\ \A e \in Range(tried) : e.type \in trials
  <2> DEFINE Fine(s) == True(s) /\ \A e \in Range(s) : e.type \in trials
  <2>1. ASSUME NEW type \in trials, NEW when PROVE Fine(One(type, when))
    <3>1. True(One(type, when))
      BY <1>1, TellingEach DEF TellsOne
    <3>2. Range(One(type, when)) = {Stripe!SubEvent(type, sub, when, Stripe!MrrOf(sub))}
      BY OneEvent
    <3> QED
      BY <1>1, <3>1, <3>2, ToldBoth DEF Told
  <2>2. Fine(<<>>)
    BY TellingNothing, NoEvents
  <2>3. ASSUME NEW s, NEW t, Fine(s), Fine(t) PROVE Fine(s \o t)
    BY <2>3, Joined, TellingBoth DEF Telling
  <2> DEFINE start == One("subscription.trial_started", sub.trialStart)
             won == One("subscription.trial_converted", sub.trialEnd)
             lost == One("subscription.trial_expired", sub.trialEnd)
             left == One("subscription.trial_expired", sub.endedAt)
  <2>4. tried = <<>> \/ \E x \in {<<>>, won, lost, left} : tried = start \o x
    BY DEF Stripe!TrialBackfill, Stripe!If, One
  <2>5. Fine(start) /\ Fine(won) /\ Fine(lost) /\ Fine(left)
    BY <2>1
  <2> HIDE DEF Fine, start, won, lost, left, tried
  <2>6. Fine(tried)
    BY <2>2, <2>3, <2>4, <2>5
  <2> QED
    BY <2>6 DEF Fine
<1> HIDE DEF created, churned, One, tried
<1>7. /\ True(active) /\ True(gone)
      /\ sub.status = "active" => Tells(active, ActiveTypes)
      /\ sub.status = "canceled" => Tells(gone, {"subscription.churned"}) /\ gone = churned
  BY <1>4, <1>5, TellingNothing DEF Stripe!If
<1> HIDE DEF active, gone
<1>8. /\ True(created \o active) /\ Tells(created \o active, {"subscription.created"})
      /\ sub.status = "active" => Tells(created \o active, ActiveTypes)
  BY <1>3, <1>7, TellingBoth
<1>9. /\ True((created \o active) \o gone)
      /\ Tells((created \o active) \o gone, {"subscription.created"})
      /\ sub.status = "active" => Tells((created \o active) \o gone, ActiveTypes)
  BY <1>7, <1>8, TellingBoth
<1>10. /\ True(((created \o active) \o gone) \o tried)
       /\ Tells(((created \o active) \o gone) \o tried, {"subscription.created"})
       /\ sub.status = "active" => Tells(((created \o active) \o gone) \o tried, ActiveTypes)
  BY <1>6, <1>9, TellingBoth
<1>11. ASSUME sub.status = "canceled"
       PROVE  Brings("ended", ((created \o active) \o gone) \o tried, sub)
  <2>1. IsStream(created \o active) /\ IsStream(gone) /\ IsStream((created \o active) \o gone)
        /\ IsStream(tried)
    BY <1>6, <1>7, <1>8, <1>9 DEF Telling
  <2>2. Len(churned) = 1 /\ churned[1].type = "subscription.churned"
    BY <1>1, ToldBoth DEF churned, Told
  <2>3. Brings("ended", gone, sub)
    BY <1>7, <1>11, <2>2 DEF Brings, Makes
  <2>4. Spares("ended", tried, sub)
    BY <1>6 DEF Spares, Keeps, AmountTypes, ActiveTypes
  <2> HIDE DEF churned
  <2>5. Brings("ended", (created \o active) \o gone, sub)
    BY <2>1, <2>3, BringsAfter
  <2> QED
    BY <2>1, <2>4, <2>5, BringsAfter
<1>13. Range(created) \subseteq Range(((created \o active) \o gone) \o tried)
  BY <1>3, <1>6, <1>7, <1>8, <1>9, Joined DEF Telling
<1> QED
  BY <1>2, <1>10, <1>11, <1>12, <1>13

\* Chargebee's events.
LEMMA ChargebeeTells ==
  ASSUME NEW n, NEW a, NEW sub, SubShape(sub, "chargebee", n)
  PROVE  LET True(s) == Telling(s, a, sub, "chargebee")
         IN  /\ True(Chargebee!SubCreated(sub, n))
             /\ Tells(Chargebee!SubCreated(sub, n), {"subscription.created"})
             /\ True(Chargebee!SubActivated(a, sub, n))
             /\ Tells(Chargebee!SubActivated(a, sub, n), ActiveTypes)
             /\ True(Chargebee!SubChanged(a, sub, n))
             /\ a.mrr # sub.mrr =>
                  Tells(Chargebee!SubChanged(a, sub, n), {"subscription.changed"})
             /\ True(Chargebee!SubCancelled(sub, n))
             /\ sub.status \notin Live => True(Chargebee!SubPaused(sub, n))
             /\ True(Chargebee!SubResumed(sub, n))
             /\ Tells(Chargebee!SubResumed(sub, n), ActiveTypes)
             /\ sub.status \notin Live =>
                  /\ True(Chargebee!SubDeleted(sub, n))
                  /\ Tells(Chargebee!SubDeleted(sub, n), {"subscription.churned"})
                  /\ \A e \in Range(Chargebee!SubDeleted(sub, n)) :
                       e.type = "subscription.churned"
<1> DEFINE True(s) == Telling(s, a, sub, "chargebee")
           One(type) == <<Chargebee!SubEvent(type, sub, n, Chargebee!MrrOf(sub))>>
<1>1. sub.id = s1 /\ sub.customer = c1 /\ Chargebee!MrrOf(sub).mrr = sub.mrr
  BY ChargebeeAmounts
<1>2. /\ True(One("subscription.activated")) /\ Tells(One("subscription.activated"), ActiveTypes)
      /\ True(One("subscription.resumed")) /\ Tells(One("subscription.resumed"), ActiveTypes)
  <2>1. /\ TellsOne("subscription.activated", n, Chargebee!MrrOf(sub), a, sub, "chargebee")
        /\ TellsOne("subscription.resumed", n, Chargebee!MrrOf(sub), a, sub, "chargebee")
    BY <1>1, TellingEach
  <2> QED
    BY <2>1 DEF TellsOne, ActiveTypes
<1>3. /\ True(One("subscription.trial_started")) /\ True(One("subscription.trial_converted"))
      /\ sub.status \notin Live => True(One("subscription.paused"))
  BY <1>1, TellingEach DEF TellsOne
<1>4. /\ True(Chargebee!SubCreated(sub, n))
      /\ Tells(Chargebee!SubCreated(sub, n), {"subscription.created"})
  <2> DEFINE news == [customer |-> sub.customer, plan |-> sub.plan,
                      status |-> Chargebee!Status(sub.status), mrr |-> sub.mrr,
                      cur |-> sub.cur, items |-> Chargebee!SubscriptionItems(sub)]
             first == <<Chargebee!SubEvent("subscription.created", sub, n, news)>>
             rest == CASE sub.status = "in_trial" -> One("subscription.trial_started")
                       [] sub.status = "active" -> One("subscription.activated")
                       [] OTHER -> <<>>
  <2>1. news.mrr = sub.mrr
    OBVIOUS
  <2>2. Chargebee!SubCreated(sub, n) = first \o rest
    BY DEF Chargebee!SubCreated
  <2> HIDE DEF news
  <2>3. True(first) /\ Tells(first, {"subscription.created"})
    BY <1>1, <2>1, TellingEach DEF TellsOne
  <2> HIDE DEF first, One
  <2>4. True(rest)
    BY <1>2, <1>3, TellingNothing, Zenon
  <2> HIDE DEF rest
  <2>5. True(first \o rest) /\ Tells(first \o rest, {"subscription.created"})
    BY <2>3, <2>4, TellingBoth
  <2> QED
    BY <2>2, <2>5
<1>5. True(Chargebee!SubActivated(a, sub, n)) /\ Tells(Chargebee!SubActivated(a, sub, n), ActiveTypes)
  <2> DEFINE first == IF a.status = "in_trial" /\ sub.status = "active"
                      THEN One("subscription.trial_converted") ELSE <<>>
  <2>1. Chargebee!SubActivated(a, sub, n) = first \o One("subscription.activated")
    BY DEF Chargebee!SubActivated
  <2> HIDE DEF One
  <2>2. True(first)
    BY <1>3, TellingNothing
  <2> HIDE DEF first
  <2>3. /\ True(first \o One("subscription.activated"))
        /\ Tells(first \o One("subscription.activated"), ActiveTypes)
    BY <1>2, <2>2, TellingBoth
  <2> QED
    BY <2>1, <2>3
<1>6. /\ True(Chargebee!SubChanged(a, sub, n))
      /\ a.mrr # sub.mrr => Tells(Chargebee!SubChanged(a, sub, n), {"subscription.changed"})
  <2> DEFINE news == [plan |-> sub.plan, prev |-> a.mrr, mrr |-> sub.mrr, cur |-> sub.cur,
                      items |-> Chargebee!SubscriptionItems(sub)]
             one == <<Chargebee!SubEvent("subscription.changed", sub, n, news)>>
  <2>1. news.mrr = sub.mrr
    OBVIOUS
  <2>2. Chargebee!SubChanged(a, sub, n) = IF a.mrr = sub.mrr THEN <<>> ELSE one
    BY DEF Chargebee!SubChanged
  <2> HIDE DEF news
  <2>3. True(one) /\ Tells(one, {"subscription.changed"})
    BY <1>1, <2>1, TellingEach DEF TellsOne
  <2> HIDE DEF one
  <2>4. CASE a.mrr = sub.mrr
    BY <2>2, <2>4, TellingNothing
  <2>5. CASE a.mrr # sub.mrr
    BY <2>2, <2>3, <2>5
  <2> QED
    BY <2>4, <2>5
<1>7. True(Chargebee!SubCancelled(sub, n))
  <2> DEFINE p == [canceledAt |-> sub.canceledAt]
  <2>1. Chargebee!SubCancelled(sub, n) = <<Chargebee!SubEvent("subscription.canceled", sub, n, p)>>
    BY DEF Chargebee!SubCancelled
  <2> HIDE DEF p
  <2>2. TellsOne("subscription.canceled", n, p, a, sub, "chargebee")
    BY <1>1, TellingEach
  <2> QED
    BY <2>1, <2>2 DEF TellsOne
<1>8. ASSUME sub.status \notin Live
      PROVE  /\ True(Chargebee!SubDeleted(sub, n))
             /\ Tells(Chargebee!SubDeleted(sub, n), {"subscription.churned"})
             /\ \A e \in Range(Chargebee!SubDeleted(sub, n)) : e.type = "subscription.churned"
  <2> DEFINE p == [prev |-> sub.mrr, cur |-> sub.cur]
             e == Chargebee!SubEvent("subscription.churned", sub, n, p)
  <2>1. Chargebee!SubDeleted(sub, n) = <<e>>
    BY DEF Chargebee!SubDeleted
  <2> HIDE DEF p
  <2>2. TellsOne("subscription.churned", n, p, a, sub, "chargebee")
    BY <1>1, <1>8, TellingEach
  <2>3. e.type = "subscription.churned" /\ Range(<<e>>) = {e}
    BY <1>1, ToldBoth, OneEvent DEF Told
  <2> QED
    BY <2>1, <2>2, <2>3 DEF TellsOne
<1>9. /\ One("subscription.paused") = Chargebee!SubPaused(sub, n)
      /\ One("subscription.resumed") = Chargebee!SubResumed(sub, n)
  BY DEF Chargebee!SubPaused, Chargebee!SubResumed
<1> HIDE DEF One
<1>10. /\ sub.status \notin Live => True(Chargebee!SubPaused(sub, n))
       /\ True(Chargebee!SubResumed(sub, n)) /\ Tells(Chargebee!SubResumed(sub, n), ActiveTypes)
  BY <1>2, <1>3, <1>9
<1> QED
  BY <1>4, <1>5, <1>6, <1>7, <1>8, <1>10

\* What the webhook of a turn tells of the subscription that comes out of it.
SubNews(a, sub, src, s) ==
  /\ Telling(s, a, sub, src)
  /\ a = NoRow => Tells(s, {"subscription.created"})
  /\ a # NoRow /\ a.mrr # sub.mrr => Tells(s, {"subscription.changed"})
  /\ a # NoRow /\ a.status \notin Live /\ sub.status \in Live => Tells(s, ActiveTypes)
  /\ sub.status \in {"canceled", "deleted"} =>
       /\ Tells(s, {"subscription.churned"})
       /\ \A e \in Range(s) : e.type \in {"subscription.churned", "subscription.trial_expired"}
  /\ sub.status = "trialing" => a = NoRow \/ a.status = "trialing"
  /\ src = "stripe" =>
       /\ sub.trialEnd = Null => a = NoRow \/ a.trialEnd = Null
       /\ sub.status = "canceled" /\ Stripe!CanceledInTrial(sub) =>
            Tells(s, {"subscription.trial_expired"})

LEMMA SubTurnedNews ==
  ASSUME NEW m \in Nat, NEW n, n = m + 1, NEW src, NEW a, NEW sub, NEW events,
         a # NoRow => SubShape(a, src, m), SubShape(sub, src, n),
         SubTurned(a, sub, src, n, events)
  PROVE  SubNews(a, sub, src, events)
<1>1. CASE /\ src = "stripe" /\ a = NoRow /\ events = Stripe!SubCreated(sub)
           /\ \E status \in {"trialing", "active", "incomplete"} : sub = SubIn(status, src, n)
  BY <1>1, StripeCreatedTells DEF SubIn, SubNews
<1>2. CASE src = "stripe" /\ a # NoRow /\ StripeChange(a, sub, n) /\ events = Stripe!SubUpdated(a, sub, n)
  <2>1. /\ sub.status \notin {"canceled", "deleted"}
        /\ sub.status = "trialing" => a.status = "trialing"
        /\ sub.trialEnd = a.trialEnd \/ (a.status = "trialing" /\ sub.trialEnd = n)
        /\ a.status \notin Live /\ sub.status \in Live => sub.status = "active"
    BY <1>2 DEF SubShape, StripeMoves, Live, StripeLive, StripeChange
  <2>2. a.status = "trialing" => a.trialEnd # Null /\ sub.trialEnd # Null
    BY <1>2, <2>1, BillingAssumption DEF SubShape
  <2>3. a.status \notin Live => a.status # "active"
    BY DEF Live
  <2> QED
    BY <1>2, <2>1, <2>2, <2>3, StripeUpdatedTells DEF SubNews
<1>3. CASE src = "stripe" /\ a # NoRow /\ StripeEnd(a, sub, n) /\ events = Stripe!SubDeleted(sub, n)
  <2>1. sub.status = "canceled" /\ sub.trialEnd = a.trialEnd /\ sub.mrr = a.mrr /\ sub.endedAt = n
    BY <1>3 DEF SubShape, StripeEnd
  <2>2. Stripe!CanceledInTrial(sub) => a.status = "trialing"
    BY <1>3, <2>1 DEF StripeEnd, StripeLive, Stripe!CanceledInTrial, SubShape
  <2> QED
    BY <1>3, <2>1, <2>2, StripeDeletedTells DEF SubNews, Live
<1>4. CASE /\ src = "chargebee" /\ a = NoRow /\ events = Chargebee!SubCreated(sub, n)
           /\ \E status \in {"in_trial", "active"} : sub = SubIn(status, src, n)
  BY <1>4, ChargebeeTells DEF SubIn, SubNews
<1>5. CASE src = "chargebee" /\ a # NoRow /\ ChargebeeChange(a, sub, n, events)
  <2>1. /\ a = [x \in DOMAIN a |-> a[x]] /\ {"status", "mrr", "canceledAt"} \subseteq DOMAIN a
        /\ SubShape(sub, "chargebee", n)
    BY <1>5 DEF SubShape
  <2>2. \A to : BecomeAt(a, to, n).status = to /\ BecomeAt(a, to, n).mrr = a.mrr
    BY <2>1 DEF BecomeAt
  <2>3. CASE a.status \in {"in_trial", "cancelled"} /\ sub = BecomeAt(a, "active", n)
             /\ events = Chargebee!SubActivated(a, sub, n)
    BY <1>5, <2>1, <2>2, <2>3, ChargebeeTells DEF SubNews
  <2>4. CASE a.status = "active" /\ sub = BecomeAt(a, "non_renewing", n)
             /\ events = Chargebee!SubChanged(a, sub, n)
    BY <1>5, <2>1, <2>2, <2>4, ChargebeeTells DEF SubNews, Live
  <2>5. CASE a.status = "active" /\ sub = BecomeAt(a, "paused", n)
             /\ events = Chargebee!SubPaused(sub, n)
    BY <1>5, <2>1, <2>2, <2>5, ChargebeeTells DEF SubNews, Live
  <2>6. CASE a.status = "paused" /\ sub = BecomeAt(a, "active", n)
             /\ events = Chargebee!SubResumed(sub, n)
    BY <1>5, <2>1, <2>2, <2>6, ChargebeeTells DEF SubNews
  <2>7. CASE a.status \in ChargebeeLive /\ sub = BecomeAt(a, "cancelled", n)
             /\ events = Chargebee!SubCancelled(sub, n)
    BY <1>5, <2>1, <2>2, <2>7, ChargebeeTells DEF SubNews, Live
  <2>8. CASE sub = BecomeAt(a, "deleted", n) /\ events = Chargebee!SubDeleted(sub, n)
    BY <1>5, <2>1, <2>2, <2>8, ChargebeeTells DEF SubNews, Live
  <2>9. CASE /\ a.status \in ChargebeeLive /\ sub.status = a.status
             /\ events = Chargebee!SubChanged(a, sub, n)
    BY <1>5, <2>1, <2>9, ChargebeeTells DEF SubNews, ChargebeeLive, Live
  <2> QED
    BY <1>5, <2>1, <2>3, <2>4, <2>5, <2>6, <2>7, <2>8, <2>9 DEF ChargebeeChange
<1> QED
  BY <1>1, <1>2, <1>3, <1>4, <1>5 DEF SubTurned

LEMMA RowColumns ==
  ASSUME NEW r \in RowRec
  PROVE  /\ r = [c \in DOMAIN r |-> r[c]]
         /\ {"status", "mrr", "endedAt"} \subseteq DOMAIN r
BY DEF RowRec

\* What an event makes of the subscription's row.
LEMMA SubRowBecomes ==
  ASSUME NEW t, NEW e, e.type \in SubTypes, NEW r, r = t.sub[s1], r # NoRow => r \in RowRec,
         NEW n, n = SubRow(t, e), n # NoRow
  PROVE  /\ r # NoRow \/ e.type = "subscription.created"
         /\ e.type \in AmountTypes => n.mrr = e.p.mrr
         /\ e.type \in ActiveTypes \/ r = NoRow => n.endedAt = Null
         /\ e.type = "subscription.churned" =>
              n.status = "canceled" /\ n.mrr = 0 /\ n.endedAt = e.at
         /\ r # NoRow =>
              /\ e.type \notin AmountTypes
                   \union {"subscription.churned", "subscription.paused"} => n.mrr = r.mrr
              /\ e.type \notin ActiveTypes \union {"subscription.churned"} =>
                   n.endedAt = r.endedAt
              /\ e.type \notin AmountTypes \union {"subscription.paused"} =>
                   n.status \in {r.status, "canceled"}
BY RowColumns
   DEF SubRow, NewSubRow, SubRewritten, ActiveTypes, AmountTypes, TrialTypes, SubTypes

\* What it makes of the trial's.
TrialThen(r, e) ==
  CASE e.type = "subscription.trial_started" -> Trial!HandleTrial(r, "started", e.at)
    [] e.type = "subscription.trial_converted" -> Trial!HandleTrial(r, "converted", e.at)
    [] e.type = "subscription.trial_expired" -> Trial!HandleTrial(r, "expired", e.at)
    [] OTHER -> r
IsTrial(r) == r # NoRow => {"started", "converted", "expired"} \subseteq DOMAIN r

LEMMA TrialBecomes ==
  ASSUME NoRowIsNoRecord, NEW e, NEW r, IsTrial(r), NEW v, v = TrialThen(r, e)
  PROVE  /\ IsTrial(v)
         /\ e.type \notin TrialTypes => v = r
         /\ /\ e.type # "subscription.trial_converted"
            /\ r # NoRow => r.converted = Null
            => (v # NoRow => v.converted = Null)
         /\ /\ e.type # "subscription.trial_expired"
            /\ r # NoRow => r.expired = Null
            => (v # NoRow => v.expired = Null)
         /\ \/ r # NoRow /\ r.expired # Null
            \/ e.type = "subscription.trial_expired" /\ e.at # Null
            => v # NoRow /\ v.expired # Null
<1> DEFINE new == [started |-> e.at, converted |-> Null, expired |-> Null]
           old == IF r = NoRow THEN new ELSE r
<1>1. /\ {"started", "converted", "expired"} \subseteq DOMAIN old
      /\ (r # NoRow => r.converted = Null) => old.converted = Null
      /\ (r # NoRow => r.expired = Null) => old.expired = Null
      /\ r # NoRow /\ r.expired # Null => old.expired # Null
  BY DEF IsTrial
<1>2. CASE e.type = "subscription.trial_started"
  BY <1>2
     DEF TrialThen, Trial!HandleTrial, Trial!StartTrial, TrialTypes, IsTrial,
         NoRowIsNoRecord
<1> HIDE DEF old
<1>3. CASE e.type = "subscription.trial_converted"
  BY <1>1, <1>3
     DEF TrialThen, Trial!HandleTrial, Trial!EndTrial, old, NoRowIsNoRecord, TrialTypes,
         IsTrial
<1>4. CASE e.type = "subscription.trial_expired"
  BY <1>1, <1>4
     DEF TrialThen, Trial!HandleTrial, Trial!EndTrial, old, NoRowIsNoRecord,
         Trial!First, TrialTypes, IsTrial
<1>5. CASE e.type \notin TrialTypes
  BY <1>5 DEF TrialThen, TrialTypes
<1> QED
  BY <1>2, <1>3, <1>4, <1>5 DEF TrialTypes

\* What is not about the subscription leaves it alone, ...
LEMMA Apart ==
  ASSUME NEW w, w \notin {"dated", "coupon"}, NEW e, e.type \notin SubTypes, NEW x
  PROVE  Keeps(w, e, x) /\ ~Makes(w, e, x)
BY DEF Keeps, Makes, SubTypes, AmountTypes, ActiveTypes, TrialTypes

LEMMA OthersTurn ==
  ASSUME NoRowIsNoRecord, NEW t, IsTables(t), NEW e, Formed(e), NEW o, Sound(e, o),
         e.type \notin SubTypes, NEW u, u = HandleState(t, e), NEW r,
         NEW w, w \notin {"dated", "coupon"}, NEW x
  PROVE  /\ u.sub = t.sub /\ u.item = t.item /\ TrialThen(r, e) = r
         /\ Turns(w, t, r, e, u, r, x)
BY InvoiceEffect, PaymentEffect, CouponEffect, NoteEffect, OtherEffect, Apart
   DEF Formed, Sound, AllTypes, OtherTypes, SameBut, TableNames, TrialThen, SubTypes,
       Holds, Turns

\* ... and what is about it makes of the rows what it says.
LEMMA SubTurns ==
  ASSUME NoRowIsNoRecord, NEW t, IsTables(t), Typed(t), NEW e, Formed(e), NEW o, Sound(e, o),
         e.type \in SubTypes, NEW u, u = HandleState(t, e), NEW r, IsTrial(r),
         NEW v, v = TrialThen(r, e), NEW x, NEW n, NEW w, w \notin {"dated", "coupon"},
         w = "items" => SubShape(x, "stripe", n)
  PROVE  Turns(w, t, r, e, u, v, x)
<1>1. SubChanges(t, u, e)
  BY SubEffect, SoundSub
<1> DEFINE a == t.sub[s1]
           b == u.sub[s1]
<1>2. b = SubRow(t, e) /\ a = t.sub[s1] /\ (a # NoRow => a \in RowRec)
  BY <1>1, TheObjects DEF SubChanges, Typed
<1>3. /\ a # NoRow => b # NoRow
      /\ e.type = "subscription.created" => b # NoRow
  BY StateHandled, TheObjects DEF Handled, Stays, Made
<1>4. /\ e.type = "subscription.churned" => e.at # Null
      /\ e.type = "subscription.trial_expired" => e.at # Null
  BY BillingAssumption DEF Formed, Times
<1>5. b # NoRow =>
        /\ a # NoRow \/ e.type = "subscription.created"
        /\ e.type \in AmountTypes => b.mrr = e.p.mrr
        /\ e.type \in ActiveTypes \/ a = NoRow => b.endedAt = Null
        /\ e.type = "subscription.churned" =>
             b.status = "canceled" /\ b.mrr = 0 /\ b.endedAt = e.at
        /\ a # NoRow =>
             /\ e.type \notin AmountTypes
                  \union {"subscription.churned", "subscription.paused"} => b.mrr = a.mrr
             /\ e.type \notin ActiveTypes \union {"subscription.churned"} =>
                  b.endedAt = a.endedAt
             /\ e.type \notin AmountTypes \union {"subscription.paused"} =>
                  b.status \in {a.status, "canceled"}
  BY <1>2, SubRowBecomes
<1> SUFFICES ASSUME Makes(w, e, x) \/ (Keeps(w, e, x) /\ Holds(w, t, r, x))
             PROVE  Holds(w, u, v, x)
  BY DEF Turns
<1>6. CASE w = "items"
  <2>1. DOMAIN x.items = {"item"}
    BY <1>6 DEF SubShape, ItemsIn
  <2>2. CASE e.type \in {"subscription.created", "subscription.changed"} /\ b # NoRow
    <3>1. e.p.items = Stripe!SerializeItems(x)
      BY <1>6, <2>2 DEF Makes, Keeps
    <3>2. DOMAIN e.p.items = {"item"} /\ e.p.items["item"].mrr = x.mrr
      BY <1>6, <3>1, StripeAmounts
    <3>3. u.item = ItemsNow(t.plan, e.p.items)
      BY <1>1, <2>2 DEF SubChanges
    <3>4. \A i \in Items : /\ u.item[i] # NoRow <=> i = "item"
                           /\ i = "item" => u.item[i].mrr = x.mrr
      <4> TAKE i \in Items
      <4>1. CASE i = "item"
        <5> DEFINE row == [sub |-> s1, plan |-> Lookup(t.plan, e.p.items[i].plan),
                           mrr |-> e.p.items[i].mrr,
                           base |-> ToBase(e.p.items[i].mrr, e.p.items[i].cur)]
        <5>1. u.item[i] = row
          BY <3>2, <3>3, <4>1 DEF ItemsNow
        <5>2. row # NoRow
          BY DEF NoRowIsNoRecord
        <5> QED
          BY <3>2, <4>1, <5>1, <5>2
      <4>2. CASE i # "item"
        BY <3>2, <3>3, <4>2 DEF ItemsNow
      <4> QED
        BY <4>1, <4>2
    <3> QED
      BY <1>6, <2>1, <3>4 DEF Holds
  <2>3. CASE ~(e.type \in {"subscription.created", "subscription.changed"} /\ b # NoRow)
    BY <1>1, <1>3, <1>5, <1>6, <2>3 DEF SubChanges, Makes, Holds
  <2> QED
    BY <2>2, <2>3
<1> HIDE DEF a, b
<1>7. CASE w = "row"
  BY <1>3, <1>7 DEF Makes, Holds, a, b
<1>8. CASE w = "mrr"
  BY <1>5, <1>8 DEF AmountTypes, Makes, Keeps, Holds, a, b
<1>9. CASE w = "endless"
  BY <1>5, <1>9 DEF Makes, Keeps, Holds, a, b
<1>10. CASE w = "ended"
  BY <1>4, <1>5, <1>10 DEF Holds, b, Makes, Keeps, a, AmountTypes
<1>11. CASE w \in TrialWants \union Outcomes
  BY <1>4, <1>11, TrialBecomes DEF Makes, Keeps, Holds, TrialWants, Outcomes
<1>12. CASE w \notin SubWants \union TrialWants \union Outcomes
  BY <1>12 DEF Holds, SubWants, TrialWants, Outcomes
<1> QED
  BY <1>6, <1>7, <1>8, <1>9, <1>10, <1>11, <1>12 DEF SubWants

\* What is to be so once the events so far are handled.
Due(w, sub, src, how) ==
  \/ /\ sub # NoRow
     /\ \/ w = "row"
        \/ w \in {"mrr", "endless"} /\ sub.status \in Live
        \/ w = "ended" /\ sub.status \in {"canceled", "deleted"}
        \/ w = "items" /\ src = "stripe"
  \/ /\ how = "calm" /\ src = "stripe"
     /\ \/ w = "trialless" /\ (sub # NoRow => sub.trialEnd = Null)
        \/ w = "undecided" /\ (sub # NoRow => sub.status = "trialing")
        \/ /\ w = "expired" /\ sub # NoRow
           /\ sub.status = "canceled" /\ Stripe!CanceledInTrial(sub)

\* The events q bring all that is due; a Stripe trial will have at most one outcome.
Arrives(q, t, r, sub, src, how) ==
  /\ \A w : Due(w, sub, src, how) => Comes(w, q, t, r, sub)
  /\ src = "stripe" /\ how = "calm" => \E w \in Outcomes : Comes(w, q, t, r, sub)

\* A turn's webhook brings what is due once it is made, if the rows were as they
\* should be before it.
LEMMA NewsLead ==
  ASSUME NEW src \in {"stripe", "chargebee"}, NEW m, NEW n, NEW a, NEW sub, NEW s,
         a # NoRow => SubShape(a, src, m), SubShape(sub, src, n), sub # NoRow,
         SubNews(a, sub, src, s),
         FormedStream(s), NEW k, k = Keyed(s, "customer"), NEW t, NEW r, NEW how,
         Arrives(<<>>, t, r, a, src, how), a = NoRow => Holds("endless", t, r, a)
  PROVE  Arrives(k, t, r, sub, src, how)
<1>. /\ \A w : Due(w, a, src, how) => Holds(w, t, r, a)
     /\ src = "stripe" /\ how = "calm" => \E w \in Outcomes : Holds(w, t, r, a)
  BY ComesAtOnce DEF Arrives
<1>1. IsStream(k) /\ Range(k) = Range(s)
  <2>1. \A e \in Range(s) : e.type \in SubTypes /\ Formed(e)
    BY DEF SubNews, Telling, FormedStream
  <2>2. \A e \in Range(s) : Partition(e) = "customer"
    BY <2>1, Keys DEF SubTypes, CatalogTypes, ProductTypes, PlanTypes, CouponTypes
  <2> QED
    BY <2>2, KeyedIs DEF FormedStream
<1>2. \A e \in Range(k) : /\ Agrees(e, sub, src)
                          /\ src = "stripe" => Tries(e, a, sub)
  BY <1>1 DEF SubNews, Telling
<1>3. \A types : Tells(s, types) => \E e \in Range(k) : e.type \in types
  BY <1>1 DEF Tells
<1>4. /\ "subscription.created" \in AmountTypes /\ "subscription.changed" \in AmountTypes
      /\ ActiveTypes \subseteq AmountTypes
  BY DEF AmountTypes
<1>5. /\ a = NoRow => \E e \in Range(k) : e.type \in {"subscription.created"}
      /\ a # NoRow /\ a.mrr # sub.mrr =>
           \E e \in Range(k) : e.type \in {"subscription.changed"}
      /\ a # NoRow /\ a.status \notin Live /\ sub.status \in Live =>
           \E e \in Range(k) : e.type \in ActiveTypes
  BY <1>3 DEF SubNews
<1> SUFFICES /\ \A w : Due(w, sub, src, how) =>
                  /\ Spares(w, k, sub)
                  /\ Holds(w, t, r, sub) \/ \E e \in Range(k) : Makes(w, e, sub)
             /\ src = "stripe" /\ how = "calm" =>
                  \E w \in Outcomes : Spares(w, k, sub) /\ Holds(w, t, r, sub)
  BY <1>1, Leads DEF Arrives
<1>6. ASSUME NEW w, Due(w, sub, src, how)
      PROVE  /\ Spares(w, k, sub)
             /\ Holds(w, t, r, sub) \/ \E e \in Range(k) : Makes(w, e, sub)
  <2>1. CASE w = "row"
    BY <1>5, <2>1 DEF Due, Spares, Keeps, Makes, Holds
  <2>2. CASE w = "mrr"
    BY <1>2, <1>4, <1>5, <1>6, <2>2 DEF Due, Spares, Keeps, Agrees, Makes, Holds
  <2>3. CASE w = "endless"
    BY <1>2, <1>5, <1>6, <2>3 DEF Due, Spares, Keeps, Agrees, Holds, Makes
  <2>4. CASE w = "ended"
    BY <1>1, <1>3, <1>6, <2>4
       DEF Due, SubNews, Spares, Keeps, Makes, AmountTypes, ActiveTypes
  <2>5. CASE w = "items"
    <3>1. src = "stripe"
      BY <1>6, <2>5 DEF Due
    <3>2. \A e \in Range(k) : e.type \in {"subscription.created", "subscription.changed"} =>
                                e.p.items = Stripe!SerializeItems(sub)
      BY <1>2, <3>1 DEF Agrees
    <3>3. a # NoRow /\ a.mrr = sub.mrr => Holds(w, t, r, sub)
      BY <2>5, <3>1 DEF Due, SubShape, ItemsIn, Holds
    <3> QED
      BY <1>5, <2>5, <3>2, <3>3 DEF Spares, Keeps, Makes
  <2>6. CASE w = "trialless"
    BY <1>2, <1>6, <2>6 DEF Due, SubNews, Holds, Spares, Keeps, Tries
  <2>7. CASE w = "undecided"
    BY <1>2, <1>6, <2>7 DEF Due, SubNews, Holds, Spares, Keeps, Tries
  <2>8. CASE w = "expired"
    BY <1>3, <1>6, <2>8 DEF Due, SubNews, Spares, Keeps, Makes
  <2> QED
    BY <1>6, <2>1, <2>2, <2>3, <2>4, <2>5, <2>6, <2>7, <2>8 DEF Due
<1>7. ASSUME src = "stripe", how = "calm"
      PROVE  \E w \in Outcomes : Spares(w, k, sub) /\ Holds(w, t, r, sub)
  BY <1>2, <1>7 DEF Due, Holds, Spares, Keeps, Tries, Outcomes
<1> QED
  BY <1>6, <1>7

\* Events that are not about the subscription: of the bills, ...
BillTypes == InvoiceTypes \union PaymentTypes \union CouponTypes \union NoteTypes
Aside(s) == IsStream(s) /\ \A e \in Range(s) : e.type \notin SubTypes

LEMMA BillsAreAside ==
  ASSUME NEW s, NEW x, Says(s, BillTypes, x) \/ \E type \in BillTypes : Single(s, type, x)
  PROVE  Aside(s)
BY OneEvent
   DEF BillTypes, InvoiceTypes, PaymentTypes, CouponTypes, NoteTypes, SubTypes, Says,
       Aside, Single

LEMMA InvoicesAreAside ==
  ASSUME NEW x, NEW at
  PROVE  /\ Aside(Stripe!InvoiceCreated(x)) /\ Aside(Stripe!InvoicePaid(x, at))
         /\ Aside(Stripe!InvoiceVoided(x, at)) /\ Aside(Stripe!InvoiceUncollectible(x, at))
         /\ Aside(Stripe!InvoiceBackfill(x)) /\ Aside(Stripe!PaymentBackfill(x))
         /\ Aside(Chargebee!InvoiceGenerated(x, at))
         /\ Aside(Chargebee!InvoiceUpdated(x, at))
<1> DEFINE Of(s) == Says(s, BillTypes, x.id)
<1>1. \A type \in BillTypes : \A d, p :
          /\ Of(<<Stripe!Make(type, x.id, x.customer, d, p)>>)
          /\ Of(<<Chargebee!Make(type, x.id, x.customer, d, p)>>)
  <2> TAKE type \in BillTypes
  <2> TAKE d, p
  <2> DEFINE e == [type |-> type, obj |-> x.id, cust |-> x.customer, at |-> d, p |-> p]
  <2>1. e.type \in BillTypes /\ e.obj = x.id
    OBVIOUS
  <2>2. /\ Stripe!Make(type, x.id, x.customer, d, p) = e
        /\ Chargebee!Make(type, x.id, x.customer, d, p) = e
    BY DEF Stripe!Make, Chargebee!Make
  <2> HIDE DEF e
  <2> QED
    BY <2>1, <2>2, SaysOne
<1>2. /\ "invoice.created" \in BillTypes /\ "invoice.paid" \in BillTypes
      /\ "invoice.voided" \in BillTypes /\ "invoice.uncollectible" \in BillTypes
      /\ "payment.succeeded" \in BillTypes
  BY DEF BillTypes, InvoiceTypes, PaymentTypes
<1>3. Of(<<>>)
  BY SaysNothing
<1>4. \A d, p : /\ Of(<<Stripe!InvoiceEvent("invoice.paid", x, d, p)>>)
                /\ Of(<<Chargebee!InvoiceEvent("invoice.created", x, d, p)>>)
                /\ Of(<<Chargebee!InvoiceEvent("invoice.paid", x, d, p)>>)
                /\ Of(<<Chargebee!InvoiceEvent("invoice.voided", x, d, p)>>)
  BY <1>1, <1>2 DEF Stripe!InvoiceEvent, Chargebee!InvoiceEvent
<1>5. Of(Stripe!InvoiceCreated(x))
  BY <1>1, <1>2 DEF Stripe!InvoiceCreated, Stripe!InvoiceEvent
<1>6. Of(Stripe!InvoicePaid(x, at))
  BY <1>4 DEF Stripe!InvoicePaid
<1>7. Of(Stripe!InvoiceVoided(x, at)) /\ Of(Stripe!InvoiceUncollectible(x, at))
  BY <1>1, <1>2
     DEF Stripe!InvoiceVoided, Stripe!InvoiceUncollectible, Stripe!InvoiceEvent
<1>8. Of(Stripe!InvoiceBackfill(x))
  BY <1>3, <1>4, <1>5, SaysBoth DEF Stripe!InvoiceBackfill, Stripe!If
<1>9. Of(Stripe!PaymentBackfill(x))
  BY <1>1, <1>2, <1>3 DEF Stripe!PaymentBackfill, Stripe!Payment, Stripe!If
<1>10. Of(Chargebee!InvoiceUpdated(x, at)) /\ Of(Chargebee!InvoiceGenerated(x, at))
  BY <1>3, <1>4, SaysBoth
     DEF Chargebee!Paid, Chargebee!InvoiceGenerated, Chargebee!InvoiceUpdated
<1> QED
  BY <1>5, <1>6, <1>7, <1>8, <1>9, <1>10, BillsAreAside

\* ... and whatever is reported of a turn that is not the subscription's.
LEMMA TurnedAside ==
  ASSUME NEW a, NEW o, NEW src, NEW n, NEW events, Turned(a, o, src, n, events)
  PROVE  \/ SubTurned(a.sub, o.sub, src, n, events)
         \/ o.sub = a.sub /\ Aside(events)
<1>1. \A s, type, x : type \in BillTypes /\ Single(s, type, x) => Aside(s)
  BY BillsAreAside
<1>2. /\ PaymentTypes \subseteq BillTypes /\ NoteTypes \subseteq BillTypes
      /\ "coupon.deleted" \in BillTypes
  BY DEF BillTypes, CouponTypes
<1>3. CASE Rest(a, o, "sub") /\ SubTurned(a.sub, o.sub, src, n, events)
  BY <1>3
<1>4. CASE Rest(a, o, "invoice") /\ InvoiceTurned(a.invoice, o.invoice, src, n, events)
  BY <1>4, InvoicesAreAside DEF InvoiceTurned, Rest
<1>5. CASE Rest(a, o, "payment") /\ PaymentTurned(a.payment, o.payment, src, n, events)
  <2>1. \E type \in PaymentTypes : \E x : Single(events, type, x)
    <3>1. /\ "payment.failed" \in PaymentTypes /\ "payment.succeeded" \in PaymentTypes
          /\ "payment.refunded" \in PaymentTypes
      BY DEF PaymentTypes
    <3>2. \/ \E type \in PaymentTypes : \E pi : \/ events = Stripe!Payment(type, pi, n)
                                               \/ events = Chargebee!Payment(type, pi, n)
          \/ events = Stripe!ChargeRefunded("charge", a.payment, n)
          \/ events = Chargebee!Refunded("refund", a.payment, n)
      BY <1>5, <3>1 DEF PaymentTurned
    <3> QED
      BY <3>1, <3>2, StripeSingles, ChargebeeSingles
  <2> QED
    BY <1>1, <1>2, <1>5, <2>1 DEF Rest
<1>6. CASE Rest(a, o, "note") /\ NoteTurned(a.note, o.note, src, n, events)
  <2>1. \E type \in NoteTypes : \E x : Single(events, type, x)
    BY <1>6, StripeSingles, ChargebeeSingles
       DEF NoteTypes, NoteTurned, Chargebee!NoteUpdated
  <2> QED
    BY <1>1, <1>2, <1>6, <2>1 DEF Rest
<1>7. CASE Rest(a, o, "coupon") /\ CouponTurned(a.coupon, o.coupon, src, n, events)
  BY <1>1, <1>2, <1>7, StripeSingles, ChargebeeSingles DEF CouponTurned, Rest
<1>8. CASE Rest(a, o, "other") /\ Others(events)
  BY <1>8
     DEF OtherTypes, ProductTypes, PlanTypes, CustomerTypes, SubTypes, Rest, Others,
         FormedStream, Aside
<1> QED
  BY <1>3, <1>4, <1>5, <1>6, <1>7, <1>8 DEF Turned

\* Waiting is a creation that will be dead-lettered.
Doomed ==
  \E e \in Range(queue["customer"]) :
    e.type = "subscription.created" /\ e.p.status \notin CanonicalSubscriptionStatuses

\* Before it is there and in its trial a Stripe subscription was never ended.
Fresh ==
  obj.sub = NoRow \/ obj.sub.status = "trialing" =>
    /\ Holds("endless", tables, trial, obj.sub)
    /\ \A e \in Known : e.type # "subscription.churned"

\* What is due of the subscription comes.
Upcoming ==
  /\ IsTrial(trial) /\ Fresh
  /\ steady # "disturbed" =>
       /\ \A e \in Range(queue["catalog"]) : Partition(e) = "catalog"
       /\ \/ Doomed
          \/ Arrives(queue["customer"], tables, trial, obj.sub, source, steady)

\* A sequence of events after another, under a key.
LEMMA PublishedTo ==
  ASSUME Streams, NEW events, IsStream(events), Publish(events)
  PROVE  /\ \A p \in {"catalog", "customer"} : queue'[p] = queue[p] \o Keyed(events, p)
         /\ queue["customer"] = <<>> => queue'["customer"] = Keyed(events, "customer")
         /\ (\A e \in Range(queue["catalog"]) : Partition(e) = "catalog") =>
              \A e \in Range(queue'["catalog"]) : Partition(e) = "catalog"
<1>1. \A p \in {"catalog", "customer"} : queue'[p] = queue[p] \o Keyed(events, p)
  BY DEF Streams, Publish
<1>2. \A p : /\ IsStream(Keyed(events, p))
             /\ Range(Keyed(events, p)) = {e \in Range(events) : Partition(e) = p}
  BY KeyedIs
<1>3. queue["customer"] = <<>> => queue'["customer"] = Keyed(events, "customer")
  <2>1. Keyed(events, "customer") \in Seq(Range(Keyed(events, "customer")))
    BY <1>2 DEF IsStream
  <2> QED
    BY <1>1, <2>1, ConcatEmptySeq
<1>4. /\ queue'["catalog"] = queue["catalog"] \o Keyed(events, "catalog")
      /\ IsStream(queue["catalog"])
  BY <1>1 DEF Streams
<1>5. Range(queue'["catalog"]) = Range(queue["catalog"]) \union Range(Keyed(events, "catalog"))
  BY <1>2, <1>4, Joined
<1> QED
  BY <1>1, <1>2, <1>3, <1>5

\* A turn keeps it so.
LEMMA UpcomingTurn ==
  ASSUME NoRowIsNoRecord, BillingInv, TypesInv, Upcoming, Turn
  PROVE  Upcoming'
<1>1. PICK o, s : Act(o, s) /\ Turned(obj, o, source, Now, s)
  BY TurnIs DEF BillingInv, TypesInv
<1>2. /\ turns < MaxTurns /\ obj' = o /\ Send(s) /\ queue["customer"] = <<>>
      /\ UNCHANGED <<source, tables, trial, parked>>
  BY <1>1 DEF Act, state
<1>3. turns \in Nat /\ turns + 1 \in Times
  BY <1>2, BillingAssumption DEF TypesInv, Times
<1>4. Shaped(o, source, turns + 1) /\ FormedStream(s)
  BY <1>1, <1>3, TurnedFormed DEF TypesInv, Now
<1>5. Known' = Known \union Range(s)
  BY <1>2, <1>4, Reported DEF BillingInv, FormedStream
<1> DEFINE a == obj.sub
           sub == o.sub
           k == Keyed(s, "customer")
<1>6. Holds("endless", tables, trial, a) => Holds("endless", tables, trial, sub)
  BY DEF Holds
<1>7. SUFFICES
        /\ sub = NoRow \/ sub.status = "trialing" =>
             /\ Holds("endless", tables, trial, sub)
             /\ \A e \in Known \union Range(s) : e.type # "subscription.churned"
        /\ Arrives(<<>>, tables, trial, a, source, steady) =>
             Arrives(k, tables, trial, sub, source, steady)
  BY <1>2, <1>4, <1>5, PublishedTo
     DEF Fresh, Upcoming, Send, BillingInv, FormedStream, Doomed, Range
<1>8. CASE SubTurned(a, sub, source, Now, s)
  <2>1. (a # NoRow => SubShape(a, source, turns)) /\ source \in {"stripe", "chargebee"}
    BY DEF TypesInv, Shaped
  <2>2. SubShape(sub, source, turns + 1) /\ sub # NoRow
    BY <1>1, <1>3, <1>8, <2>1, ShapesLater, SubTurnedFormed
       DEF Now, SubShape, NoRowIsNoRecord
  <2>3. SubNews(a, sub, source, s)
    BY <1>3, <1>8, <2>1, <2>2, SubTurnedNews DEF Now
  <2>4. sub.status = "trialing" =>
          /\ Holds("endless", tables, trial, a)
          /\ \A e \in Known \union Range(s) : e.type # "subscription.churned"
    BY <2>3 DEF Upcoming, Fresh, SubNews, Telling, Agrees, Live
  <2>5. a = NoRow => Holds("endless", tables, trial, a)
    BY DEF Upcoming, Fresh
  <2> HIDE DEF a, sub, k
  <2>6. Arrives(<<>>, tables, trial, a, source, steady) =>
          Arrives(k, tables, trial, sub, source, steady)
    BY <1>4, <2>1, <2>2, <2>3, <2>5, NewsLead DEF k
  <2> QED
    BY <1>6, <2>2, <2>4, <2>6
<1>9. CASE sub = a /\ Aside(s)
  BY <1>9, KeyedIs, Apart, ComesAtOnce
     DEF Aside, Spares, Comes, Arrives, Due, Outcomes, Upcoming, Fresh, SubTypes
<1> QED
  BY <1>1, <1>8, <1>9, TurnedAside

\* The subscription's part of a backfill brings what is due, unless its status is
\* none of the canonical ones; that a trialing one has no end is not told.
LEMMA BackfillBrings ==
  ASSUME NEW n, NEW sub, SubShape(sub, "stripe", n), NEW s, s = Stripe!SubBackfill(sub)
  PROVE  /\ sub.status \notin CanonicalSubscriptionStatuses =>
              \E e \in Range(s) : /\ e.type = "subscription.created"
                                  /\ e.p.status \notin CanonicalSubscriptionStatuses
         /\ sub.status \in Live => \A e \in Range(s) : e.type # "subscription.churned"
         /\ sub.status \in CanonicalSubscriptionStatuses =>
              \A w : Due(w, sub, "stripe", "refreshed") =>
                Brings(w, s, sub) \/ (w = "endless" /\ sub.status = "trialing")
BY BackfillTells, Leads
   DEF Telling, AmountTypes, Spares, Keeps, Makes, Due, Agrees, Live,
       CanonicalSubscriptionStatuses, Tells

\* Around it is what is not about the subscription.
SubBackfilled == IF obj.sub = NoRow THEN <<>> ELSE Stripe!SubBackfill(obj.sub)
InvoiceBackfilled == IF obj.invoice = NoRow THEN <<>> ELSE Stripe!InvoiceBackfill(obj.invoice)
PaymentBackfilled == IF obj.payment = NoRow THEN <<>> ELSE Stripe!PaymentBackfill(obj.payment)

LEMMA BackfillAround ==
  ASSUME BillingInv, TypesInv, source = "stripe"
  PROVE  \E before :
           /\ Aside(before) /\ Aside(InvoiceBackfilled) /\ Aside(PaymentBackfilled)
           /\ BackfillEvents = ((before \o SubBackfilled) \o InvoiceBackfilled)
                               \o PaymentBackfilled
<1> DEFINE product == Stripe!Product("product.created", obj.product, Now)
           plan(p) == Stripe!Price("plan.created", obj.price[p], Now)
           customer == IF obj.customer = NoRow THEN <<>>
                       ELSE Stripe!Customer("customer.created", obj.customer)
<1>1. Aside(<<>>) /\ \A a, b : Aside(a) /\ Aside(b) => Aside(a \o b)
  BY NoEvents, Joined DEF Aside
<1>2. \A a, type, x : type \in OtherTypes /\ Single(a, type, x) => Aside(a)
  BY OneEvent
     DEF OtherTypes, ProductTypes, PlanTypes, CustomerTypes, SubTypes, Single, Aside
<1>3. /\ "product.created" \in OtherTypes /\ "plan.created" \in OtherTypes
      /\ "customer.created" \in OtherTypes
  BY DEF OtherTypes, ProductTypes, PlanTypes, CustomerTypes
<1>4. /\ \E x : Single(product, "product.created", x)
      /\ obj.customer # NoRow => \E x : Single(customer, "customer.created", x)
  BY StripeSingles DEF ProductTypes, CustomerTypes
<1>5. Aside(product) /\ Aside(customer)
  BY <1>1, <1>2, <1>3, <1>4
<1>6. \A p \in {"monthly", "yearly", "metered"} : Aside(plan(p))
  BY <1>1, <1>2, <1>3, PriceSingles DEF PlanTypes
<1>7. Aside(InvoiceBackfilled) /\ Aside(PaymentBackfilled)
  BY <1>1, InvoicesAreAside DEF InvoiceBackfilled, PaymentBackfilled
<1> HIDE DEF product, plan, customer
<1>8. Aside(product \o plan("monthly") \o plan("yearly") \o plan("metered") \o customer)
  BY <1>1, <1>5, <1>6
<1>9. BackfillEvents = product \o plan("monthly") \o plan("yearly") \o plan("metered")
                       \o customer \o SubBackfilled \o InvoiceBackfilled
                       \o PaymentBackfilled
  BY DEF BackfillEvents, SubBackfilled, InvoiceBackfilled, PaymentBackfilled, product, plan,
         customer
<1> QED
  BY <1>7, <1>8, <1>9

\* A backfill brings back what is due, whatever was late or lost before.
LEMMA UpcomingBackfill ==
  ASSUME BillingInv, TypesInv, Upcoming, Backfill
  PROVE  Upcoming'
<1>1. /\ source = "stripe" /\ Publish(BackfillEvents)
      /\ steady' = (IF queue["catalog"] = <<>> THEN "refreshed" ELSE "disturbed")
      /\ UNCHANGED <<source, obj, late, sent, tables, trial, parked>>
  BY DEF Backfill, state
<1>2. FormedStream(BackfillEvents) /\ IsStream(BackfillEvents)
  BY <1>1, BackfillFormed DEF FormedStream
<1>3. Known' = Known \union Range(BackfillEvents)
  BY <1>1, <1>2, Published DEF BillingInv, Waiting, Known
<1> DEFINE sub == obj.sub
           s == SubBackfilled
           k == Keyed(BackfillEvents, "customer")
<1>5. /\ sub # NoRow => SubShape(sub, "stripe", turns) /\ s = Stripe!SubBackfill(sub)
      /\ sub = NoRow => s = <<>>
  BY <1>1 DEF TypesInv, Shaped, SubBackfilled
<1>6. IsStream(s)
  BY <1>5, BackfillTells, NoEvents DEF Telling
<1>4. PICK before, invoice, payment :
        /\ Aside(before) /\ Aside(invoice) /\ Aside(payment)
        /\ BackfillEvents = ((before \o s) \o invoice) \o payment
  BY <1>1, BackfillAround
<1> HIDE DEF s
<1>7. /\ Range(s) \subseteq Range(BackfillEvents)
      /\ \A e \in Range(BackfillEvents) : e \in Range(s) \/ e.type \notin SubTypes
  BY <1>4, <1>6, Joined DEF Aside
<1>8. ASSUME NEW w, w \notin {"dated", "coupon"}, Brings(w, s, sub) PROVE Brings(w, k, sub)
  <2>1. Spares(w, invoice, sub) /\ Spares(w, payment, sub)
    BY <1>4, <1>8, Apart DEF Aside, Spares
  <2>2. IsStream(before \o s) /\ IsStream((before \o s) \o invoice)
    BY <1>4, <1>6, Joined DEF Aside
  <2>3. Brings(w, before \o s, sub)
    BY <1>4, <1>6, <1>8, BringsAfter DEF Aside
  <2>4. Brings(w, (before \o s) \o invoice, sub)
    BY <1>4, <2>1, <2>2, <2>3, BringsAfter DEF Aside
  <2>5. Brings(w, BackfillEvents, sub)
    BY <1>4, <2>1, <2>2, <2>4, BringsAfter DEF Aside
  <2>6. \A e \in Range(BackfillEvents) : Makes(w, e, sub) => Partition(e) = "customer"
    BY <1>2, <1>8, Apart, Keys DEF FormedStream, SubTypes, CatalogTypes, ProductTypes, PlanTypes,
                             CouponTypes
  <2> QED
    BY <1>2, <2>5, <2>6, KeyedBrings
<1>9. sub = NoRow \/ sub.status = "trialing" =>
        \A e \in Range(BackfillEvents) : e.type # "subscription.churned"
  BY <1>5, <1>7, BackfillBrings, NoEvents DEF Live, SubTypes
<1>10. Fresh'
  BY <1>1, <1>3, <1>9 DEF Upcoming, Fresh
<1>11. ASSUME steady' # "disturbed"
       PROVE  /\ \A e \in Range(queue'["catalog"]) : Partition(e) = "catalog"
              /\ \/ Doomed'
                 \/ Arrives(queue'["customer"], tables, trial, sub, source, steady')
  <2>1. steady' = "refreshed" /\ queue["catalog"] = <<>>
    BY <1>1, <1>11
  <2>2. /\ queue'["customer"] = queue["customer"] \o k
        /\ \A e \in Range(queue'["catalog"]) : Partition(e) = "catalog"
    BY <1>1, <1>2, <2>1, NoEvents, PublishedTo DEF BillingInv
  <2>3. /\ IsStream(k) /\ IsStream(queue["customer"])
        /\ Range(k) = {e \in Range(BackfillEvents) : Partition(e) = "customer"}
    BY <1>2, KeyedIs DEF BillingInv, Streams
  <2> HIDE DEF k
  <2>4. /\ IsStream(queue'["customer"])
        /\ Range(queue'["customer"]) = Range(queue["customer"]) \union Range(k)
    BY <2>2, <2>3, Joined
  <2>5. CASE sub = NoRow
    BY <2>1, <2>2, <2>5 DEF Arrives, Due
  <2>6. CASE sub # NoRow /\ sub.status \notin CanonicalSubscriptionStatuses
    <3>1. PICK e \in Range(s) : /\ e.type = "subscription.created"
                                /\ e.p.status \notin CanonicalSubscriptionStatuses
      BY <1>5, <2>6, BackfillBrings
    <3>2. Partition(e) = "customer"
      BY <1>2, <1>7, <3>1, Keys DEF FormedStream, CatalogTypes, ProductTypes, PlanTypes,
                                    CouponTypes
    <3> QED
      BY <1>7, <2>2, <2>3, <2>4, <3>1, <3>2 DEF Doomed
  <2>7. CASE sub # NoRow /\ sub.status \in CanonicalSubscriptionStatuses
    <3>1. ASSUME NEW w, Due(w, sub, "stripe", "refreshed")
          PROVE  Comes(w, queue'["customer"], tables, trial, sub)
      <4>1. CASE Brings(w, s, sub)
        BY <1>8, <2>2, <2>3, <3>1, <4>1, BringsAfter DEF Due, Comes
      <4>2. CASE w = "endless" /\ sub.status = "trialing"
        BY <1>1, <1>10, <4>2 DEF Fresh, Known, Waiting, Spares, Keeps, Comes
      <4> QED
        BY <1>5, <2>7, <3>1, <4>1, <4>2, BackfillBrings
    <3> QED
      BY <1>1, <2>1, <2>2, <3>1 DEF Arrives
  <2> QED
    BY <2>2, <2>5, <2>6, <2>7
<1> QED
  BY <1>1, <1>10, <1>11 DEF Upcoming

\* A webhook that comes late or again disturbs the rest, a rate does not.
LEMMA UpcomingDelivery ==
  ASSUME BillingInv, TypesInv, Upcoming, Arrive \/ Resend \/ Replay \/ RatesArrive
  PROVE  Upcoming'
<1>1. ASSUME steady' = "disturbed", Known' \subseteq Known, UNCHANGED <<obj, tables, trial>>
      PROVE  Upcoming'
  BY <1>1 DEF Upcoming, Fresh
<1>2. ASSUME NEW events \in late \union sent, Publish(events), parked' = parked,
             EventsOf(late') \subseteq EventsOf(late) \union EventsOf(sent),
             EventsOf(sent') \subseteq EventsOf(late) \union EventsOf(sent)
      PROVE  Known' \subseteq Known
  BY <1>2, Published DEF BillingInv, Streams, EventsOf, Known, Waiting
<1>3. CASE Arrive
  BY <1>1, <1>2, <1>3 DEF Arrive, state, EventsOf
<1>4. CASE Resend
  BY <1>1, <1>2, <1>4 DEF Resend, state
<1>5. CASE Replay
  BY <1>1, <1>5, Appended DEF Replay, state, BillingInv, Streams, Known, Waiting
<1>6. CASE RatesArrive
  BY <1>6 DEF RatesArrive, bus, Known, Waiting, Upcoming, Fresh, Doomed
<1> QED
  BY <1>3, <1>4, <1>5, <1>6

\* An event the state consumer handled turns what is due and what is not.
LEMMA HandledTurns ==
  ASSUME NoRowIsNoRecord, BillingInv, TypesInv, IsTrial(trial), NEW e \in Known,
         tables' = HandleState(tables, e), trial' = HandledTrial(e)
  PROVE  /\ IsTrial(trial')
         /\ \A w : Due(w, obj.sub, source, steady) \/ w \in Outcomes \union {"endless"} =>
              Turns(w, tables, trial, e, tables', trial', obj.sub)
BY TrialBecomes, OthersTurn, SubTurns
   DEF BillingInv, TypesInv, HandledTrial, TrialThen, SubTypes, Due, Outcomes, Shaped

\* Handling an event, or setting it aside, keeps what is due on its way.
LEMMA UpcomingConsumed ==
  ASSUME NoRowIsNoRecord, BillingInv, TypesInv, Upcoming,
         NEW p \in {"catalog", "customer"}, Consume(p)
  PROVE  Upcoming'
<1>1. PICK e : /\ e = Head(queue[p])
               /\ queue[p] # <<>> /\ queue' = [queue EXCEPT ![p] = Tail(@)]
               /\ UNCHANGED <<source, obj, late, sent>>
               /\ Handle(p, e) \/ SetAside(p, e)
  BY DEF Consume
<1>2. Range(queue["catalog"]) \union Range(queue["customer"]) =
        Range(queue'["catalog"]) \union Range(queue'["customer"]) \union {e}
  BY <1>1, Taken DEF BillingInv
<1>3. e \in Known /\ Known' \subseteq Known
  BY <1>1, <1>2 DEF Handle, SetAside, Known, Waiting
<1>4. CASE SetAside(p, e)
  BY <1>1, <1>3, <1>4 DEF SetAside, Upcoming, Fresh
<1>5. CASE Handle(p, e)
  <2>1. /\ ~Raises(tables, e, fx) /\ tables' = HandleState(tables, e)
        /\ trial' = HandledTrial(e) /\ steady' = steady
    BY <1>5 DEF Handle
  <2> DEFINE x == obj.sub
  <2>2. /\ IsTrial(trial')
        /\ \A w : Due(w, x, source, steady) \/ w \in Outcomes \union {"endless"} =>
             Turns(w, tables, trial, e, tables', trial', x)
    BY <1>3, <2>1, HandledTurns DEF Upcoming
  <2>3. Fresh'
    BY <1>1, <1>3, <2>2 DEF Upcoming, Fresh, Turns, Keeps
  <2> SUFFICES ASSUME steady # "disturbed"
               PROVE  /\ \A d \in Range(queue'["catalog"]) : Partition(d) = "catalog"
                      /\ \/ Doomed'
                         \/ Arrives(queue'["customer"], tables', trial', x, source, steady)
    BY <1>1, <2>1, <2>2, <2>3 DEF Upcoming
  <2>4. CASE p = "catalog"
    <3>1. /\ queue'["catalog"] = Tail(queue["catalog"])
          /\ queue'["customer"] = queue["customer"]
          /\ Range(queue["catalog"]) = Range(Tail(queue["catalog"])) \union {e}
      BY <1>1, <2>4, Consumed DEF BillingInv, Streams
    <3>2. Partition(e) = "catalog" /\ Formed(e)
      BY <1>3, <3>1 DEF Upcoming, TypesInv
    <3>3. e.type \notin SubTypes
      BY <3>2, Keys DEF SubTypes, CatalogTypes, ProductTypes, PlanTypes, CouponTypes
    <3>4. ASSUME NEW w, Due(w, x, source, steady) \/ w \in Outcomes,
                 Comes(w, queue["customer"], tables, trial, x)
          PROVE  Comes(w, queue["customer"], tables', trial', x)
      BY <2>2, <3>3, <3>4, Apart, ComesBeside DEF Due, Outcomes
    <3> QED
      BY <3>1, <3>4 DEF Upcoming, Doomed, Arrives
  <2>5. CASE p = "customer"
    <3>1. /\ queue'["customer"] = Tail(queue["customer"])
          /\ queue'["catalog"] = queue["catalog"]
          /\ Range(queue["customer"]) = Range(Tail(queue["customer"])) \union {e}
          /\ queue["customer"] # <<>> /\ e = Head(queue["customer"])
          /\ IsStream(queue["customer"])
      BY <1>1, <2>5, Consumed DEF BillingInv, Streams
    <3>2. Doomed => Doomed'
      BY <2>1, <3>1 DEF Doomed, Raises
    <3>3. ASSUME NEW w, Due(w, x, source, steady) \/ w \in Outcomes,
                 Comes(w, queue["customer"], tables, trial, x)
          PROVE  Comes(w, queue'["customer"], tables', trial', x)
      BY <2>2, <3>1, <3>3, ComesLater
    <3> QED
      BY <3>1, <3>2, <3>3 DEF Upcoming, Arrives
  <2> QED
    BY <2>4, <2>5
<1> QED
  BY <1>1, <1>4, <1>5

LEMMA UpcomingInit ==
  ASSUME NoRowIsNoRecord, Init
  PROVE  Upcoming
<1>1. /\ tables.sub[s1] = NoRow
      /\ \A e \in Known : e.type \notin SubTypes
      /\ \A e \in Range(queue["catalog"]) : Partition(e) = "catalog"
  BY TypesInit
<1>2. trial = NoRow /\ obj.sub = NoRow
  BY DEF Init
<1>3. \A e \in Known : e.type # "subscription.churned"
  BY <1>1 DEF SubTypes
<1>4. IsTrial(trial) /\ Fresh
  BY <1>1, <1>2, <1>3 DEF IsTrial, Fresh, Holds
<1>5. \A w : w \notin {"dated", "coupon"} => Spares(w, queue["customer"], obj.sub)
  BY <1>1, Apart DEF Spares, Known, Waiting
<1>6. \A w \in {"trialless", "undecided"} \union Outcomes :
        Holds(w, tables, trial, obj.sub)
  BY <1>2 DEF Holds, Outcomes
<1>7. Arrives(queue["customer"], tables, trial, obj.sub, source, steady)
  BY <1>2, <1>5, <1>6 DEF Arrives, Comes, Due, Outcomes
<1> QED
  BY <1>1, <1>4, <1>7 DEF Upcoming

LEMMA UpcomingStep ==
  ASSUME NoRowIsNoRecord, BillingInv, TypesInv, Upcoming, [Next]_vars
  PROVE  Upcoming'
BY UpcomingTurn, UpcomingDelivery, UpcomingBackfill, UpcomingConsumed
   DEF vars, Known, Waiting, Upcoming, Fresh, Doomed, Next

LEMMA UpcomingAlways == NoRowIsNoRecord => (Spec => [](BillingInv /\ TypesInv /\ Upcoming))
<1> SUFFICES ASSUME NoRowIsNoRecord PROVE Spec => [](BillingInv /\ TypesInv /\ Upcoming)
  OBVIOUS
<1>1. Init => BillingInv /\ TypesInv /\ Upcoming
  BY BillingInvInit, TypesInit, UpcomingInit
<1>2. BillingInv /\ TypesInv /\ Upcoming /\ [Next]_vars => (BillingInv /\ TypesInv /\ Upcoming)'
  BY BillingInvStep, TypesStep, UpcomingStep
<1> QED
  BY <1>1, <1>2, PTL DEF Spec

\* With nothing on its way what is due is there.
LEMMA Arrived ==
  ASSUME BillingInv, TypesInv, Upcoming, Idle, steady # "disturbed"
  PROVE  /\ \A w : Due(w, obj.sub, source, steady) => Holds(w, tables, trial, obj.sub)
         /\ source = "stripe" /\ steady = "calm" =>
              \E w \in Outcomes : Holds(w, tables, trial, obj.sub)
         /\ obj.sub # NoRow => SubShape(obj.sub, source, turns)
BY NoEvents, ComesAtOnce
   DEF Idle, BillingInv, Streams, Doomed, Upcoming, Arrives, TypesInv, Shaped

\* The row of a live subscription has the provider's amount and no end, that of
\* an ended one is canceled, worth nothing and dated, once the events that came
\* undisturbed, or a backfill, are handled.
THEOREM BillingAmounts == NoRowIsNoRecord => (Spec => []AmountFollows)
<1>1. BillingInv /\ TypesInv /\ Upcoming => AmountFollows
  BY Arrived DEF AmountFollows, Undisturbed, Due, Status, Holds
<1> QED
  BY <1>1, UpcomingAlways, PTL

\* ... its items are the provider's and add up to its amount.
THEOREM BillingItems == NoRowIsNoRecord => (Spec => []ItemsAddUp)
<1>1. BillingInv /\ TypesInv /\ Upcoming => ItemsAddUp
  <2> DEFINE mine == {x \in Items : tables.item[x] # NoRow /\ tables.item[x].sub = s1}
             w == [x \in Items |-> tables.item[x].mrr]
  <2> SUFFICES ASSUME BillingInv, TypesInv, Upcoming, Undisturbed, source = "stripe",
                      Status \in Live
               PROVE  /\ mine = DOMAIN obj.sub.items
                      /\ MapThenSumSet(LAMBDA x : tables.item[x].mrr, mine) =
                           tables.sub[s1].mrr
    BY DEF ItemsAddUp
  <2>1. obj.sub # NoRow /\ obj.sub.status \in Live
    BY BillingAssumption DEF Status, Live
  <2>2. SubShape(obj.sub, "stripe", turns)
    BY <2>1, Arrived DEF Undisturbed
  <2>3. DOMAIN obj.sub.items = {"item"} /\ obj.sub.mrr \in Int
    BY <2>2 DEF SubShape, ItemsIn
  <2>4. /\ Holds("row", tables, trial, obj.sub) /\ Holds("mrr", tables, trial, obj.sub)
        /\ Holds("items", tables, trial, obj.sub)
    BY <2>1, Arrived DEF Undisturbed, Due
  <2>5. /\ tables.sub[s1].mrr = obj.sub.mrr
        /\ \A x \in Items : /\ tables.item[x] # NoRow <=> x = "item"
                            /\ x = "item" => tables.item[x].mrr = obj.sub.mrr
    BY <2>3, <2>4 DEF Holds
  <2>6. "item" \in Items
    BY BillingAssumption
  <2>7. mine = {"item"}
    BY <2>5, <2>6 DEF TypesInv, Typed
  <2>8. MapThenSumSet(LAMBDA x : tables.item[x].mrr, {"item"}) = obj.sub.mrr
    BY <2>3, <2>5, <2>6, OneItem
  <2> QED
    BY <2>3, <2>5, <2>7, <2>8
<1> QED
  BY <1>1, UpcomingAlways, PTL

\* A Stripe trial that was not disturbed has one outcome, the one it had.
THEOREM BillingTrials == NoRowIsNoRecord => (Spec => []TrialOutcome)
<1>1. BillingInv /\ TypesInv /\ Upcoming => TrialOutcome
  BY Arrived, BillingAssumption
     DEF TrialOutcome, Outcomes, Holds, Due, Status, SubShape, Stripe!CanceledInTrial
<1> QED
  BY <1>1, UpcomingAlways, PTL

-----------------------------------------------------------------------------
(* What the bills' events say *)

\* The event e reports the invoice a become inv; a new one is open, one that is
\* paid or void has its date.
InvoiceSays(a, inv, e) ==
  \/ /\ a = NoRow /\ e.type = "invoice.created" /\ e.p.total = inv.total
     /\ e.p.status = "open" /\ CanonicalInvoice(inv.status) = "open"
     /\ inv.paidAt = Null /\ inv.voidedAt = Null
  \/ /\ a # NoRow /\ inv.total = a.total
     /\ \/ /\ e.type = "invoice.paid" /\ CanonicalInvoice(inv.status) = "paid"
           /\ e.p.paidAt = inv.paidAt /\ inv.paidAt # Null /\ inv.voidedAt = a.voidedAt
        \/ /\ e.type = "invoice.voided" /\ CanonicalInvoice(inv.status) = "void"
           /\ e.p.voidedAt = inv.voidedAt /\ inv.voidedAt # Null /\ inv.paidAt = a.paidAt
        \/ /\ e.type = "invoice.uncollectible" /\ inv.paidAt = a.paidAt
           /\ CanonicalInvoice(inv.status) = "uncollectible" /\ inv.voidedAt = a.voidedAt

PaymentSays(a, pi, src, e) ==
  \/ e.type = "payment.succeeded" /\ e.obj = t1 /\ pi.status = "succeeded"
  \/ e.type = "payment.failed" /\ e.obj = t1 /\ pi.status = "failed"
  \/ /\ e.type = "payment.refunded" /\ a # NoRow /\ pi.status = "refunded"
     /\ e.obj = t1 \/ src = "stripe"

NoteSays(a, cn, e) ==
  \/ /\ a = NoRow /\ e.type = "credit_note.created" /\ e.p.invoice = i1
     /\ e.p.status = "issued" /\ cn.voidedAt = Null
  \/ a # NoRow /\ e.type = "credit_note.voided" /\ cn.voidedAt # Null

\* A turn of the invoice is reported by one such event, ...
LEMMA InvoiceTells ==
  ASSUME NEW n \in Times, NEW src \in {"stripe", "chargebee"}, NEW a, NEW inv, NEW s,
         a # NoRow => InvoiceShape(a, src, n), InvoiceTurned(a, inv, src, n, s)
  PROVE  \E e : s = <<e>> /\ InvoiceSays(a, inv, e)
<1>1. n # Null
  BY BillingAssumption DEF Times
<1>2. CASE a = NoRow /\ inv = InvoiceIn(src, n)
           /\ s = IF src = "stripe" THEN Stripe!InvoiceCreated(inv)
                  ELSE Chargebee!InvoiceGenerated(inv, n)
  <2>1. /\ inv.total = 2 /\ inv.paidAt = Null /\ inv.voidedAt = Null
        /\ inv.status = IF src = "stripe" THEN "open" ELSE "payment_due"
    BY <1>2 DEF InvoiceIn
  <2>2. CanonicalInvoice(inv.status) = "open"
    BY <2>1 DEF CanonicalInvoice
  <2> DEFINE made == Stripe!InvoiceEvent("invoice.created", inv, inv.createdAt,
                                         Stripe!InvoicePayload(inv))
             told == Chargebee!InvoiceEvent("invoice.created", inv, n,
                                            Chargebee!InvoicePayload(inv))
  <2>3. src = "stripe" => /\ s = <<made>> /\ made.type = "invoice.created"
                          /\ made.p.total = inv.total /\ made.p.status = "open"
    BY <1>2, <2>1 DEF Stripe!InvoiceCreated, Stripe!InvoiceEvent, Stripe!Make,
                      Stripe!InvoicePayload
  <2>4. src = "chargebee" => /\ s = <<told>> \o <<>> /\ told.type = "invoice.created"
                             /\ told.p.total = inv.total /\ told.p.status = "open"
    BY <1>2, <2>1 DEF Chargebee!InvoiceGenerated, Chargebee!InvoiceEvent, Chargebee!Make,
                      Chargebee!InvoicePayload, Chargebee!InvoiceStatus
  <2> HIDE DEF made, told
  <2> QED
    BY <1>2, <2>1, <2>2, <2>3, <2>4 DEF InvoiceSays
<1>3. ASSUME NEW status \in {"paid", "void", "uncollectible"}, a # NoRow,
             a.status \in {"open", "payment_due"}, inv = Settled(a, status, src, n)
      PROVE  /\ inv.total = a.total /\ a.paidAt = Null /\ a.voidedAt = Null
             /\ inv.paidAt = IF status = "paid" THEN n ELSE Null
             /\ inv.voidedAt = IF status = "void" THEN n ELSE Null
             /\ inv.status = IF status = "void" /\ src = "chargebee" THEN "voided"
                             ELSE status
             /\ CanonicalInvoice(inv.status) = status
  <2>1. /\ {"total", "paidAt", "voidedAt", "status"} \subseteq DOMAIN a
        /\ a.paidAt = Null /\ a.voidedAt = Null
    BY <1>3 DEF InvoiceShape
  <2>2. /\ inv.total = a.total
        /\ inv.paidAt = IF status = "paid" THEN n ELSE Null
        /\ inv.voidedAt = IF status = "void" THEN n ELSE Null
        /\ inv.status = IF status = "void" /\ src = "chargebee" THEN "voided" ELSE status
    BY <1>3, <2>1 DEF Settled
  <2> QED
    BY <1>3, <2>1, <2>2 DEF CanonicalInvoice
<1>4. ASSUME NEW status \in {"paid", "void", "uncollectible"}, a # NoRow,
             a.status \in {"open", "payment_due"}, inv = Settled(a, status, src, n),
             NEW e,
             \/ status = "paid" /\ e.type = "invoice.paid" /\ e.p.paidAt = inv.paidAt
             \/ status = "void" /\ e.type = "invoice.voided" /\ e.p.voidedAt = inv.voidedAt
             \/ status = "uncollectible" /\ e.type = "invoice.uncollectible"
      PROVE  InvoiceSays(a, inv, e)
  BY <1>1, <1>3, <1>4 DEF InvoiceSays
<1>5. ASSUME src = "chargebee", a # NoRow, a.status \in {"open", "payment_due"},
             s = Chargebee!InvoiceUpdated(inv, n),
             NEW status \in {"paid", "void"}, inv = Settled(a, status, src, n)
      PROVE  \E e : s = <<e>> /\ InvoiceSays(a, inv, e)
  <2> DEFINE p == [sub |-> inv.sub, paidAt |-> inv.paidAt, amount |-> inv.total,
                   cur |-> inv.cur]
             paid == Chargebee!InvoiceEvent("invoice.paid", inv, n, p)
             void == Chargebee!InvoiceEvent("invoice.voided", inv, n,
                                            [voidedAt |-> inv.voidedAt])
  <2>1. inv.status = IF status = "void" THEN "voided" ELSE status
    BY <1>3, <1>5
  <2>2. s = IF status = "paid" THEN <<paid>> ELSE <<void>>
    BY <1>5, <2>1 DEF Chargebee!InvoiceUpdated, Chargebee!Paid
  <2>3. /\ paid.type = "invoice.paid" /\ paid.p.paidAt = inv.paidAt
        /\ void.type = "invoice.voided" /\ void.p.voidedAt = inv.voidedAt
    BY DEF Chargebee!InvoiceEvent, Chargebee!Make
  <2> HIDE DEF paid, void
  <2> QED
    BY <1>4, <1>5, <2>2, <2>3
<1>6. ASSUME src = "stripe", a # NoRow, a.status \in {"open", "payment_due"},
             NEW status \in {"paid", "void", "uncollectible"},
             inv = Settled(a, status, src, n),
             s = CASE status = "paid" -> Stripe!InvoicePaid(inv, n)
                   [] status = "void" -> Stripe!InvoiceVoided(inv, n)
                   [] OTHER -> Stripe!InvoiceUncollectible(inv, n)
      PROVE  \E e : s = <<e>> /\ InvoiceSays(a, inv, e)
  <2> DEFINE paid == Stripe!InvoiceEvent("invoice.paid", inv, n, Stripe!PaidPayload(inv))
             void == Stripe!InvoiceEvent("invoice.voided", inv, n,
                                         [voidedAt |-> inv.voidedAt])
             lost == Stripe!InvoiceEvent("invoice.uncollectible", inv, n,
                                         [status |-> inv.status])
  <2>1. s = CASE status = "paid" -> <<paid>> [] status = "void" -> <<void>>
              [] OTHER -> <<lost>>
    BY <1>6 DEF Stripe!InvoicePaid, Stripe!InvoiceVoided, Stripe!InvoiceUncollectible
  <2>2. /\ paid.type = "invoice.paid" /\ paid.p.paidAt = inv.paidAt
        /\ void.type = "invoice.voided" /\ void.p.voidedAt = inv.voidedAt
        /\ lost.type = "invoice.uncollectible"
    BY DEF Stripe!InvoiceEvent, Stripe!Make, Stripe!PaidPayload
  <2> HIDE DEF paid, void, lost
  <2> QED
    BY <1>4, <1>6, <2>1, <2>2
<1> QED
  BY <1>2, <1>5, <1>6 DEF InvoiceTurned

\* ... and so is a turn of the payment ...
LEMMA PaymentTells ==
  ASSUME NEW n, NEW src \in {"stripe", "chargebee"}, NEW a, NEW pi, NEW s,
         a # NoRow => PaymentShape(a), PaymentTurned(a, pi, src, n, s)
  PROVE  \E e : s = <<e>> /\ PaymentSays(a, pi, src, e)
<1>1. ASSUME NEW status \in {"succeeded", "failed"}, pi = PaymentObj(status, n)
      PROVE  pi.id = t1 /\ pi.status = status
  BY <1>1 DEF PaymentObj
<1>2. ASSUME a # NoRow, pi = [a EXCEPT !.status = "refunded"]
      PROVE  a.id = t1 /\ pi.status = "refunded"
  BY <1>2 DEF PaymentShape
<1> QED
  BY <1>1, <1>2, StripeSingles, ChargebeeSingles DEF Single, PaymentTurned, PaymentSays

\* ... or of the credit note.
LEMMA NoteTells ==
  ASSUME NEW n \in Nat, NEW src \in {"stripe", "chargebee"}, NEW a, NEW cn, NEW s,
         a # NoRow => NoteShape(a, n), NoteTurned(a, cn, src, n, s)
  PROVE  \E e : s = <<e>> /\ NoteSays(a, cn, e)
<1>1. n # Null
  BY BillingAssumption
<1>2. CASE a = NoRow
  <2> DEFINE p(o) == [invoice |-> o.invoice, customer |-> o.customer, status |-> "issued",
                      total |-> o.total, cur |-> o.cur]
             e(o) == [type |-> "credit_note.created", obj |-> o.id, cust |-> o.customer,
                      at |-> n, p |-> p(o)]
  <2>1. cn = NoteIn(src) /\ s = IF src = "stripe" THEN Stripe!NoteCreated(cn, n)
                                ELSE Chargebee!NoteCreated(cn, n)
    BY <1>2 DEF NoteTurned
  <2>2. /\ cn.invoice = i1 /\ cn.voidedAt = Null
        /\ cn.status = IF src = "stripe" THEN "issued" ELSE "refund_due"
    BY <2>1 DEF NoteIn
  <2>3. s = <<e(cn)>>
    <3>1. src = "stripe" => s = <<e(cn)>>
      BY <2>1, <2>2 DEF Stripe!NoteCreated, Stripe!NotePayload, Stripe!Make
    <3>2. Chargebee!NoteStatus("refund_due") = "issued"
      BY DEF Chargebee!NoteStatus
    <3>3. src = "chargebee" => s = <<e(cn)>>
      <4> SUFFICES ASSUME src = "chargebee" PROVE s = <<e(cn)>>
        OBVIOUS
      <4>1. Chargebee!NoteStatus(cn.status) = "issued"
        BY <2>2, <3>2
      <4>2. s = Chargebee!NoteCreated(cn, n)
        BY <2>1
      <4> QED
        BY <4>1, <4>2, Zenon
           DEF Chargebee!NoteCreated, Chargebee!NotePayload, Chargebee!Make
    <3> QED
      BY <3>1, <3>3
  <2>4. NoteSays(a, cn, e(cn))
    BY <1>2, <2>2 DEF NoteSays
  <2> QED
    BY <2>3, <2>4
<1>3. CASE a # NoRow
  <2> DEFINE word == IF src = "stripe" THEN "void" ELSE "voided"
  <2>1. /\ cn = [a EXCEPT !.status = word, !.voidedAt = n]
        /\ s = IF src = "stripe" THEN Stripe!NoteVoided(cn, n)
               ELSE Chargebee!NoteUpdated(cn, n)
    BY <1>3 DEF NoteTurned
  <2>2. cn.voidedAt = n /\ cn.status = word
    BY <1>3, <2>1 DEF NoteShape
  <2>3. \E e : s = <<e>> /\ e.type = "credit_note.voided"
    <3>1. /\ Single(Stripe!NoteVoided(cn, n), "credit_note.voided", cn.id)
          /\ Single(Chargebee!NoteVoided(cn, n), "credit_note.voided", cn.id)
      BY StripeSingles, ChargebeeSingles
    <3>2. s = Stripe!NoteVoided(cn, n) \/ s = Chargebee!NoteVoided(cn, n)
      BY <2>1, <2>2 DEF Chargebee!NoteUpdated
    <3> QED
      BY <3>1, <3>2 DEF Single
  <2> QED
    BY <1>1, <1>3, <2>2, <2>3 DEF NoteSays
<1> QED
  BY <1>2, <1>3
-----------------------------------------------------------------------------
(* The rows of the bills *)

\* What the rows say of the provider's objects o, see BillsFollow.
InvoiceIs(r, inv) ==
  /\ r # NoRow /\ r.status = CanonicalInvoice(inv.status) /\ r.total = inv.total
  /\ r.paidAt = inv.paidAt /\ r.voidedAt = inv.voidedAt
PaymentIs(r, pi, src) ==
  r # NoRow /\ (r.status = pi.status \/ (src = "stripe" /\ pi.status = "refunded"))
NoteIs(r, cn) ==
  r # NoRow /\ r.invoice = i1 /\ (r.status = "void" <=> cn.voidedAt # Null)

BillsAre(t, o, src) ==
  /\ IF o.invoice = NoRow THEN t.invoice[i1] = NoRow ELSE InvoiceIs(t.invoice[i1], o.invoice)
  /\ o.payment # NoRow => PaymentIs(t.payment[t1], o.payment, src)
  /\ IF o.note = NoRow THEN t.note[n1] = NoRow ELSE NoteIs(t.note[n1], o.note)

\* The event e reports that the objects a have become o.
Reports(a, o, src, e) ==
  \/ /\ Rest(a, o, "invoice") /\ o.invoice # NoRow
     /\ InvoiceSays(a.invoice, o.invoice, e)
  \/ Rest(a, o, "payment") /\ PaymentSays(a.payment, o.payment, src, e)
  \/ /\ Rest(a, o, "note") /\ o.note # NoRow /\ a.invoice # NoRow
     /\ NoteSays(a.note, o.note, e)
  \/ Rest(a, o, "other") /\ e.type \in OtherTypes

\* Once it is handled the rows are those of o.
LEMMA BillHandled ==
  ASSUME NoRowIsNoRecord, NEW t, IsTables(t), Typed(t), NEW src, NEW e, Formed(e),
         NEW a, NEW o, Reports(a, o, src, e), BillsAre(t, a, src),
         NEW u, u = HandleState(t, e)
  PROVE  BillsAre(u, o, src)
<1>1. /\ i1 \in Invoices /\ t1 \in Payments /\ n1 \in Notes
  BY TheObjects
<1>2. CASE /\ Rest(a, o, "invoice") /\ o.invoice # NoRow
           /\ InvoiceSays(a.invoice, o.invoice, e)
  <2> DEFINE inv == o.invoice
             r == t.invoice[i1]
             q == InvoiceRow(t, e)
  <2>1. e.type \in InvoiceTypes /\ e.obj = i1
    BY <1>2 DEF InvoiceSays, InvoiceTypes, Formed
  <2>2. u.invoice[i1] = q /\ SameBut(t, u, {"invoice", "line", "log"})
    BY <2>1, InvoiceEffect DEF InvoiceChanges
  <2>3. u.payment = t.payment /\ u.note = t.note /\ o.payment = a.payment /\ o.note = a.note
    BY <1>2, <2>2 DEF SameBut, TableNames, Rest
  <2>4. r # NoRow => {"status", "total", "paidAt", "voidedAt"} \subseteq DOMAIN r
    BY <1>1 DEF Typed
  <2>5. IF a.invoice = NoRow THEN r = NoRow ELSE InvoiceIs(r, a.invoice)
    BY DEF BillsAre
  <2>6. InvoiceIs(q, inv)
    <3>1. CASE a.invoice = NoRow
      <4>1. /\ e.type = "invoice.created" /\ e.p.total = inv.total
            /\ e.p.status = CanonicalInvoice(inv.status)
            /\ inv.paidAt = Null /\ inv.voidedAt = Null
        BY <1>2, <3>1 DEF InvoiceSays
      <4>2. q = [customer |-> Lookup(t.customer, e.p.customer),
                 sub |-> Lookup(t.sub, e.p.sub), status |-> e.p.status,
                 total |-> e.p.total, paidAt |-> Null, voidedAt |-> Null]
        BY <2>5, <3>1, <4>1 DEF InvoiceRow
      <4>3. q # NoRow
        BY <4>2 DEF NoRowIsNoRecord
      <4> QED
        BY <4>1, <4>2, <4>3 DEF InvoiceIs
    <3>2. CASE a.invoice # NoRow
      <4>1. InvoiceIs(r, a.invoice) /\ r # NoRow
        BY <2>5, <3>2 DEF InvoiceIs
      <4>2. CASE e.type = "invoice.paid"
        <5>1. q = [r EXCEPT !.status = "paid", !.paidAt = Coalesce(e.p.paidAt, e.at)]
          BY <4>1, <4>2 DEF InvoiceRow
        <5>2. /\ inv.total = a.invoice.total /\ CanonicalInvoice(inv.status) = "paid"
              /\ inv.paidAt = Coalesce(e.p.paidAt, e.at)
              /\ inv.voidedAt = a.invoice.voidedAt
          BY <1>2, <3>2, <4>2 DEF InvoiceSays, Coalesce
        <5>3. q # NoRow
          BY <5>1 DEF NoRowIsNoRecord
        <5> QED
          BY <2>4, <4>1, <5>1, <5>2, <5>3 DEF InvoiceIs
      <4>3. CASE e.type = "invoice.voided"
        <5>1. q = [r EXCEPT !.status = "void", !.voidedAt = Coalesce(e.p.voidedAt, e.at)]
          BY <4>1, <4>3 DEF InvoiceRow
        <5>2. /\ inv.total = a.invoice.total /\ CanonicalInvoice(inv.status) = "void"
              /\ inv.voidedAt = Coalesce(e.p.voidedAt, e.at)
              /\ inv.paidAt = a.invoice.paidAt
          BY <1>2, <3>2, <4>3 DEF InvoiceSays, Coalesce
        <5>3. q # NoRow
          BY <5>1 DEF NoRowIsNoRecord
        <5> QED
          BY <2>4, <4>1, <5>1, <5>2, <5>3 DEF InvoiceIs
      <4>4. CASE e.type = "invoice.uncollectible"
        <5>1. q = [r EXCEPT !.status = "uncollectible"]
          BY <4>1, <4>4 DEF InvoiceRow
        <5>2. /\ inv.total = a.invoice.total /\ inv.paidAt = a.invoice.paidAt
              /\ CanonicalInvoice(inv.status) = "uncollectible"
              /\ inv.voidedAt = a.invoice.voidedAt
          BY <1>2, <3>2, <4>4 DEF InvoiceSays
        <5>3. q # NoRow
          BY <5>1 DEF NoRowIsNoRecord
        <5> QED
          BY <2>4, <4>1, <5>1, <5>2, <5>3 DEF InvoiceIs
      <4> QED
        BY <1>2, <3>2, <4>2, <4>3, <4>4 DEF InvoiceSays
    <3> QED
      BY <3>1, <3>2
  <2> HIDE DEF q
  <2> QED
    BY <1>2, <2>2, <2>3, <2>6 DEF BillsAre
<1>3. CASE Rest(a, o, "payment") /\ PaymentSays(a.payment, o.payment, src, e)
  <2> DEFINE r == t.payment[t1]
             q == u.payment[t1]
  <2>1. e.type \in PaymentTypes
    BY <1>3 DEF PaymentSays, PaymentTypes
  <2>2. /\ q = IF e.obj = t1 THEN PayRow(t, e, r) ELSE r
        /\ SameBut(t, u, {"payment", "log"})
    BY <1>1, <2>1, PaymentEffect DEF PaymentChanges
  <2>3. u.invoice = t.invoice /\ u.note = t.note /\ o.invoice = a.invoice /\ o.note = a.note
    BY <1>3, <2>2 DEF SameBut, TableNames, Rest
  <2>4. r # NoRow => {"status", "refundedAt"} \subseteq DOMAIN r
    BY <1>1 DEF Typed
  <2> HIDE DEF q, r
  <2>5. CASE e.type = "payment.refunded"
    <3>1. /\ a.payment # NoRow /\ o.payment.status = "refunded"
          /\ e.obj = t1 \/ src = "stripe"
      BY <1>3, <2>5 DEF PaymentSays
    <3>2. r # NoRow
      BY <3>1 DEF BillsAre, PaymentIs, r
    <3>3. e.obj = t1 => q = [r EXCEPT !.status = "refunded",
                                      !.refundedAt = Coalesce(e.p.refundedAt, e.at)]
      BY <2>2, <2>5, <3>2 DEF PayRow
    <3>4. q # NoRow
      BY <2>2, <3>2, <3>3 DEF NoRowIsNoRecord
    <3>5. e.obj = t1 => q.status = "refunded"
      BY <2>4, <3>2, <3>3
    <3> QED
      BY <2>3, <3>1, <3>4, <3>5 DEF BillsAre, PaymentIs, q
  <2>6. CASE e.type # "payment.refunded"
    <3> DEFINE word == IF e.type = "payment.failed" THEN "failed" ELSE "succeeded"
    <3>1. e.obj = t1 /\ o.payment.status = word
      BY <1>3, <2>6 DEF PaymentSays
    <3>2. q = IF r = NoRow THEN PaymentRow(t, e, word) ELSE [r EXCEPT !.status = word]
      BY <2>2, <2>6, <3>1 DEF PayRow
    <3> HIDE DEF word
    <3>3. q # NoRow /\ q.status = word
      BY <2>4, <3>2 DEF PaymentRow, NoRowIsNoRecord
    <3> QED
      BY <2>3, <3>1, <3>3 DEF BillsAre, PaymentIs, q
  <2> QED
    BY <2>5, <2>6
<1>4. CASE /\ Rest(a, o, "note") /\ o.note # NoRow /\ a.invoice # NoRow
           /\ NoteSays(a.note, o.note, e)
  <2> DEFINE r == t.note[n1]
             q == NoteRow(t, e)
  <2>1. e.type \in NoteTypes /\ e.obj = n1
    BY <1>4 DEF NoteSays, NoteTypes, Formed
  <2>2. u.note[n1] = q /\ SameBut(t, u, {"note", "log"})
    BY <2>1, NoteEffect
  <2>3. /\ u.invoice = t.invoice /\ u.payment = t.payment
        /\ o.invoice = a.invoice /\ o.payment = a.payment
    BY <1>4, <2>2 DEF SameBut, TableNames, Rest
  <2>4. r # NoRow => {"status", "invoice", "voidedAt"} \subseteq DOMAIN r
    BY <1>1 DEF Typed
  <2>5. NoteIs(q, o.note)
    <3>1. CASE a.note = NoRow
      <4>1. /\ e.type = "credit_note.created" /\ e.p.invoice = i1
            /\ e.p.status = "issued" /\ o.note.voidedAt = Null /\ r = NoRow
        BY <1>4, <3>1 DEF NoteSays, BillsAre
      <4>2. Lookup(t.invoice, i1) = i1
        BY <1>1, <1>4 DEF Lookup, BillsAre, InvoiceIs, IsTables
      <4>3. q = [invoice |-> i1,
                 customer |-> Lookup(t.customer, e.p.customer), status |-> "issued",
                 total |-> e.p.total, base |-> ToBase(e.p.total, e.p.cur),
                 voidedAt |-> Null]
        BY <4>1, <4>2 DEF NoteRow
      <4>4. q # NoRow
        BY <4>3 DEF NoRowIsNoRecord
      <4> QED
        BY <4>1, <4>3, <4>4 DEF NoteIs
    <3>2. CASE a.note # NoRow
      <4>1. /\ e.type = "credit_note.voided" /\ o.note.voidedAt # Null
            /\ r # NoRow /\ r.invoice = i1
        BY <1>4, <3>2 DEF NoteSays, BillsAre, NoteIs
      <4>2. q = [r EXCEPT !.status = "void", !.voidedAt = Coalesce(e.p.voidedAt, e.at)]
        BY <4>1 DEF NoteRow
      <4>3. q # NoRow
        BY <4>2 DEF NoRowIsNoRecord
      <4> QED
        BY <2>4, <4>1, <4>2, <4>3 DEF NoteIs
    <3> QED
      BY <3>1, <3>2
  <2> HIDE DEF q
  <2> QED
    BY <1>4, <2>2, <2>3, <2>5 DEF BillsAre
<1>5. CASE Rest(a, o, "other") /\ e.type \in OtherTypes
  BY <1>5, OtherEffect DEF SameBut, TableNames, Rest, BillsAre
<1> QED
  BY <1>2, <1>3, <1>4, <1>5 DEF Reports

-----------------------------------------------------------------------------
(* The turns of the bills *)

\* One event is under its own key and no other.
LEMMA KeyedOne ==
  ASSUME NEW e, NEW p
  PROVE  Keyed(<<e>>, p) = IF Partition(e) = p THEN <<e>> ELSE <<>>
<1> DEFINE s == <<e>>
           f == CHOOSE g : IsKeyed(s, p, Len(s), g)
<1>1. Len(s) = 1 /\ s[1] = e
  OBVIOUS
<1>2. Keyed(s, p) = f[Len(s)]
  BY DEF Keyed, IsKeyed, KeyedStep
<1> HIDE DEF s
<1>3. IsKeyed(s, p, 1, f)
  BY <1>1, KeyedExists
<1> HIDE DEF f
<1>4. f[0] = KeyedStep(s, p, f, 0) /\ f[1] = KeyedStep(s, p, f, 1)
  BY <1>3 DEF IsKeyed
<1>5. f[0] = <<>>
  BY <1>4 DEF KeyedStep
<1>6. f[1] = IF Partition(e) = p THEN Append(f[0], e) ELSE f[0]
  <2>1. 1 # 0 /\ 1 - 1 = 0
    OBVIOUS
  <2>2. KeyedStep(s, p, f, 1) = IF Partition(s[1]) = p THEN Append(f[1 - 1], s[1])
                                ELSE f[1 - 1]
    BY <2>1, Zenon DEF KeyedStep
  <2> QED
    BY <1>1, <1>4, <2>1, <2>2, Zenon
<1>7. Keyed(s, p) = IF Partition(e) = p THEN Append(<<>>, e) ELSE <<>>
  BY <1>1, <1>2, <1>5, <1>6
<1> QED
  BY <1>7 DEF s

\* Where the provider works on the bills a turn is of one of them.
LEMMA BillsTurn ==
  ASSUME BillingInv, TypesInv, scene = "bills", obj.sub = NoRow, Turn
  PROVE  \E o, s : /\ Act(o, s) /\ Turned(obj, o, source, Now, s)
                    /\ BillTurned(obj, o, source, Now, s)
<1>1. CASE IssueInvoice \/ \E status \in {"paid", "void", "uncollectible"} :
                             SettleInvoice(status)
  BY <1>1, InvoiceTurnIs DEF TypesInv
<1>2. CASE Refund \/ \E status \in {"failed", "succeeded"} : Charge(status)
  BY <1>2, PaymentTurnIs DEF TypesInv
<1>3. CASE ExpireCoupon
  BY <1>3, CouponTurnIs DEF TypesInv
<1>4. CASE IssueNote \/ VoidNote
  BY <1>4, NoteTurnIs DEF BillingInv, TypesInv
<1>5. /\ \A status : ~StripeSubscribe(status) /\ ~ChargebeeSubscribe(status)
      /\ ~EditProduct /\ ~ArchivePrice /\ ~MoveCustomer /\ ~DeleteCustomer
  BY DEF StripeSubscribe, ChargebeeSubscribe, EditProduct, ArchivePrice, MoveCustomer,
         DeleteCustomer
<1>6. /\ \A status : ~StripeMove(status)
      /\ \A p : ~StripeSwitch(p)
      /\ ~StripeHold /\ ~StripeSchedule /\ ~StripeDelete
  BY StatusIsThere DEF StripeMove, StripeSwitch, StripeHold, StripeSchedule, StripeDelete
<1>7. /\ ~ChargebeeActivate /\ ~ChargebeeSchedule /\ ~ChargebeePause /\ ~ChargebeeResume
      /\ ~ChargebeeCancel /\ ~ChargebeeDelete
      /\ \A p : ~ChargebeeSwitch(p)
  BY StatusIsThere
     DEF ChargebeeActivate, ChargebeeSchedule, ChargebeePause, ChargebeeResume,
         ChargebeeCancel, ChargebeeDelete, ChargebeeTurn, ChargebeeSwitch, ChargebeeLive
<1> QED
  BY <1>1, <1>2, <1>3, <1>4, <1>5, <1>6, <1>7 DEF Turn

\* Where it works on subscriptions there are no bills.
LEMMA SubsTurn ==
  ASSUME BillingInv, scene = "subs", Turn,
         obj.invoice = NoRow, obj.payment = NoRow, obj.note = NoRow
  PROVE  obj'.invoice = NoRow /\ obj'.payment = NoRow /\ obj'.note = NoRow
<1> DEFINE Same == obj'.invoice = NoRow /\ obj'.payment = NoRow /\ obj'.note = NoRow
<1>1. {"invoice", "payment", "note"} \subseteq DOMAIN obj
  BY DEF BillingInv, Objects
<1>2. \A v, events : \/ Act([obj EXCEPT !.sub = v], events)
                     \/ Act([obj EXCEPT !.product = v], events)
                     \/ Act([obj EXCEPT !.customer = v], events)
                     \/ Act([obj EXCEPT !.price = v], events)
                     => Same
  BY <1>1 DEF Act
<1> HIDE DEF Same
<1>3. /\ ~IssueInvoice /\ ~ExpireCoupon /\ ~Refund /\ ~IssueNote /\ ~VoidNote
      /\ \A status : ~SettleInvoice(status) /\ ~Charge(status)
  BY DEF IssueInvoice, ExpireCoupon, Refund, IssueNote, VoidNote, SettleInvoice, Open, Charge
<1>4. /\ \A status : StripeSubscribe(status) => Same
      /\ \A status : StripeMove(status) => Same
      /\ \A p : StripeSwitch(p) => Same
      /\ StripeHold \/ StripeSchedule \/ StripeDelete => Same
  BY <1>2, Zenon
     DEF StripeSubscribe, StripeMove, StripeSwitch, StripeHold, StripeSchedule,
         StripeDelete, StripeUpdate
<1>5. /\ \A status : ChargebeeSubscribe(status) => Same
      /\ ChargebeeActivate \/ ChargebeeSchedule \/ ChargebeePause \/ ChargebeeResume
         \/ ChargebeeCancel \/ ChargebeeDelete => Same
      /\ \A p : ChargebeeSwitch(p) => Same
  BY <1>2, Zenon
     DEF ChargebeeSubscribe, ChargebeeActivate, ChargebeeSchedule, ChargebeePause,
         ChargebeeResume, ChargebeeCancel, ChargebeeDelete, ChargebeeTurn, ChargebeeSwitch
<1>6. EditProduct \/ MoveCustomer \/ DeleteCustomer => Same
  BY <1>2, Zenon DEF EditProduct, MoveCustomer, DeleteCustomer
<1>7. ArchivePrice => Same
  <2> SUFFICES ASSUME ArchivePrice PROVE Same
    OBVIOUS
  <2> DEFINE price == [obj.price["yearly"] EXCEPT !.active = FALSE]
             prices == [obj.price EXCEPT !["yearly"] = price]
  <2>1. PICK events : Act([obj EXCEPT !.price["yearly"] = price], events)
    BY Zenon DEF ArchivePrice
  <2>2. [obj EXCEPT !.price["yearly"] = price] = [obj EXCEPT !.price = prices]
    OBVIOUS
  <2> HIDE DEF price, prices
  <2> QED
    BY <1>2, <2>1, <2>2
<1> QED
  BY <1>3, <1>4, <1>5, <1>6, <1>7 DEF Turn, Same

\* A turn of the bills is one event: of the customer's, unless it is the coupon's.
LEMMA BillTold ==
  ASSUME NoRowIsNoRecord, NEW n \in Times, n \in Nat, NEW src \in {"stripe", "chargebee"},
         NEW a, Shaped(a, src, n), NEW o, Shaped(o, src, n), NEW s, FormedStream(s),
         BillTurned(a, o, src, n, s)
  PROVE  \/ \E e : /\ s = <<e>> /\ Reports(a, o, src, e) /\ Partition(e) = "customer"
                   /\ o.coupon = a.coupon /\ Keeps("dated", e, NoRow)
         \/ \E e : /\ s = <<e>> /\ CouponSays(e, o.coupon) /\ Partition(e) = "catalog"
                   /\ Rest(a, o, "coupon")
<1>1. \A e : s = <<e>> => Formed(e)
  BY OneEvent DEF FormedStream
<1>2. /\ a.invoice # NoRow => InvoiceShape(a.invoice, src, n)
      /\ a.payment # NoRow => PaymentShape(a.payment)
      /\ a.note # NoRow => NoteShape(a.note, n)
      /\ "valid" \in DOMAIN a.coupon
  BY DEF Shaped, CouponShape
<1>3. CASE Rest(a, o, "invoice") /\ InvoiceTurned(a.invoice, o.invoice, src, n, s)
  <2>1. PICK e : s = <<e>> /\ InvoiceSays(a.invoice, o.invoice, e)
    BY <1>2, <1>3, InvoiceTells
  <2>2. o.invoice # NoRow
    BY <1>3 DEF InvoiceTurned, InvoiceIn, Settled, NoRowIsNoRecord
  <2>3. e.type \in InvoiceTypes /\ Keeps("dated", e, NoRow)
    BY <2>1 DEF InvoiceSays, InvoiceTypes, Keeps
  <2>4. Partition(e) = "customer"
    BY <1>1, <2>1, <2>3, Keys
       DEF InvoiceTypes, CatalogTypes, ProductTypes, PlanTypes, CouponTypes
  <2> QED
    BY <1>3, <2>1, <2>2, <2>3, <2>4 DEF Reports, Rest
<1>4. CASE Rest(a, o, "payment") /\ PaymentTurned(a.payment, o.payment, src, n, s)
  <2>1. PICK e : s = <<e>> /\ PaymentSays(a.payment, o.payment, src, e)
    BY <1>2, <1>4, PaymentTells
  <2>2. e.type \in PaymentTypes /\ Keeps("dated", e, NoRow)
    BY <2>1 DEF PaymentSays, PaymentTypes, Keeps
  <2>3. Partition(e) = "customer"
    BY <1>1, <2>1, <2>2, Keys
       DEF PaymentTypes, CatalogTypes, ProductTypes, PlanTypes, CouponTypes
  <2> QED
    BY <1>4, <2>1, <2>2, <2>3 DEF Reports, Rest
<1>5. CASE Rest(a, o, "note") /\ a.invoice # NoRow /\ NoteTurned(a.note, o.note, src, n, s)
  <2>1. PICK e : s = <<e>> /\ NoteSays(a.note, o.note, e)
    BY <1>2, <1>5, NoteTells
  <2>2. o.note # NoRow
    BY <1>5 DEF NoteTurned, NoteIn, NoRowIsNoRecord
  <2>3. e.type \in NoteTypes /\ Keeps("dated", e, NoRow)
    BY <2>1 DEF NoteSays, NoteTypes, Keeps
  <2>4. Partition(e) = "customer"
    BY <1>1, <2>1, <2>3, Keys
       DEF NoteTypes, CatalogTypes, ProductTypes, PlanTypes, CouponTypes
  <2> QED
    BY <1>5, <2>1, <2>2, <2>3, <2>4 DEF Reports, Rest
<1>6. CASE Rest(a, o, "coupon") /\ CouponTurned(a.coupon, o.coupon, src, n, s)
  <2>1. o.coupon.valid = FALSE
    BY <1>2, <1>6 DEF CouponTurned
  <2>2. PICK e : s = <<e>> /\ e.type = "coupon.deleted"
    BY <1>6, StripeSingles, ChargebeeSingles DEF CouponTurned, Single
  <2>3. CouponSays(e, o.coupon) /\ e.type \in CatalogTypes
    BY <2>1, <2>2 DEF CouponSays, CouponTypes, CatalogTypes
  <2>4. Partition(e) = "catalog"
    BY <1>1, <2>2, <2>3, Keys
  <2> QED
    BY <1>6, <2>2, <2>3, <2>4
<1> QED
  BY <1>3, <1>4, <1>5, <1>6 DEF BillTurned

-----------------------------------------------------------------------------
(* What comes of the bills' events *)

\* An event turns what it says of the invoice's date and the coupon.
LEMMA BillTurns ==
  ASSUME NoRowIsNoRecord, NEW t, IsTables(t), Typed(t), NEW e, Formed(e), NEW o, Sound(e, o),
         NEW u, u = HandleState(t, e), NEW r, NEW v, NEW x
  PROVE  Turns("dated", t, r, e, u, v, x) /\ Turns("coupon", t, r, e, u, v, x)
<1>1. i1 \in Invoices
  BY TheObjects
<1>2. CASE e.type \in InvoiceTypes
  <2> DEFINE a == t.invoice[i1]
             b == u.invoice[i1]
  <2>1. /\ b = InvoiceRow(t, e) /\ u.coupon = t.coupon
        /\ e.type \notin CouponTypes
    BY <1>2, InvoiceEffect DEF InvoiceChanges, Formed, SameBut, TableNames, InvoiceTypes,
                               CouponTypes
  <2>2. a # NoRow => {"status", "total", "paidAt", "voidedAt"} \subseteq DOMAIN a
    BY <1>1 DEF Typed
  <2>3. CASE e.type = "invoice.created"
    <3>1. b.status = e.p.status
      BY <2>1, <2>2, <2>3 DEF InvoiceRow
    <3> QED
      BY <2>1, <2>3, <3>1 DEF Turns, Makes, Keeps, Holds, IsPaid, CouponSays
  <2>4. CASE e.type = "invoice.paid"
    <3>1. b # NoRow => b.paidAt = Coalesce(e.p.paidAt, e.at)
      BY <2>1, <2>2, <2>4 DEF InvoiceRow
    <3>2. Coalesce(e.p.paidAt, e.at) # Null
      BY <2>4 DEF Formed
    <3> QED
      BY <2>1, <3>1, <3>2 DEF Turns, Makes, Holds, IsPaid, CouponSays
  <2>5. CASE e.type \in {"invoice.voided", "invoice.uncollectible"}
    <3>1. b # NoRow => b.status \in {"void", "uncollectible"}
      BY <2>1, <2>2, <2>5 DEF InvoiceRow
    <3> QED
      BY <2>1, <2>5, <3>1 DEF Turns, Makes, Holds, IsPaid, CouponSays
  <2> QED
    BY <1>2, <2>3, <2>4, <2>5 DEF InvoiceTypes
<1>3. CASE e.type \in CouponTypes
  <2> DEFINE a == t.coupon[k1]
             b == u.coupon[k1]
  <2>1. b = CouponRow(t, e) /\ u.invoice = t.invoice /\ e.type # "invoice.paid"
    BY <1>3, CouponEffect DEF Formed, SameBut, TableNames, CouponTypes
  <2>2. a # NoRow => "valid" \in DOMAIN a
    BY DEF Typed
  <2>3. CASE e.type = "coupon.deleted"
    <3>1. b # NoRow => b.valid = FALSE
      BY <2>1, <2>2, <2>3 DEF CouponRow
    <3> QED
      BY <1>3, <2>1, <2>3, <3>1 DEF Turns, Makes, Keeps, Holds, IsPaid, CouponSays
  <2>4. CASE e.type # "coupon.deleted"
    <3> DEFINE row(off, base) == [off |-> off, base |-> base, valid |-> e.p.valid]
    <3>1. \E off, base : b = row(off, base)
      BY <2>1, <2>4, Zenon DEF CouponRow
    <3>2. \A off, base : row(off, base).valid = e.p.valid
      BY Zenon
    <3>3. b.valid = e.p.valid
      BY <3>1, <3>2, Zenon
    <3> QED
      BY <1>3, <2>1, <2>4, <3>3 DEF Turns, Makes, Keeps, Holds, IsPaid, CouponSays
  <2> QED
    BY <2>3, <2>4
<1>4. CASE e.type \in AllTypes \ (InvoiceTypes \union CouponTypes)
  <2>1. u.invoice = t.invoice /\ u.coupon = t.coupon
    BY <1>4, SoundSub, SubEffect, PaymentEffect, NoteEffect, OtherEffect
       DEF Formed, Sound, SubChanges, SameBut, TableNames, AllTypes, OtherTypes
  <2>2. e.type # "invoice.paid"
    BY <1>4 DEF InvoiceTypes
  <2> QED
    BY <1>4, <2>1, <2>2 DEF Turns, Makes, Holds, IsPaid, CouponSays
<1> QED
  BY <1>2, <1>3, <1>4 DEF Sound

\* No date is due of an invoice that the provider has not been paid.
LEMMA Unpaid ==
  ASSUME NEW o, ~PaidNow(o), NEW t, IsPaid(t, i1) => PaidNow(o),
         NEW q, \A e \in Range(q) : Sound(e, o), NEW r
  PROVE  Comes("dated", q, t, r, NoRow)
BY DEF Sound, Comes, Holds, Spares, Keeps

\* The catalog's events leave the rows of the bills as they are.
LEMMA CatalogLeaves ==
  ASSUME NoRowIsNoRecord, NEW t, IsTables(t), NEW e, Formed(e), e.type \in CatalogTypes,
         NEW u, u = HandleState(t, e), NEW a, NEW src, BillsAre(t, a, src)
  PROVE  BillsAre(u, a, src)
BY CouponEffect, OtherEffect
   DEF Formed, CatalogTypes, OtherTypes, SameBut, TableNames, BillsAre

\* What is due of the bills: the rows are those of the provider's objects, or of
\* those before the turn that is reported by what waits, and the coupon's comes;
\* a paid invoice is dated, after a backfill too.
BillsDue ==
  /\ scene \in {"subs", "bills"}
  /\ scene = "subs" => obj.invoice = NoRow /\ obj.payment = NoRow /\ obj.note = NoRow
  /\ scene = "bills" => obj.sub = NoRow
  /\ steady = "calm" => parked = {}
  /\ scene = "bills" /\ steady = "calm" =>
       /\ Comes("coupon", queue["catalog"], tables, trial, obj.coupon)
       /\ \/ queue["customer"] = <<>> /\ BillsAre(tables, obj, source)
          \/ \E e, a : /\ queue["customer"] = <<e>> /\ Reports(a, obj, source, e)
                       /\ BillsAre(tables, a, source)
  /\ steady # "disturbed" => Comes("dated", queue["customer"], tables, trial, NoRow)

\* A turn's webhook tells of what it made.
LEMMA BillsDueTurn ==
  ASSUME NoRowIsNoRecord, BillingInv, TypesInv, BillsDue, Turn
  PROVE  BillsDue'
<1>1. BillingInv' /\ TypesInv'
  BY BillingTurnStep, TypesTurn
<1>2. CASE scene = "subs"
  <2>1. /\ scene' = scene /\ parked' = parked
        /\ steady' = "calm" => steady = "calm"
    <3>1. PICK o, s : Act(o, s) /\ Turned(obj, o, source, Now, s)
      BY TurnIs DEF BillingInv, TypesInv
    <3> QED
      BY <3>1 DEF Act, Send, state
  <2>2. obj'.invoice = NoRow /\ obj'.payment = NoRow /\ obj'.note = NoRow
    BY <1>2, SubsTurn DEF BillsDue
  <2>3. ~PaidNow(obj')
    BY <2>2 DEF PaidNow
  <2>4. /\ \A i \in Invoices : IsPaid(tables', i) => PaidNow(obj')
        /\ \A e \in Range(queue'["customer"]) : Sound(e, obj')
    BY <1>1 DEF BillingInv, PaidIsReal, IsPaid, PaidNow, Known, Waiting
  <2>5. Comes("dated", queue'["customer"], tables', trial', NoRow)
    BY <2>3, <2>4, TheObjects, Unpaid
  <2> QED
    BY <1>2, <2>1, <2>2, <2>5 DEF BillsDue
<1>3. CASE scene = "bills"
  <2>1. PICK o, s : /\ Act(o, s) /\ Turned(obj, o, source, Now, s)
                    /\ BillTurned(obj, o, source, Now, s)
    BY <1>3, BillsTurn DEF BillsDue
  <2>2. /\ turns < MaxTurns /\ turns' = turns + 1 /\ obj' = o /\ Send(s)
        /\ queue["customer"] = <<>>
        /\ UNCHANGED <<source, scene, tables, trial, parked>>
    BY <2>1 DEF Act, state
  <2>3. /\ turns \in Nat /\ Now \in Times /\ Now \in Nat
        /\ source \in {"stripe", "chargebee"}
    BY <2>2, BillingAssumption DEF TypesInv, Times, Now
  <2>4. Shaped(o, source, Now) /\ FormedStream(s)
    BY <2>1, <2>3, TurnedFormed DEF TypesInv, Now
  <2>5. Shaped(obj, source, Now)
    BY <2>3, ShapesLater DEF TypesInv, Now, Shaped
  <2>6. IsStream(s)
    BY <2>4 DEF FormedStream
  <2>7. \/ \E e : /\ s = <<e>> /\ Reports(obj, o, source, e) /\ Partition(e) = "customer"
                  /\ o.coupon = obj.coupon /\ Keeps("dated", e, NoRow)
        \/ \E e : /\ s = <<e>> /\ CouponSays(e, o.coupon) /\ Partition(e) = "catalog"
                  /\ Rest(obj, o, "coupon")
    BY <2>1, <2>3, <2>4, <2>5, BillTold
  <2>8. obj'.sub = NoRow
    BY <1>3, <2>2, <2>7 DEF BillsDue, Rest, Reports
  <2>9. \/ steady' = "disturbed"
        \/ Publish(s) /\ steady' = steady
    BY <2>2 DEF Send
  <2>10. ASSUME Publish(s), steady' = steady, steady # "disturbed"
         PROVE  /\ scene = "bills" /\ steady = "calm" =>
                     /\ Comes("coupon", queue'["catalog"], tables, trial, o.coupon)
                     /\ \/ queue'["customer"] = <<>> /\ BillsAre(tables, o, source)
                        \/ \E e, a : /\ queue'["customer"] = <<e>> /\ Reports(a, o, source, e)
                                     /\ BillsAre(tables, a, source)
                /\ Comes("dated", queue'["customer"], tables, trial, NoRow)
    <3>1. /\ queue'["catalog"] = queue["catalog"] \o Keyed(s, "catalog")
          /\ queue'["customer"] = Keyed(s, "customer")
          /\ IsStream(queue["catalog"])
          /\ queue["catalog"] \in Seq(Range(queue["catalog"]))
      BY <2>2, <2>6, <2>10, PublishedTo DEF BillingInv, Streams, IsStream
    <3>2. steady = "calm" => /\ Comes("coupon", queue["catalog"], tables, trial, obj.coupon)
                             /\ BillsAre(tables, obj, source)
      BY <1>3, <2>2 DEF BillsDue
    <3>3. Holds("dated", tables, trial, NoRow)
      BY <2>2, <2>10, ComesAtOnce DEF BillsDue
    <3>4. CASE \E e : /\ s = <<e>> /\ Reports(obj, o, source, e) /\ Partition(e) = "customer"
                      /\ o.coupon = obj.coupon /\ Keeps("dated", e, NoRow)
      <4>1. PICK e : /\ s = <<e>> /\ Reports(obj, o, source, e) /\ Partition(e) = "customer"
                     /\ o.coupon = obj.coupon /\ Keeps("dated", e, NoRow)
        BY <3>4
      <4>2. queue'["customer"] = <<e>> /\ Keyed(s, "catalog") = <<>>
        BY <3>1, <4>1, KeyedOne
      <4>3. queue'["catalog"] = queue["catalog"]
        BY <3>1, <4>2, ConcatEmptySeq
      <4>4. Comes("dated", <<e>>, tables, trial, NoRow)
        BY <3>3, <4>1, OneEvent DEF Comes, Spares
      <4> QED
        BY <3>2, <4>1, <4>2, <4>3, <4>4
    <3>5. CASE \E e : /\ s = <<e>> /\ CouponSays(e, o.coupon) /\ Partition(e) = "catalog"
                      /\ Rest(obj, o, "coupon")
      <4>1. PICK e : /\ s = <<e>> /\ CouponSays(e, o.coupon) /\ Partition(e) = "catalog"
                     /\ Rest(obj, o, "coupon")
        BY <3>5
      <4>2. queue'["customer"] = <<>> /\ Keyed(s, "catalog") = <<e>>
        BY <3>1, <4>1, KeyedOne
      <4>3. IsStream(<<e>>) /\ Brings("coupon", <<e>>, o.coupon)
        BY <4>1, BringsOne DEF Makes
      <4>4. Comes("coupon", queue'["catalog"], tables, trial, o.coupon)
        BY <3>1, <4>2, <4>3, BringsAfter DEF Comes
      <4>5. steady = "calm" => BillsAre(tables, o, source)
        BY <3>2, <4>1 DEF BillsAre, Rest
      <4>6. Comes("dated", <<>>, tables, trial, NoRow)
        BY <3>3, NoEvents DEF Comes, Spares
      <4> QED
        BY <4>2, <4>4, <4>5, <4>6
    <3> QED
      BY <2>7, <3>4, <3>5
  <2> QED
    BY <1>3, <2>2, <2>8, <2>9, <2>10 DEF BillsDue
<1> QED
  BY <1>2, <1>3 DEF BillsDue

\* A backfill of a paid invoice ends with its payment ...
LEMMA BackfillDates ==
  ASSUME BillingInv, TypesInv, source = "stripe", PaidNow(obj)
  PROVE  Brings("dated", BackfillEvents, NoRow)
<1> DEFINE created == Stripe!InvoiceCreated(obj.invoice)
           e == Stripe!InvoiceEvent("invoice.paid", obj.invoice, obj.invoice.createdAt,
                                    Stripe!PaidPayload(obj.invoice))
<1>1. PICK before :
        /\ Aside(before) /\ Aside(InvoiceBackfilled) /\ Aside(PaymentBackfilled)
        /\ BackfillEvents = ((before \o SubBackfilled) \o InvoiceBackfilled)
                            \o PaymentBackfilled
  BY BackfillAround
<1>2. InvoiceBackfilled = created \o <<e>>
  BY DEF PaidNow, InvoiceBackfilled, Stripe!InvoiceBackfill, Stripe!If
<1>3. e.type = "invoice.paid"
  BY DEF Stripe!InvoiceEvent, Stripe!Make
<1>4. IsStream(created)
  BY InvoicesAreAside DEF Aside
<1>5. Spares("dated", PaymentBackfilled, NoRow)
  <2>1. Single(Stripe!Payment("payment.succeeded", obj.payment, obj.payment.createdAt),
               "payment.succeeded", obj.payment.id)
    BY StripeSingles DEF PaymentTypes
  <2>2. \A d \in Range(PaymentBackfilled) : d.type = "payment.succeeded"
    BY <2>1, OneEvent, NoEvents
       DEF PaymentBackfilled, Stripe!PaymentBackfill, Stripe!If, Single
  <2> QED
    BY <2>2 DEF Spares, Keeps
<1>6. IsStream(SubBackfilled)
  BY BackfillTells, NoEvents DEF SubBackfilled, TypesInv, Shaped, Telling
<1> HIDE DEF created, e
<1>7. IsStream(<<e>>) /\ Brings("dated", <<e>>, NoRow)
  BY <1>3, BringsOne DEF Makes
<1>8. Brings("dated", InvoiceBackfilled, NoRow)
  BY <1>2, <1>4, <1>7, BringsAfter
<1>9. IsStream(before \o SubBackfilled) /\ IsStream(InvoiceBackfilled)
  BY <1>1, <1>6, Joined DEF Aside
<1>10. /\ Brings("dated", (before \o SubBackfilled) \o InvoiceBackfilled, NoRow)
       /\ IsStream((before \o SubBackfilled) \o InvoiceBackfilled)
  BY <1>8, <1>9, BringsAfter, Joined
<1> QED
  BY <1>1, <1>5, <1>10, BringsAfter DEF Aside

\* ... so that date is due of any invoice the provider was paid.
LEMMA BillsDueBackfill ==
  ASSUME NoRowIsNoRecord, BillingInv, BillingInv', TypesInv, BillsDue, Backfill
  PROVE  BillsDue'
<1>1. /\ source = "stripe" /\ Publish(BackfillEvents)
      /\ steady' \in {"refreshed", "disturbed"}
      /\ UNCHANGED <<source, scene, obj, tables, trial, parked>>
  BY DEF Backfill, state
<1>2. FormedStream(BackfillEvents) /\ IsStream(BackfillEvents)
  BY <1>1, BackfillFormed DEF FormedStream
<1>3. Comes("dated", queue'["customer"], tables', trial', NoRow)
  <2>1. CASE ~PaidNow(obj)
    <3>1. /\ \A i \in Invoices : IsPaid(tables', i) => PaidNow(obj)
          /\ \A e \in Range(queue'["customer"]) : Sound(e, obj)
      BY <1>1 DEF BillingInv, PaidIsReal, IsPaid, PaidNow, Known, Waiting
    <3> QED
      BY <2>1, <3>1, TheObjects, Unpaid
  <2>2. CASE PaidNow(obj)
    <3> DEFINE k == Keyed(BackfillEvents, "customer")
    <3>1. \A e \in Range(BackfillEvents) :
            Makes("dated", e, NoRow) => Partition(e) = "customer"
      BY <1>2, Keys DEF FormedStream, Makes, CatalogTypes, ProductTypes, PlanTypes,
                        CouponTypes
    <3>2. Brings("dated", k, NoRow)
      BY <1>1, <1>2, <2>2, <3>1, BackfillDates, KeyedBrings
    <3>3. /\ queue'["customer"] = queue["customer"] \o k
          /\ IsStream(queue["customer"]) /\ IsStream(k)
      BY <1>1, <1>2, PublishedTo, KeyedIs DEF BillingInv, Streams
    <3> QED
      BY <3>2, <3>3, BringsAfter DEF Comes
  <2> QED
    BY <2>1, <2>2
<1> QED
  BY <1>1, <1>3 DEF BillsDue

\* A webhook that comes late or again disturbs the rest, a rate does not.
LEMMA BillsDueDelivery ==
  ASSUME BillsDue, Arrive \/ Resend \/ Replay \/ RatesArrive
  PROVE  BillsDue'
<1>1. CASE Arrive \/ Resend \/ Replay
  <2>1. /\ steady' = "disturbed"
        /\ UNCHANGED <<source, scene, obj, tables, trial, parked>>
    BY <1>1 DEF Arrive, Resend, Replay, state
  <2> QED
    BY <2>1 DEF BillsDue
<1>2. CASE RatesArrive
  BY <1>2 DEF RatesArrive, bus, BillsDue
<1> QED
  BY <1>1, <1>2

\* Handling an event, or setting it aside, keeps what is due on its way.
LEMMA BillsDueConsumed ==
  ASSUME NoRowIsNoRecord, BillingInv, TypesInv, Upcoming, BillsDue,
         NEW p \in {"catalog", "customer"}, Consume(p)
  PROVE  BillsDue'
<1>1. PICK e : /\ e = Head(queue[p])
               /\ queue[p] # <<>> /\ queue' = [queue EXCEPT ![p] = Tail(@)]
               /\ UNCHANGED <<source, scene, obj, late, sent>>
               /\ Handle(p, e) \/ SetAside(p, e)
  BY DEF Consume
<1>2. CASE SetAside(p, e)
  BY <1>1, <1>2 DEF SetAside, BillsDue
<1>3. CASE Handle(p, e)
  <2>1. /\ tables' = HandleState(tables, e) /\ steady' = steady
        /\ parked = {} => parked' = {}
    BY <1>3 DEF Handle
  <2>2. Range(queue["catalog"]) \union Range(queue["customer"]) =
          Range(queue'["catalog"]) \union Range(queue'["customer"]) \union {e}
    BY <1>1, Taken DEF BillingInv
  <2>3. Sound(e, obj) /\ Formed(e) /\ IsTables(tables) /\ Typed(tables)
    BY <2>2 DEF BillingInv, TypesInv, Known, Waiting
  <2>4. /\ \A x : Turns("dated", tables, trial, e, tables', trial', x)
        /\ \A x : Turns("coupon", tables, trial, e, tables', trial', x)
    BY <2>1, <2>3, BillTurns
  <2> SUFFICES ASSUME steady # "disturbed"
               PROVE  /\ scene = "bills" /\ steady = "calm" =>
                           /\ Comes("coupon", queue'["catalog"], tables', trial', obj.coupon)
                           /\ \/ queue'["customer"] = <<>> /\ BillsAre(tables', obj, source)
                              \/ \E d, a : /\ queue'["customer"] = <<d>>
                                           /\ Reports(a, obj, source, d)
                                           /\ BillsAre(tables', a, source)
                      /\ Comes("dated", queue'["customer"], tables', trial', NoRow)
    BY <1>1, <2>1 DEF BillsDue
  <2>5. CASE p = "catalog"
    <3>1. /\ queue'["catalog"] = Tail(queue["catalog"])
          /\ queue'["customer"] = queue["customer"]
          /\ Range(queue["catalog"]) = Range(Tail(queue["catalog"])) \union {e}
          /\ queue["catalog"] # <<>> /\ e = Head(queue["catalog"])
          /\ IsStream(queue["catalog"])
      BY <1>1, <2>5, Consumed DEF BillingInv, Streams
    <3>2. e.type \in CatalogTypes
      BY <2>3, <3>1, Keys DEF Upcoming
    <3>3. Keeps("dated", e, NoRow)
      BY <3>2 DEF Keeps, CatalogTypes, ProductTypes, PlanTypes, CouponTypes
    <3>4. Comes("dated", queue'["customer"], tables', trial', NoRow)
      BY <2>4, <3>1, <3>3, ComesBeside DEF BillsDue
    <3>5. \A x : Comes("coupon", queue["catalog"], tables, trial, x) =>
                   Comes("coupon", queue'["catalog"], tables', trial', x)
      BY <2>4, <3>1, ComesLater
    <3>6. \A a : BillsAre(tables, a, source) => BillsAre(tables', a, source)
      BY <2>1, <2>3, <3>2, CatalogLeaves
    <3> QED
      BY <3>1, <3>4, <3>5, <3>6 DEF BillsDue
  <2>6. CASE p = "customer"
    <3>1. /\ queue'["customer"] = Tail(queue["customer"])
          /\ queue'["catalog"] = queue["catalog"]
          /\ Range(queue["customer"]) = Range(Tail(queue["customer"])) \union {e}
          /\ queue["customer"] # <<>> /\ e = Head(queue["customer"])
          /\ IsStream(queue["customer"])
      BY <1>1, <2>6, Consumed DEF BillingInv, Streams
    <3>2. Comes("dated", queue'["customer"], tables', trial', NoRow)
      BY <2>4, <3>1, ComesLater DEF BillsDue
    <3>3. e.type \notin CouponTypes
      BY <2>3, <3>1, Keys DEF TypesInv, CatalogTypes
    <3>4. \A x : Keeps("coupon", e, x)
      BY <3>3 DEF Keeps
    <3>5. \A x : Comes("coupon", queue["catalog"], tables, trial, x) =>
                   Comes("coupon", queue'["catalog"], tables', trial', x)
      BY <2>4, <3>1, <3>4, ComesBeside
    <3>6. ASSUME scene = "bills", steady = "calm"
          PROVE  queue'["customer"] = <<>> /\ BillsAre(tables', obj, source)
      <4>1. PICK d, a : /\ queue["customer"] = <<d>> /\ Reports(a, obj, source, d)
                        /\ BillsAre(tables, a, source)
        BY <3>1, <3>6 DEF BillsDue
      <4>2. d = e /\ Tail(<<d>>) = <<>>
        BY <3>1, <4>1
      <4> QED
        BY <2>1, <2>3, <3>1, <4>1, <4>2, BillHandled
    <3> QED
      BY <3>2, <3>5, <3>6 DEF BillsDue
  <2> QED
    BY <2>5, <2>6
<1> QED
  BY <1>1, <1>2, <1>3

\* The coupon is reported as it is.
LEMMA CouponTold ==
  ASSUME source \in {"stripe", "chargebee"}, NEW e, Opening[5] = <<e>>
  PROVE  CouponSays(e, CouponObj)
<1>1. CouponObj = [id |-> k1, off |-> 1, cur |-> Cur, valid |-> TRUE, createdAt |-> 0]
  BY DEF CouponObj
<1>2. \E at : e = [type |-> "coupon.created", obj |-> k1, cust |-> NoCust, at |-> at,
                  p |-> [off |-> 1, cur |-> Cur, valid |-> TRUE]]
  BY <1>1 DEF Opening, Stripe!Coupon, Stripe!Make, Chargebee!Coupon,
              Chargebee!CouponPayload, Chargebee!Make
<1>3. e.type = "coupon.created" /\ e.p.valid = TRUE /\ CouponObj.valid = TRUE
  BY <1>1, <1>2
<1> QED
  BY <1>3 DEF CouponSays, CouponTypes

\* At first the customer's webhook waits, and the coupon's.
LEMMA BillsDueInit ==
  ASSUME NoRowIsNoRecord, Init
  PROVE  BillsDue
<1>1. BillingInv /\ TypesInv /\ tables.invoice = NoTables.invoice /\ tables.note = NoTables.note
  BY BillingInvInit, TypesInit
<1>2. /\ source \in {"stripe", "chargebee"} /\ scene \in {"subs", "bills"}
      /\ obj.sub = NoRow /\ obj.invoice = NoRow /\ obj.payment = NoRow /\ obj.note = NoRow
      /\ obj.coupon = CouponObj /\ parked = {}
  BY BillingAssumption DEF Init
<1>3. BillsAre(tables, obj, source)
  BY <1>1, <1>2, TheObjects DEF NoTables, BillsAre
<1>4. Comes("dated", queue["customer"], tables, trial, NoRow)
  <2>1. ~PaidNow(obj)
    BY <1>2 DEF PaidNow
  <2>2. /\ \A i \in Invoices : IsPaid(tables, i) => PaidNow(obj)
        /\ \A e \in Range(queue["customer"]) : Sound(e, obj)
    BY <1>1 DEF BillingInv, PaidIsReal, IsPaid, PaidNow, Known, Waiting
  <2> QED
    BY <2>1, <2>2, TheObjects, Unpaid
<1>5. ASSUME scene = "bills", steady = "calm"
      PROVE  /\ Comes("coupon", queue["catalog"], tables, trial, obj.coupon)
             /\ \E e : queue["customer"] = <<e>> /\ Reports(obj, obj, source, e)
  <2>1. PICK metered, coupon, customer :
          /\ Opening[4] = <<metered>> /\ Opening[5] = <<coupon>>
          /\ Opening[6] = <<customer>> /\ customer.type = "customer.created"
    BY Opened DEF Opens
  <2>2. queue = [catalog |-> <<metered>> \o <<coupon>>, customer |-> <<customer>>]
    BY <1>5, <2>1, Zenon DEF Init
  <2>3. CouponSays(coupon, CouponObj)
    BY <1>2, <2>1, CouponTold
  <2>4. Brings("coupon", <<metered>> \o <<coupon>>, CouponObj)
    BY <2>3, BringsOne, BringsAfter, OneEvent DEF Makes
  <2>5. Reports(obj, obj, source, customer)
    BY <2>1 DEF Reports, Rest, OtherTypes, CustomerTypes
  <2> QED
    BY <1>2, <2>2, <2>4, <2>5 DEF Comes
<1> QED
  BY <1>2, <1>3, <1>4, <1>5 DEF BillsDue

LEMMA BillsDueStep ==
  ASSUME NoRowIsNoRecord, BillingInv, TypesInv, Upcoming, BillsDue, [Next]_vars
  PROVE  BillsDue'
BY BillingInvStep, BillsDueTurn, BillsDueBackfill, BillsDueDelivery, BillsDueConsumed
   DEF Next, vars, BillsDue

\* The bills' events, handled.
LEMMA BillsArrived ==
  ASSUME BillingInv, TypesInv, BillsDue, Idle
  PROVE  /\ scene = "bills" /\ steady = "calm" =>
              /\ BillsAre(tables, obj, source)
              /\ tables.coupon[k1].valid = obj.coupon.valid
         /\ steady # "disturbed" => Holds("dated", tables, trial, NoRow)
<1>1. queue["customer"] = <<>> /\ queue["catalog"] = <<>> /\ late = {}
  BY DEF Idle, BillingInv, Streams
<1>2. steady # "disturbed" => Holds("dated", tables, trial, NoRow)
  BY <1>1, ComesAtOnce DEF BillsDue
<1>3. ASSUME scene = "bills", steady = "calm"
      PROVE  BillsAre(tables, obj, source) /\ tables.coupon[k1].valid = obj.coupon.valid
  <2>1. BillsAre(tables, obj, source) /\ Comes("coupon", <<>>, tables, trial, obj.coupon)
    BY <1>1, <1>3 DEF BillsDue
  <2>2. Holds("coupon", tables, trial, obj.coupon)
    BY <2>1, ComesAtOnce
  <2>3. Waiting = {}
    BY <1>1, <1>3, NoEvents DEF BillsDue, Waiting, EventsOf
  <2>4. tables.coupon[k1] # NoRow
    BY <1>3, <2>3 DEF BillingInv, Kept, Has
  <2> QED
    BY <2>1, <2>2, <2>4 DEF Holds
<1> QED
  BY <1>2, <1>3

\* The rows of an invoice, of its payment, its credit note and the coupon are the
\* provider's once the events that came undisturbed are handled, but for a refund
\* that Stripe reports under the charge's id; and a paid invoice is dated, after a
\* backfill too (stripe/connector.py, chargebee/connector.py, state.py).
THEOREM BillsAreFollowed == NoRowIsNoRecord => (Spec => []BillsFollow)
<1> SUFFICES ASSUME NoRowIsNoRecord PROVE Spec => []BillsFollow
  OBVIOUS
<1> DEFINE IInv == BillingInv /\ TypesInv /\ Upcoming /\ BillsDue
<1>1. Init => IInv
  BY BillingInvInit, TypesInit, UpcomingInit, BillsDueInit
<1>2. IInv /\ [Next]_vars => IInv'
  BY BillingInvStep, TypesStep, UpcomingStep, BillsDueStep
<1>3. IInv => BillsFollow
  <2> SUFFICES ASSUME BillingInv, TypesInv, BillsDue PROVE BillsFollow
    OBVIOUS
  <2>1. BillsFollowCalm
    <3> SUFFICES ASSUME Idle, steady = "calm"
                 PROVE  BillsFollowCalm
      BY DEF BillsFollowCalm
    <3>1. CASE scene = "subs"
      BY <3>1 DEF BillsFollowCalm, BillsDue
    <3>2. CASE scene = "bills"
      BY <3>2, BillsArrived DEF BillsFollowCalm, BillsAre, InvoiceIs, PaymentIs, NoteIs
    <3> QED
      BY <3>1, <3>2 DEF BillsDue
  <2>2. ASSUME Undisturbed, NEW i \in Invoices, tables.invoice[i] # NoRow,
               tables.invoice[i].status = "paid"
        PROVE  tables.invoice[i].paidAt # Null
    <3>1. i = i1
      BY <2>2 DEF TypesInv, Typed
    <3> QED
      BY <2>2, <3>1, BillsArrived DEF Undisturbed, Holds, IsPaid
  <2> QED
    BY <2>1, <2>2 DEF BillsFollow
<1> QED
  BY <1>1, <1>2, <1>3, PTL DEF Spec
=============================================================================
