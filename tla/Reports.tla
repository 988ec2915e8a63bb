------------------------------- MODULE Reports -------------------------------
(***************************************************************************)
(* The reports over the metrics' tables.  The MRR metric and the churn     *)
(* metric are consumer groups of their own: each handles the same events,  *)
(* in order and at its own pace, and a query joins their tables at         *)
(* whatever point both have reached.  The queries that show a customer's   *)
(* name join the table customer too, which a third group writes, the state *)
(* consumer: that one is only known to have stored some customers and not  *)
(* others, at any time.                                                    *)
(*                                                                         *)
(* The provider's histories are the regular ones of MrrMetric (no two      *)
(* events with one id, money only while active): what becomes of the       *)
(* tables in the others is MrrMetric's and ChurnMetric's subject.          *)
(***************************************************************************)
EXTENDS Integers, Sequences, FiniteSets, SequencesExt

CONSTANTS
  Subs, Customers, CustomerOf, NoCustomer, Prices,
  FirstPrice, \* what each subscription costs to begin with
  Happens,    \* bound on each subscription: the types of event it may meet
  TicksPerDay, DaysPerMonth,
  MaxClock,   \* bound on the events; each takes one tick
  MaxLag,     \* bound on how far a group is behind when the next event comes
  Unstored,   \* bound: the customers whose row in customer comes and goes; the
              \* others have theirs throughout
  SourceOf,   \* the connector type of each customer's source
  LifetimeDays,
  Null, NoRow, Fails

\* No invoice bills usage here, and there is one currency.
Churn == INSTANCE ChurnHandler
Mrr == INSTANCE MrrHandler WITH
         Invoices <- {}, SubOf <- << >>, MonthOf <- << >>, UsageOf <- << >>,
         Window <- 1, RateAt <- [t \in 0..MaxClock |-> 1], RateUnit <- 1
Query == INSTANCE ReportPages WITH None <- Null

\* The groups that consume the subscriptions' events.
Groups == {"mrr", "churn"}

VARIABLES
  life,    \* where each subscription is at the provider
  price,   \* its monthly price there
  log,     \* the topic: the event at index t occurred at tick t
  done,    \* how far each group has come
  mrr,     \* the MRR metric's tables
  churn,   \* the churn metric's tables
  named,   \* the customers with a row in customer
  books    \* history: what each customer paid and how many subscriptions it
           \* had open, after each tick

vars == <<life, price, log, done, mrr, churn, named, books>>

Init ==
  /\ life = [s \in Subs |-> "none"]
  /\ price = FirstPrice
  /\ log = << >>
  /\ done = [g \in Groups |-> 0]
  /\ mrr = Mrr!Empty
  /\ churn = Churn!Empty
  /\ named = Customers \ Unstored
  /\ books = << >>

-----------------------------------------------------------------------------
\* What happens to a subscription, as the event types it is translated to.
Turns(s, type, to) ==
  \/ life[s] = "none" /\ type = "created" /\ to = "idle"
  \/ life[s] = "idle" /\ type = "activated" /\ to = "active"
  \/ life[s] = "active" /\ type \in {"changed", "canceled"} /\ to = "active"
  \/ life[s] = "active" /\ type = "paused" /\ to = "paused"
  \/ life[s] = "paused" /\ type = "resumed" /\ to = "active"
  \/ life[s] = "active" /\ type = "churned" /\ to = "ended"

SubsOf(c) == {s \in Subs : CustomerOf[s] = c}

Emit(s, type, to, p) ==
  /\ Len(log) < MaxClock
  /\ \A g \in Groups : done[g] >= Len(log) - MaxLag
  /\ Turns(s, type, to)
  /\ type \in Happens[s]
  /\ \A i \in DOMAIN log : log[i].obj = s => log[i].type # type
  /\ type = "changed" <=> p # price[s]
  /\ log' = Append(log, [type |-> type, obj |-> s, cust |-> CustomerOf[s],
                         at |-> Len(log) + 1, mrr |-> p, prev |-> price[s]])
  /\ life' = [life EXCEPT ![s] = to]
  /\ price' = [price EXCEPT ![s] = p]
  /\ books' = Append(books,
       [mrr |-> [c \in Customers |->
          MapThenSumSet(LAMBDA r : price'[r],
                        {r \in SubsOf(c) : life'[r] = "active"})],
        open |-> [c \in Customers |->
          Cardinality({r \in SubsOf(c) : life'[r] \in {"active", "paused"}})]])
  /\ UNCHANGED <<done, mrr, churn, named>>

\* A group's handler skips the types it did not ask for.
HandleMrr(e) == IF e.type \in Mrr!LifeTypes THEN Mrr!Handle(mrr, e, {}) ELSE mrr
ForChurn(e) == [type |-> e.type, sub |-> e.obj, cust |-> e.cust, at |-> e.at]
HandleChurn(e) ==
  IF e.type \in Churn!EventTypes THEN Churn!Handle(churn, ForChurn(e)) ELSE churn

Apply(g, e) ==
  /\ mrr' = IF g = "mrr" THEN HandleMrr(e) ELSE mrr
  /\ churn' = IF g = "churn" THEN HandleChurn(e) ELSE churn

Step(g) ==
  /\ done[g] < Len(log)
  /\ Apply(g, log[done[g] + 1])
  /\ done' = [done EXCEPT ![g] = @ + 1]
  /\ UNCHANGED <<life, price, log, named, books>>

\* A crash between session.commit() and consumer.commit().
Redeliver(g) ==
  /\ done[g] > 0
  /\ Apply(g, log[done[g]])
  /\ UNCHANGED <<life, price, log, done, named, books>>

\* The state consumer comes to a customer.created or customer.updated of c, and
\* to a customer.deleted: behind the metrics, before them, again or never, for
\* an event that its handler fails on is a dead letter.
StoreCustomer(c) ==
  /\ named' = named \union {c}
  /\ UNCHANGED <<life, price, log, done, mrr, churn, books>>
DeleteCustomer(c) ==
  /\ named' = named \ {c}
  /\ UNCHANGED <<life, price, log, done, mrr, churn, books>>

Next ==
  \/ \E s \in Subs, type \in Mrr!LifeTypes \union Churn!EventTypes,
        to \in {"idle", "active", "paused", "ended"}, p \in Prices :
        Emit(s, type, to, p)
  \/ \E g \in Groups : Step(g) \/ Redeliver(g)
  \/ \E c \in Unstored : StoreCustomer(c) \/ DeleteCustomer(c)

Spec == Init /\ [][Next]_vars

-----------------------------------------------------------------------------
(* What the queries read *)

\* The movements, as rows.
Ledger == mrr.movements
\* revenue_lost sums mrr_cents, which the handler takes from the event:
\* prev_mrr_cents of a churn, mrr_cents of a cancellation.
AmountOf(x) ==
  LET e == log[CHOOSE i \in DOMAIN log : log[i].type = x.id[1] /\ log[i].obj = x.id[2]]
  IN  IF x.kind = "canceled" THEN e.mrr ELSE e.prev
ChurnEvents ==
  {[cust |-> x.cust, kind |-> x.kind, at |-> x.at, id |-> x.id,
    amount |-> AmountOf(x), first |-> churn.state[x.cust].first] :
     x \in {y \in churn.entries : churn.state[y.cust] # NoRow}}
CustomerState ==
  {[cust |-> c, first |-> churn.state[c].first, churned |-> churn.state[c].churned] :
     c \in {d \in Customers : churn.state[d] # NoRow}}

\* metric_mrr_snapshot.
SnapshotRows ==
  {[cust |-> CustomerOf[s], sub |-> s,
    licensed |-> mrr.snapshot[s].sub, usage |-> mrr.snapshot[s].usage] :
     s \in {r \in Subs : mrr.snapshot[r] # NoRow}}

\* Both groups have handled all that will ever be dated up to the day.
Days == 0..Query!Day(MaxClock + 1)
Settled(day) == \A g \in Groups : Query!Day(done[g] + 1) > day
\* Each day is the last settled one for a while.
LastSettled(day) == Settled(day) /\ ~Settled(day + 1)
LastTick(day) == (day + 1) * TicksPerDay - 1
Least(x, y) == IF x <= y THEN x ELSE y

\* The retention metric keeps the month each customer first came and the months
\* it was active in; both tables only grow.
RetentionTypes == {"created", "activated", "reactivated"}
EmptyRetention == [cohort |-> [c \in Customers |-> NoRow], activity |-> {}]
HandleRetention(t, e) ==
  LET month == Query!MonthOfTick(e.at)
  IN  IF e.type \notin RetentionTypes THEN t
      ELSE [cohort |-> IF e.type # "reactivated" /\ t.cohort[e.cust] = NoRow
                       THEN [t.cohort EXCEPT ![e.cust] = month] ELSE t.cohort,
            activity |-> t.activity \union {<<e.cust, month>>}]
\* Its tables when its group has handled n events, the one at index late (0:
\* none) a dead letter that was replayed at the end.
RetentionTables(n, late) ==
  LET handled == SubSeq(log, 1, n)
  IN  FoldLeft(HandleRetention, EmptyRetention,
               IF late = 0 THEN handled
               ELSE Append(RemoveAt(handled, late), handled[late]))

-----------------------------------------------------------------------------
(* Properties *)

\* Who paid at the end of tick t, among the customers of a source (of all for
\* Null), and how much.
Payers(t, source) ==
  IF t < 1 THEN {}
  ELSE {c \in Customers : books[t].mrr[c] > 0 /\ source \in {Null, SourceOf[c]}}
PaidAt(t, source) == MapThenSumSet(LAMBDA c : books[t].mrr[c], Payers(t, source))
Paid(day, source) == PaidAt(LastTick(day), source)
PaidBy(c, day) == IF LastTick(day) < 1 THEN 0 ELSE books[LastTick(day)].mrr[c]

\* The MRR of a settled day is what was paid then, and each month of a trend
\* ends at what was paid at its end, if nothing moved on the window's first day:
\* what did is in the baseline and in the first month, against what
\* docs/definitions.md:117 and :124 say of the months' starting MRR.
TrendIsRevenue(a, b, source) ==
  LET L == Query!From(Ledger, source)
      trend == Query!Trend(L, a, b)
  IN  /\ Query!MrrAt(L, b) = Paid(b, source)
      /\ trend # Fails /\ Query!Within(L, a, a) = {} =>
           \A month \in DOMAIN trend :
             trend[month] = Paid(Least(b, Query!LastDay(month)), source)

\* The tables of a window that show names, were the customers N stored.
Tables(N, a, b) ==
  [detail |-> Query!CustomerDetail(Ledger, ChurnEvents, CustomerState, N, a, b),
   events |-> Query!RevenueEvents(Ledger, ChurnEvents, N, a, b),
   movements |-> Query!MovementLog(Ledger, N, a, b)]

\* The churn rates count all who paid the evening before the window; the tables
\* beside them, and the movement log, those of them whose name is stored, each
\* with what it paid, lost and moved, and no one else.  The two churn tables
\* agree, and the quick ratio compares parts of what was gained since.
WindowIsRevenue(a, b) ==
  LET before == Payers(LastTick(a - 1), Null)
      page == Query!ChurnSnapshot(Ledger, ChurnEvents, CustomerState, named, a, b)
      quick == Query!QuickRatio(Ledger, a, b)
      moved == Query!GetMrr("mrr", Ledger, {}, Query!InWindow(a, b))
      shown == Tables(named, a, b)
      rows == shown.movements
      closed == Query!Subtotals(rows)
      whole == Tables(Customers, a, b)
  IN  /\ (IF page.logo = Null THEN 0 ELSE page.logo.of) = Cardinality(before)
      /\ page.c_start = Cardinality(before \intersect named)
      /\ page.starting = MapThenSumSet(LAMBDA c : PaidBy(c, a - 1), before \intersect named)
      /\ page.lost = MapThenSumSet(LAMBDA row : row.churned,
           Query!RevenueRows(Ledger, ChurnEvents, CustomerState, named, a, b))
      /\ \A c \in Customers :
           Query!Total(Query!Of(rows, c))
             = IF c \in named THEN PaidBy(c, b) - PaidBy(c, a - 1) ELSE 0
      /\ \A table \in {"detail", "events", "movements"} :
           shown[table] = Query!Named(whole[table], named)
      /\ named = Customers => moved = [month \in DOMAIN closed |-> closed[month].net]
      /\ Paid(b, Null) - Paid(a - 1, Null)
           = IF quick = Fails THEN 0 ELSE quick.gains - quick.losses
      /\ Paid(b, Null) - Paid(a - 1, Null)
           = MapThenSumSet(LAMBDA month : moved[month], DOMAIN moved)

\* The customers an ARPU page divides out of two answers are those who paid.
ArpuIsRevenue(month, source) ==
  LET row == Query!ArpuRow(Ledger, month, source)
      payers == Payers(LastTick(Query!LastDay(month)), source)
  IN  row.customers = IF payers = {} THEN Null ELSE Cardinality(payers)

\* The current figures are those of the moment the MRR group has come to, but
\* for the subscriptions that were created and not activated yet: the snapshot
\* has their price, the ledger does not.
Created(t) == {log[i].obj : i \in {j \in 1..t : log[j].type = "created"}}
Activated(t) == {log[i].obj : i \in {j \in 1..t : log[j].type = "activated"}}
CurrentIsRevenue ==
  LET t == done["mrr"]
      idle == Created(t) \ Activated(t)
      summary == Query!SummaryNow(Ledger, ChurnEvents, SnapshotRows, Query!Day(MaxClock))
  IN  /\ Query!Snapshot(Ledger, SnapshotRows, Null).mrr
           = PaidAt(t, Null) + MapThenSumSet(LAMBDA s : FirstPrice[s], idle)
      /\ Query!UsageBreakdown(Ledger, SnapshotRows).mrr
           = Query!Snapshot(Ledger, SnapshotRows, Null).mrr
      /\ idle = {} => Query!Overview(Ledger, ChurnEvents, SnapshotRows, 0, 0).arpu =
           IF Payers(t, Null) = {} THEN Null
           ELSE [mrr |-> PaidAt(t, Null), of |-> Cardinality(Payers(t, Null))]
      /\ t = Len(log) => summary.active_customers
           = Cardinality({s \in Subs : life[s] \in {"idle", "active"}})

\* The retention metric's own tables have every customer of the cohort page, in
\* the page's month or an earlier one (a subscription is created before it is
\* paid for), whichever event its group handled late.  Compared when all groups
\* have come to the end of the log.
CohortsAgree ==
  LET n == Len(log)
  IN  (\A g \in Groups : done[g] = n) => \A late \in 0..n :
        LET t == RetentionTables(n, late)
        IN  \A c \in Query!Cohorted(Ledger) :
              /\ t.cohort[c] # NoRow
              /\ t.cohort[c] <= Query!Cohort(Ledger, c)
              /\ {<<c, t.cohort[c]>>, <<c, Query!Cohort(Ledger, c)>>} \subseteq t.activity

\* The reports of the past and of the present, for all sources and for each,
\* say what the provider would have said at the time they speak of.  (That they
\* go on saying it is ClosedWindowsStay.)
HistoryIsRevenue ==
  /\ CurrentIsRevenue
  /\ CohortsAgree
  /\ \A a, b \in Days : a <= b /\ LastSettled(b) =>
       /\ WindowIsRevenue(a, b)
       /\ \A source \in Query!SourceTypes \union {Null} : TrendIsRevenue(a, b, source)
  /\ \A month \in 0..Query!Month(Query!Day(MaxClock)) :
       LastSettled(Query!LastDay(month)) =>
         \A source \in Query!SourceTypes \union {Null} : ArpuIsRevenue(month, source)

\* The churn metric and the ledger, written by two groups, agree about a
\* settled window: the same revenue was lost, and a logo is lost exactly when
\* a customer's last open subscription ends, paused ones counted as open.
ChurnAgrees ==
  \A a, b \in Days : a <= b /\ LastSettled(b) =>
    /\ \A c \in Customers :
         Query!Total(Query!Of(Query!OfKind(Query!Within(ChurnEvents, a, b), "revenue"), c))
           = -Query!Total({m \in Query!Of(Query!Within(Ledger, a, b), c) :
                             m.id[1] = "churned" /\ ~m.usage})
    /\ {<<x.cust, x.at>> : x \in Query!OfKind(Query!Within(ChurnEvents, a, b), "logo")}
         = {y \in Customers \X (2..Len(log)) :
              /\ Query!Day(y[2]) \in a..b
              /\ books[y[2]].open[y[1]] = 0
              /\ books[y[2] - 1].open[y[1]] > 0}

\* Every figure of a window, as a reader would print it who has every name.
Report(a, b) ==
  [mrr |-> Query!MrrAt(Ledger, b),
   movements |-> Query!Breakdown(Ledger, a, b),
   waterfall |-> Query!Waterfall(Ledger, a, b),
   nrr |-> Query!RevenueRetention(Ledger, a, b, TRUE),
   grr |-> Query!RevenueRetention(Ledger, a, b, FALSE),
   logo |-> Query!LogoChurn(Ledger, ChurnEvents, a, b),
   revenue |-> Query!RevenueChurn(Ledger, ChurnEvents, a, b),
   detail |-> Query!CustomerDetail(Ledger, ChurnEvents, CustomerState, Customers, a, b),
   events |-> Query!RevenueEvents(Ledger, ChurnEvents, Customers, a, b),
   arpu |-> Query!Arpu(Ledger, b)]
\* The pages of a month, by source where they are.  The churn window of the
\* LTV takes in the first day of the next month.
MonthReport(month) ==
  LET a == Query!FirstDay(month)
      b == Query!LastDay(month)
  IN  [cohorts |-> Query!CohortPage(Ledger, a, b),
       ltv |-> Query!SimpleLtv(Query!Arpu(Ledger, b), Ledger, ChurnEvents, a, b),
       movements |-> Query!MovementLog(Ledger, Customers, a, b),
       kinds |-> Query!BreakdownBySource(Ledger, a, b),
       lost |-> Query!LostBySource(Ledger, 0, b),
       series |-> Query!GetMrr("arr", Ledger, {}, Query!InWindow(a, b)),
       churn |-> [source \in Query!SourceTypes |->
                    Query!ChurnTimeline(Ledger, ChurnEvents, a, b, source)],
       summary |-> Query!Summary(Ledger, ChurnEvents, b)]

\* A report of a settled window is final: no event that comes later, with
\* whatever it does to the state tables the queries join (a churned_at that is
\* cleared again, a first_active_at), changes a figure of it.  Its tables with
\* names gain and lose whole customers as the state consumer stores and deletes
\* them (WindowIsRevenue); the row a customer has in them, or would have once it
\* is stored, is final too.
ClosedWindowsStay ==
  [][mrr' # mrr \/ churn' # churn =>
       /\ \A a, b \in Days : a <= b /\ Settled(b) =>
            Report(a, b)' = Report(a, b)
       /\ \A month \in 0..Query!Month(Query!Day(MaxClock)) :
            Settled(Query!FirstDay(month + 1)) =>
              MonthReport(month)' = MonthReport(month)]_vars
=============================================================================
