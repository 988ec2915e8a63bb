---------------------------- MODULE LedgerReports ----------------------------
(***************************************************************************)
(* What the MRR, churn, retention and LTV metrics answer a query with      *)
(* (metrics/{mrr,churn,retention,ltv}/metric.py), as functions of the rows *)
(* they read:                                                              *)
(*   L  the ledger, metric_mrr_movement;                                   *)
(*   E  metric_churn_event, joined with the first_active_at of its         *)
(*      customer's row in metric_churn_customer_state;                     *)
(*   S  metric_churn_customer_state;                                       *)
(*   N  the customers with a row in customer, which the state consumer      *)
(*      writes, another group than those that write L, E and S.            *)
(* A window is a pair of days a..b, both included.  A rate is the record   *)
(* of what is divided and by what, and None where the code answers None.   *)
(* The grain of a series is the month.                                     *)
(***************************************************************************)
EXTENDS SnapshotReports

CONSTANTS
  TicksPerDay,    \* occurred_at counts ticks
  DaysPerMonth

Day(t) == t \div TicksPerDay
Month(day) == day \div DaysPerMonth
MonthOfTick(t) == Month(Day(t))
FirstDay(month) == month * DaysPerMonth

-----------------------------------------------------------------------------
(* Cube filters: a bare date is widened to the end of its day as an        *)
(* inclusive upper bound, and stays the start of its day as a strict one.  *)
Before(R, day) == {r \in R : Day(r.at) < day}
Through(R, day) == {r \in R : Day(r.at) <= day}
Within(R, a, b) == {r \in R : Day(r.at) \in a..b}

Of(R, c) == {r \in R : r.cust = c}
OfKind(R, kind) == {r \in R : r.kind = kind}
CustomersIn(R) == {r.cust : r \in R}
\* The inner join that asking for customer_name brings with it.
Named(R, N) == {r \in R : r.cust \in N}
Total(R) == MapThenSumSet(LAMBDA r : r.amount, R)
Size(n) == IF n < 0 THEN -n ELSE n   \* abs

-----------------------------------------------------------------------------
(* MRR *)
MovementKinds == {"new", "expansion", "contraction", "churn", "reactivation"}

\* _current_mrr with at.
MrrAt(L, day) == Total(Through(L, day))

\* _mrr_series: what moved in each month, of those in which something did; the
\* MRR of the months is the waterfall's.
MrrSeries(L, a, b) ==
  [month \in {MonthOfTick(m.at) : m \in Within(L, a, b)} |->
     Total({m \in Within(L, a, b) : MonthOfTick(m.at) = month})]

\* _mrr_breakdown.
Breakdown(L, a, b) ==
  [kind \in MovementKinds |-> Total(OfKind(Within(L, a, b), kind))]

\* Mutant of Baseline: the MRR of the present, whatever the window.
BaselineNow(L, a) == Total(L)
\* The waterfall starts from the MRR at the end of the first day.
Baseline(L, a) == MrrAt(L, a)

\* _mrr_waterfall: starting and ending MRR of each month of the window; empty
\* for a window within one month.
Ending(L, a, b, month) ==
  Baseline(L, a) + Total({m \in Within(L, a, b) : MonthOfTick(m.at) <= month})
Waterfall(L, a, b) ==
  IF Month(a) = Month(b) THEN << >>
  ELSE [month \in Month(a)..Month(b) |->
          [starting |-> Ending(L, a, b, month - 1),
           ending |-> Ending(L, a, b, month)]]

-----------------------------------------------------------------------------
(* Retention *)

\* _revenue_retention: NRR, and GRR without the expansion.
RevenueRetention(L, a, b, include_expansion) ==
  LET start == Total(Before(L, a))
      by_type == Breakdown(L, a, b)
      expansion == IF include_expansion
                   THEN by_type["expansion"] + by_type["reactivation"] ELSE 0
  IN  IF start <= 0 THEN None
      ELSE [kept |-> start + expansion - Size(by_type["contraction"])
                       - Size(by_type["churn"]),
            of |-> start]

\* The month of the customer's first new movement.
Cohorted(L) == CustomersIn(OfKind(L, "new"))
Cohort(L, c) == Min({MonthOfTick(m.at) : m \in OfKind(Of(L, c), "new")})

\* _cohort_matrix: how many of each cohort of the window's months are active
\* in each month up to the window's end.  MRR cumulates from the first cohort
\* shown, over the movements up to the window's last day.
CohortMatrix(L, a, b) ==
  LET shown == {c \in Cohorted(L) : Cohort(L, c) \in Month(a)..Month(b)}
      first == Min({Cohort(L, c) : c \in shown})
      active(c) == {Cohort(L, c)} \union
        {month \in (Cohort(L, c) + 1)..Month(b) :
           Total({m \in Of(Through(L, b), c) :
                    MonthOfTick(m.at) \in first..month}) > 0}
      cells == UNION {{<<Cohort(L, c), month>> : month \in active(c)} : c \in shown}
  IN  {[cohort |-> x[1], month |-> x[2],
        size |-> Cardinality({c \in shown : Cohort(L, c) = x[1]}),
        count |-> Cardinality({c \in shown : Cohort(L, c) = x[1] /\ x[2] \in active(c)})] :
         x \in cells}

-----------------------------------------------------------------------------
(* Churn *)

\* The churn events of the window, of customers first seen before it.
Scoped(E, kind, a, b) ==
  {x \in Within(OfKind(E, kind), a, b) : Day(x.first) < a}

\* _active_at_start_count: by the ledger, not by the state table, whose
\* churned_at is cleared on reactivation.
ActiveAtStart(L, a) == {c \in CustomersIn(L) : Total(Before(Of(L, c), a)) > 0}

LogoChurn(L, E, a, b) ==
  IF ActiveAtStart(L, a) = {} THEN None
  ELSE [lost |-> Cardinality(Scoped(E, "logo", a, b)),
        of |-> Cardinality(ActiveAtStart(L, a))]

RevenueChurn(L, E, a, b) ==
  IF Total(Before(L, a)) = 0 THEN None
  ELSE [lost |-> Size(Total(Scoped(E, "revenue", a, b))),
        of |-> Total(Before(L, a))]

\* _customer_detail: S is the set of [cust, first, churned] rows, of which those
\* without a name are not seen.
SeenAtStart(S, N, a) ==
  {r.cust : r \in {q \in Named(S, N) :
                    Day(q.first) < a /\ (q.churned = None \/ Day(q.churned) >= a)}}
\* Mutant of DetailOf: the customers of the state table, without the check
\* against the ledger.
DetailOfState(L, S, N, a) == SeenAtStart(S, N, a)
DetailOf(L, S, N, a) == SeenAtStart(S, N, a) \intersect ActiveAtStart(L, a)
CustomerDetail(L, E, S, N, a, b) ==
  {[cust |-> c,
    fully |-> c \in CustomersIn(Scoped(E, "logo", a, b)),
    churned |-> Size(Total(Of(Scoped(E, "revenue", a, b), c))),
    starting |-> Total(Before(Of(L, c), a))] : c \in DetailOf(L, S, N, a)}

\* _revenue_events, of the customers with a name.
RevenueEvents(L, E, N, a, b) ==
  LET lost == Named(Scoped(E, "revenue", a, b), N)
  IN  {[cust |-> c, mrr |-> Size(Total(Of(lost, c))), events |-> Cardinality(Of(lost, c))] :
         c \in CustomersIn(lost) \intersect ActiveAtStart(L, a)}

-----------------------------------------------------------------------------
(* LTV *)

\* _historical_arpu.
Arpu(L, day) ==
  LET paying == {c \in CustomersIn(L) : Total(Through(Of(L, c), day)) > 0}
  IN  IF paying = {} THEN None
      ELSE [mrr |-> Total({m \in Through(L, day) : m.cust \in paying}),
            of |-> Cardinality(paying)]

\* _simple_ltv: an ARPU by the mean of the logo churn rates of the months; the
\* window of a month ends with the first day of the next.
MonthlyChurn(L, E, a, b) ==
  [month \in Month(a)..Month(b) |->
     LogoChurn(L, E, FirstDay(month), FirstDay(month + 1))]
SimpleLtv(arpu, L, E, a, b) ==
  LET rates == MonthlyChurn(L, E, a, b)
      known == {month \in DOMAIN rates : rates[month] # None}
  IN  IF arpu = None \/ \A month \in known : rates[month].lost = 0
      THEN None
      ELSE [arpu |-> arpu, rates |-> [month \in known |-> rates[month]]]

\* _cohort_ltv: what the customers of each month's cohort have ever paid; I is
\* metric_ltv_invoice.
CohortLtv(L, I, a, b) ==
  [month \in Month(a)..Month(b) |->
     LET cohort == {c \in Cohorted(L) : Cohort(L, c) = month}
     IN  [customers |-> Cardinality(cohort),
          revenue |-> Total({i \in I : i.cust \in cohort})]]
=============================================================================
