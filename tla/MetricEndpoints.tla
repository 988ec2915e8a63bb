--------------------------- MODULE MetricEndpoints ---------------------------
(***************************************************************************)
(* The GET endpoints of the MRR, churn, retention, LTV and usage revenue   *)
(* metrics (metrics/*/routes.py): each names a query type and its          *)
(* parameters, and the metric's query selects the answer by them.          *)
(*                                                                         *)
(* A request w has the days start, end and at, None where they are not     *)
(* sent.  Fails stands for the ValueError of an unknown type.  I is        *)
(* metric_ltv_invoice.                                                     *)
(***************************************************************************)
EXTENDS LedgerReports

CONSTANT Fails

MonthsPerYear == 12

\* What the callers send: a window, a day, or nothing.
InWindow(a, b) == [start |-> a, end |-> b, at |-> None]
AtDay(day) == [start |-> None, end |-> None, at |-> day]
Now == AtDay(None)

Windowed(w) == w.start # None /\ w.end # None

-----------------------------------------------------------------------------
(* MRR *)

\* _current_mrr: of the present, from the snapshot, or of a day, from the ledger.
MrrAnswer(L, Q, w) == IF w.at = None THEN CurrentMrr(Q) ELSE MrrAt(L, w.at)

\* With a window the ARR is twelve times what moved in each of its months.
ArrAnswer(L, Q, w) ==
  IF Windowed(w)
  THEN LET moved == MrrSeries(L, w.start, w.end)
       IN  [month \in DOMAIN moved |-> MonthsPerYear * moved[month]]
  ELSE MonthsPerYear * MrrAnswer(L, Q, w)

MrrQuery(type, L, Q, w) ==
  CASE type = "current" -> MrrAnswer(L, Q, w)
    [] type = "components" -> Components(Q)
    [] type = "series" -> MrrSeries(L, w.start, w.end)
    [] type = "breakdown" -> Breakdown(L, w.start, w.end)
    [] type = "waterfall" -> Waterfall(L, w.start, w.end)
    [] type = "arr" -> ArrAnswer(L, Q, w)

\* /metrics/mrr answers a series when it has a window; the other routes are
\* named for their query type.
GetMrr(route, L, Q, w) ==
  IF route = "mrr"
  THEN MrrQuery(IF Windowed(w) THEN "series" ELSE "current", L, Q, w)
  ELSE MrrQuery(route, L, Q, w)

-----------------------------------------------------------------------------
(* Usage revenue: the window has the months a..b *)

UsageQuery(type, U, a, b) ==
  CASE type = "total" -> UsageRevenue(U, a, b)
    [] type = "series" -> UsageSeries(U, a, b)
    [] type = "by_customer" -> UsageByCustomer(U, a, b)

GetUsageRevenue(route, U, a, b) ==
  UsageQuery(CASE route = "usage-revenue" -> "total"
               [] route = "usage-revenue/series" -> "series"
               [] route = "usage-revenue/by-customer" -> "by_customer", U, a, b)

-----------------------------------------------------------------------------
(* Churn *)

ChurnQuery(type, L, E, S, N, w) ==
  CASE type = "logo" -> LogoChurn(L, E, w.start, w.end)
    [] type = "revenue" -> RevenueChurn(L, E, w.start, w.end)
    [] type = "detail" -> CustomerDetail(L, E, S, N, w.start, w.end)
    [] type = "revenue_events" -> RevenueEvents(L, E, N, w.start, w.end)
    [] OTHER -> Fails

\* /metrics/churn takes any type from its caller.
GetChurn(route, type, L, E, S, N, w) ==
  ChurnQuery(CASE route = "churn" -> type
               [] route = "churn/customers" -> "detail"
               [] route = "churn/revenue-events" -> "revenue_events", L, E, S, N, w)

-----------------------------------------------------------------------------
(* Retention *)

RetentionQuery(type, L, w) ==
  CASE type = "cohort_matrix" -> CohortMatrix(L, w.start, w.end)
    [] type = "nrr" -> RevenueRetention(L, w.start, w.end, TRUE)
    [] type = "grr" -> RevenueRetention(L, w.start, w.end, FALSE)
    [] OTHER -> Fails

-----------------------------------------------------------------------------
(* LTV *)

\* _arpu, of the present or of a day.
ArpuAnswer(L, Q, w) == IF w.at = None THEN CurrentArpu(Q) ELSE Arpu(L, w.at)

LtvQuery(type, L, E, Q, I, w) ==
  CASE type = "simple" -> SimpleLtv(ArpuAnswer(L, Q, w), L, E, w.start, w.end)
    [] type = "arpu" -> ArpuAnswer(L, Q, w)
    [] type = "cohort" -> CohortLtv(L, I, w.start, w.end)

GetLtv(route, L, E, Q, I, w) ==
  LtvQuery(CASE route = "ltv" -> "simple" [] route = "ltv/arpu" -> "arpu"
             [] route = "ltv/cohort" -> "cohort", L, E, Q, I, w)
=============================================================================
