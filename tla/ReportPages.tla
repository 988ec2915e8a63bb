----------------------------- MODULE ReportPages -----------------------------
(***************************************************************************)
(* The pages of the reports package (reports/{mrr,churn,ltv,retention}.py) *)
(* and the dashboard's summary (api/routers/metrics.py): what they make of *)
(* the answers of the endpoints, which they fetch through TidemillClient.  *)
(*                                                                         *)
(* A page asks for a window of days a..b.  None is a value the page leaves *)
(* blank; Fails stands also for the KeyError of a page that selects a      *)
(* column of an empty frame.  Dollars, labels and styling are left out.    *)
(***************************************************************************)
EXTENDS MetricEndpoints

CONSTANTS
  SourceOf,      \* the connector type of each customer's source
  LifetimeDays   \* the summary's rolling window

LastDay(month) == FirstDay(month + 1) - 1
\* The rows of a timeline: pd.date_range(start, end, freq="MS").
MonthsStarting(a, b) == {month \in Month(a)..Month(b) : FirstDay(month) >= a}
\* round(): ties go to the even neighbour.
Round(n, d) ==
  LET q == n \div d
      r == n % d
  IN  IF 2 * r < d \/ (2 * r = d /\ q % 2 = 0) THEN q ELSE q + 1

\* filter=source=<type> reaches every query of a metric, numerators and
\* denominators alike; without a source there is no filter.
From(R, source) ==
  IF source = None THEN R ELSE {r \in R : SourceOf[r.cust] = source}
SourceTypes == {SourceOf[c] : c \in DOMAIN SourceOf}

-----------------------------------------------------------------------------
(* MRR *)

\* snapshot and usage_breakdown.
Snapshot(L, Q, at) ==
  [mrr |-> GetMrr("mrr", L, Q, AtDay(at)), arr |-> GetMrr("arr", L, Q, AtDay(at))]

UsageBreakdown(L, Q) ==
  LET parts == GetMrr("components", L, Q, Now)
      total == IF parts.mrr # 0 THEN parts.mrr ELSE parts.licensed + parts.usage
  IN  [licensed |-> parts.licensed, usage |-> parts.usage, mrr |-> total,
       share |-> IF total = 0 THEN 0 ELSE <<parts.usage, total>>]

\* breakdown: without movements there is no amount_base column.
BreakdownPage(L, a, b) ==
  IF Within(L, a, b) = {} THEN Fails
  ELSE GetMrr("breakdown", L, {}, InWindow(a, b))
\* By source, a source without movements is skipped.
BreakdownBySource(L, a, b) ==
  [source \in {s \in SourceTypes : Within(From(L, s), a, b) # {}} |->
     GetMrr("breakdown", From(L, source), {}, InWindow(a, b))]

Ratio(by_type) ==
  LET gains == by_type["new"] + by_type["expansion"] + by_type["reactivation"]
      losses == Size(by_type["churn"]) + Size(by_type["contraction"])
  IN  [gains |-> gains, losses |-> losses,
       ratio |-> IF losses = 0 THEN None ELSE <<gains, losses>>]
QuickRatio(L, a, b) ==
  IF BreakdownPage(L, a, b) = Fails THEN Fails ELSE Ratio(BreakdownPage(L, a, b))

\* trend and monthly_lost_mrr read the waterfall, which is empty for a window
\* within one month.
WaterfallOf(L, a, b) == GetMrr("waterfall", L, {}, InWindow(a, b))
FromWaterfall(rows, column) == IF rows = << >> THEN Fails ELSE column
Trend(L, a, b) ==
  LET rows == WaterfallOf(L, a, b)
  IN  FromWaterfall(rows, [month \in DOMAIN rows |-> rows[month].ending])
LostMrr(L, a, b) ==
  LET rows == WaterfallOf(L, a, b)
      churned == OfKind(Within(L, a, b), "churn")
  IN  FromWaterfall(rows, [month \in DOMAIN rows |->
        Size(Total({m \in churned : MonthOfTick(m.at) = month}))])
LostBySource(L, a, b) ==
  [source \in {s \in SourceTypes : WaterfallOf(From(L, s), a, b) # << >>} |->
     LostMrr(From(L, source), a, b)]

\* movement_log: one row per day, customer and kind, of the customers with a
\* name.
MovementLog(L, N, a, b) ==
  {[day |-> Day(m.at), month |-> MonthOfTick(m.at), cust |-> m.cust, kind |-> m.kind,
    amount |-> Total({n \in OfKind(Of(L, m.cust), m.kind) : Day(n.at) = Day(m.at)})] :
     m \in Within(Named(L, N), a, b)}
\* style_movement_log closes each month with what each kind and all came to.
Subtotals(rows) ==
  [month \in {r.month : r \in rows} |->
     LET of == {r \in rows : r.month = month}
     IN  [kinds |-> [kind \in {r.kind : r \in of} |-> Total(OfKind(of, kind))],
          net |-> Total(of)]]

-----------------------------------------------------------------------------
(* Churn *)

ChurnSnapshot(L, E, S, N, a, b) ==
  LET detail == GetChurn("churn/customers", None, L, E, S, N, InWindow(a, b))
      churned == {d \in detail : d.fully}
  IN  [logo |-> GetChurn("churn", "logo", L, E, S, N, InWindow(a, b)),
       revenue |-> GetChurn("churn", "revenue", L, E, S, N, InWindow(a, b)),
       c_start |-> Cardinality(detail),
       c_churned |-> Cardinality(churned),
       starting |-> MapThenSumSet(LAMBDA d : d.starting, detail),
       lost |-> MapThenSumSet(LAMBDA d : d.churned, detail),
       logo_lost |-> MapThenSumSet(LAMBDA d : d.churned, churned)]

\* revenue_events: one row per customer of the detail, 0 without events.
RevenueRows(L, E, S, N, a, b) ==
  LET events == GetChurn("churn/revenue-events", None, L, E, S, N, InWindow(a, b))
  IN  {[cust |-> d.cust, starting |-> d.starting, fully |-> d.fully,
        churned |-> MapThenSumSet(LAMBDA e : e.mrr, Of(events, d.cust))] :
         d \in GetChurn("churn/customers", None, L, E, S, N, InWindow(a, b))}

\* A row of the timeline: a month from its first day to its last.  The rates
\* ask for no name.
ChurnRow(L, E, month, source) ==
  LET rate(type) == GetChurn("churn", type, From(L, source), From(E, source), {}, {},
                             InWindow(FirstDay(month), LastDay(month)))
  IN  [logo |-> rate("logo"), revenue |-> rate("revenue")]
ChurnTimeline(L, E, a, b, source) ==
  [month \in MonthsStarting(a, b) |-> ChurnRow(L, E, month, source)]

-----------------------------------------------------------------------------
(* LTV *)

\* The client never sends `at`: the page divides the current ARPU.
Overview(L, E, Q, a, b) ==
  LET arpu == GetLtv("ltv/arpu", L, E, Q, {}, Now)
      ltv == GetLtv("ltv", L, E, Q, {}, InWindow(a, b))
  IN  [arpu |-> arpu, ltv |-> ltv,
       implied_churn |-> IF ltv = None THEN None ELSE ltv.rates]

\* arpu_timeline: the customers are what the MRR is divided by the ARPU.
ArpuRow(L, month, source) ==
  LET end == AtDay(LastDay(month))
      arpu == GetLtv("ltv/arpu", From(L, source), {}, {}, {}, end)
      mrr == GetMrr("mrr", From(L, source), {}, end)
  IN  [arpu |-> arpu, mrr |-> mrr,
       customers |-> IF arpu = None \/ mrr = 0 THEN None
                     ELSE Round(mrr * arpu.of, arpu.mrr)]

-----------------------------------------------------------------------------
(* Retention *)

\* cohort: one row per month asked for, 0 customers where the matrix has none.
CohortPage(L, a, b) ==
  LET matrix == RetentionQuery("cohort_matrix", L, InWindow(a, b))
      rows(month) == {x \in matrix : x.cohort = month}
  IN  [month \in Month(a)..Month(b) |->
         [size |-> IF rows(month) = {} THEN 0 ELSE (CHOOSE x \in rows(month) : TRUE).size,
          kept |-> {<<x.month - x.cohort, x.count>> : x \in rows(month)}]]

NrrGrrRow(L, month, source) ==
  LET rate(type) == RetentionQuery(type, From(L, source),
                                   InWindow(FirstDay(month), LastDay(month)))
  IN  [nrr |-> rate("nrr"), grr |-> rate("grr")]

-----------------------------------------------------------------------------
(* The summary *)

\* The rates are those of end's month if end is its last day, else of the
\* month before.
RateMonth(end) == IF end = LastDay(Month(end)) THEN Month(end) ELSE Month(end) - 1

\* get_summary, without what it reads from the snapshot.  Its start is not
\* used; without movements the quick ratio is blank.
Summary(L, E, end) ==
  LET month == RateMonth(end)
      rates == ChurnRow(L, E, month, None)
  IN  [mrr |-> MrrQuery("current", L, {}, AtDay(end)),
       arr |-> MrrQuery("arr", L, {}, AtDay(end)),
       logo |-> rates.logo, revenue |-> rates.revenue,
       nrr |-> NrrGrrRow(L, month, None).nrr,
       arpu |-> LtvQuery("arpu", L, E, {}, {}, AtDay(end)),
       quick_ratio |->
         Ratio(MrrQuery("breakdown", L, {}, InWindow(end - LifetimeDays, end))).ratio]
SummaryNow(L, E, Q, end) ==
  [active_customers |-> ActiveCustomers(Q),
   ltv |-> LtvQuery("simple", L, E, Q, {}, InWindow(end - LifetimeDays, end))]
=============================================================================
