--------------------------- MODULE SnapshotReports ---------------------------
(***************************************************************************)
(* What is answered from the tables that hold the present:                 *)
(*   Q  metric_mrr_snapshot, a row per subscription with the two parts of  *)
(*      its MRR (the current queries of metrics/mrr and metrics/ltv);      *)
(*   U  metric_mrr_usage_component, a row per subscription and month with  *)
(*      what was billed (metrics/usage_revenue/metric.py).                 *)
(***************************************************************************)
EXTENDS Integers, FiniteSets, FiniteSetsExt

CONSTANT None  \* what the code answers None

MrrOf(q) == q.licensed + q.usage
\* s.mrr_base_cents > 0.
Paying(Q) == {q \in Q : MrrOf(q) > 0}

\* _current_components.
Components(Q) ==
  LET licensed == MapThenSumSet(LAMBDA q : q.licensed, Paying(Q))
      usage == MapThenSumSet(LAMBDA q : q.usage, Paying(Q))
      mrr == MapThenSumSet(MrrOf, Paying(Q))
  IN  [licensed |-> licensed, usage |-> usage, mrr |-> mrr]

\* _current_mrr without at.
CurrentMrr(Q) == Components(Q).mrr

\* _arpu without at.
CurrentArpu(Q) ==
  IF Paying(Q) = {} THEN None
  ELSE [mrr |-> CurrentMrr(Q), of |-> Cardinality({q.cust : q \in Paying(Q)})]

\* The summary's active_customers counts the subscriptions.
ActiveCustomers(Q) == Cardinality({q.sub : q \in Paying(Q)})

-----------------------------------------------------------------------------
(* Usage revenue, by month: a window has the months that start in it *)

Billed(U, a, b) == {u \in U : u.month \in a..b}
UsageRevenue(U, a, b) == MapThenSumSet(LAMBDA u : u.usage, Billed(U, a, b))
UsageSeries(U, a, b) ==
  [month \in {u.month : u \in Billed(U, a, b)} |-> UsageRevenue(U, month, month)]
UsageByCustomer(U, a, b) ==
  [c \in {u.cust : u \in Billed(U, a, b)} |->
     UsageRevenue({u \in U : u.cust = c}, a, b)]
=============================================================================
