------------------------------ MODULE MrrProofs ------------------------------
(***************************************************************************)
(* Proofs about the MRR metric, for any subscriptions, customers, invoices *)
(* and bounds; the snapshot and the ledger are followed at rate 1.         *)
(***************************************************************************)
EXTENDS MrrMetric, DataLemmas

-----------------------------------------------------------------------------
(* What one event does to the tables *)

\* Base cents are integers, and natural numbers of natural numbers.
LEMMA BaseType ==
  ASSUME NEW e \in Event, NEW amount \in Int
  PROVE  Base(e, amount) \in Int /\ (amount \in Nat => Base(e, amount) \in Nat)
<1>1. RateAt[e.at] \in Nat /\ RateUnit \in Nat \ {0}
  BY HandlerAssumption DEF Event, SubEvent, InvoiceEvent
<1>2. ASSUME NEW a \in Nat PROVE (a * RateAt[e.at]) \div RateUnit \in Nat
  <2>1. a * RateAt[e.at] \in Nat
    BY <1>1
  <2>2. ASSUME NEW n \in Nat, NEW d \in Nat \ {0} PROVE n \div d \in Nat
    OBVIOUS
  <2> QED
    BY <1>1, <2>1, <2>2
<1>3. CASE amount >= 0
  BY <1>2, <1>3 DEF Base
<1>4. CASE amount < 0
  <2>1. -amount \in Nat
    BY <1>4
  <2>2. ASSUME NEW r \in Nat PROVE -amount * r = (-amount) * r
    OBVIOUS
  <2>3. (-amount * RateAt[e.at]) \div RateUnit \in Nat
    BY <1>1, <1>2, <2>1, <2>2
  <2> QED
    BY <1>4, <2>3 DEF Base
<1> QED
  BY <1>3, <1>4

\* Tables with the same rows are the same.
LEMMA SameTables ==
  ASSUME NEW t \in Tables, NEW u \in Tables, t.snapshot = u.snapshot,
         t.movements = u.movements, t.buckets = u.buckets
  PROVE  t = u
BY DEF Tables

\* The movement of event e's subscription, or of the usage e bills.
HasLife(t, e) == \E m \in t.movements : m.id = Id(e) /\ m.usage = FALSE
HasUsage(t, e) == \E m \in t.movements : m.id = Id(e) /\ m.usage = TRUE
MoveOf(e, usage, kind, s, amount) ==
  [id |-> Id(e), usage |-> usage, kind |-> kind, cust |-> e.cust, sub |-> s,
   amount |-> amount, at |-> e.at]
LifeMove(e, kind, s, amount) == MoveOf(e, FALSE, kind, s, amount)
UsageMove(e, kind, s, amount) == MoveOf(e, TRUE, kind, s, amount)
AppendLife(t, e, kind, s, amount) == AppendMovement(t, e, FALSE, kind, s, amount)
AppendUsage(t, e, kind, s, amount) == AppendMovement(t, e, TRUE, kind, s, amount)

\* The rows that the handlers append are movements.
LEMMA MoveType ==
  ASSUME NEW e \in Event, NEW kind \in Kinds, NEW s \in Subs, NEW amount \in Int
  PROVE  /\ LifeMove(e, kind, s, amount) \in Movement
         /\ UsageMove(e, kind, s, amount) \in Movement
<1>1. Id(e) \in (LifeTypes \union {"invoice.paid"}) \X Objects
  BY DEF Event, SubEvent, InvoiceEvent, Id, Objects
<1>2. e.cust \in AllCustomers /\ e.at \in 0..MaxClock
  BY DEF Event, SubEvent, InvoiceEvent
<1> QED
  BY <1>1, <1>2 DEF Movement, LifeMove, UsageMove, MoveOf

\* A movement is appended once.
LEMMA AppendLifeIs ==
  ASSUME NEW t \in Tables, NEW e \in Event, NEW kind \in Kinds, NEW s \in Subs,
         NEW amount \in Int, NEW v, v = AppendLife(t, e, kind, s, amount)
  PROVE  /\ v \in Tables /\ v.snapshot = t.snapshot /\ v.buckets = t.buckets
         /\ HasLife(t, e) => v.movements = t.movements
         /\ ~HasLife(t, e) =>
              v.movements = t.movements \union {LifeMove(e, kind, s, amount)}
<1>1. LifeMove(e, kind, s, amount) \in Movement
  BY MoveType
<1>2. CASE HasLife(t, e)
  BY <1>2 DEF AppendLife, AppendMovement, HasLife
<1>3. CASE ~HasLife(t, e)
  <2>1. v = [t EXCEPT !.movements = @ \union {LifeMove(e, kind, s, amount)}]
    BY <1>3 DEF AppendLife, AppendMovement, HasLife, LifeMove, MoveOf
  <2> QED
    BY <1>1, <1>3, <2>1 DEF Tables
<1> QED
  BY <1>2, <1>3

\* A usage movement is appended once for an event.
LEMMA AppendUsageIs ==
  ASSUME NEW t \in Tables, NEW e \in Event, NEW kind \in Kinds, NEW s \in Subs,
         NEW amount \in Int, NEW v, v = AppendUsage(t, e, kind, s, amount)
  PROVE  /\ v \in Tables /\ v.snapshot = t.snapshot /\ v.buckets = t.buckets
         /\ HasUsage(t, e) => v.movements = t.movements
         /\ ~HasUsage(t, e) =>
              v.movements = t.movements \union {UsageMove(e, kind, s, amount)}
<1>1. UsageMove(e, kind, s, amount) \in Movement
  BY MoveType
<1>2. CASE HasUsage(t, e)
  BY <1>2 DEF AppendUsage, AppendMovement, HasUsage
<1>3. CASE ~HasUsage(t, e)
  <2>1. v = [t EXCEPT !.movements = @ \union {UsageMove(e, kind, s, amount)}]
    BY <1>3 DEF AppendUsage, AppendMovement, HasUsage, UsageMove, MoveOf
  <2> QED
    BY <1>1, <1>3, <2>1 DEF Tables
<1> QED
  BY <1>2, <1>3

\* The usage component of s.
UsageIn(t, s) == IF t.snapshot[s] = NoRow THEN 0 ELSE t.snapshot[s].usage

\* A subscription's snapshot is written with its current usage.
LEMMA UpsertIs ==
  ASSUME NEW t \in Tables, NEW s \in Subs, NEW amount \in Nat
  PROVE  LET u == UpsertSnapshot(t, s, amount)
         IN  /\ u \in Tables /\ u.movements = t.movements /\ u.buckets = t.buckets
             /\ u.snapshot =
                  [t.snapshot EXCEPT ![s] = [sub |-> amount, usage |-> UsageIn(t, s)]]
<1> DEFINE u == UpsertSnapshot(t, s, amount)
           row == IF t.snapshot[s] = NoRow THEN [sub |-> amount, usage |-> 0]
                  ELSE [t.snapshot[s] EXCEPT !.sub = amount]
<1>1. row = [sub |-> amount, usage |-> UsageIn(t, s)] /\ row \in Row
  BY DEF Tables, Row, UsageIn
<1>2. u = [t EXCEPT !.snapshot = [t.snapshot EXCEPT ![s] = row]]
  BY DEF UpsertSnapshot
<1> HIDE DEF row
<1> QED
  BY <1>1, <1>2 DEF Tables

\* A cleared snapshot is worth nothing.
LEMMA ClearIs ==
  ASSUME NEW t \in Tables, NEW s \in Subs
  PROVE  LET u == ClearSnapshot(t, s)
         IN  /\ u \in Tables /\ u.movements = t.movements /\ u.buckets = t.buckets
             /\ u.snapshot = [t.snapshot EXCEPT ![s] = [sub |-> 0, usage |-> 0]]
<1>1. [sub |-> 0, usage |-> 0] \in Row
  BY DEF Row
<1> QED
  BY <1>1 DEF ClearSnapshot, Tables

\* The subscription branches of handle_event: the row they leave, and what
\* their movement is worth.
After(t, e) ==
  IF e.type \in {"churned", "paused"} THEN [sub |-> 0, usage |-> 0]
  ELSE [sub |-> Base(e, e.mrr), usage |-> UsageIn(t, e.obj)]
Moved(t, e) ==
  CASE e.type = "changed" -> Base(e, e.mrr - e.prev)
    [] e.type \in {"churned", "paused"} -> -(Base(e, e.prev) + UsageIn(t, e.obj))
    [] OTHER -> Base(e, e.mrr)
Follows(t, e, u) ==
  /\ u \in Tables /\ u.buckets = t.buckets
  /\ u.snapshot = [t.snapshot EXCEPT ![e.obj] = After(t, e)]
  /\ IF e.type = "created" \/ HasLife(t, e) THEN u.movements = t.movements
     ELSE \E kind \in Kinds :
            u.movements = t.movements \union
                            {LifeMove(e, kind, e.obj, Moved(t, e))}

\* What the handlers of a subscription's life do to the tables.
LEMMA LifeIs ==
  ASSUME NEW t \in Tables, NEW e \in SubEvent, NEW lines
  PROVE  Follows(t, e, Handle(t, e, lines))
<1>1. /\ e \in Event /\ e.obj \in Subs /\ e.mrr \in Nat /\ e.prev \in Nat
      /\ e.type \in LifeTypes
  BY DEF SubEvent, Event
<1>2. Base(e, e.mrr) \in Nat /\ Base(e, e.prev) \in Nat /\ Base(e, e.mrr - e.prev) \in Int
  <2>1. e.mrr - e.prev \in Int /\ e.mrr \in Int /\ e.prev \in Int
    BY <1>1
  <2> QED
    BY <1>1, <2>1, BaseType
<1>3. UsageIn(t, e.obj) \in Nat
  BY <1>1 DEF UsageIn, Tables, Row
<1>4. -(Base(e, e.prev) + UsageIn(t, e.obj)) \in Int
  BY <1>2, <1>3
<1> DEFINE up == UpsertSnapshot(t, e.obj, Base(e, e.mrr))
           clear == ClearSnapshot(t, e.obj)
<1>6. /\ up \in Tables /\ up.movements = t.movements /\ up.buckets = t.buckets
      /\ up.snapshot = [t.snapshot EXCEPT ![e.obj] =
           [sub |-> Base(e, e.mrr), usage |-> UsageIn(t, e.obj)]]
      /\ HasLife(up, e) <=> HasLife(t, e)
  BY <1>1, <1>2, UpsertIs DEF HasLife
<1>7. /\ clear \in Tables /\ clear.movements = t.movements /\ clear.buckets = t.buckets
      /\ clear.snapshot = [t.snapshot EXCEPT ![e.obj] = [sub |-> 0, usage |-> 0]]
      /\ HasLife(clear, e) <=> HasLife(t, e)
  BY <1>1, ClearIs DEF HasLife
<1> HIDE DEF up, clear
<1>8. CASE e.type = "created"
  <2>1. Handle(t, e, lines) = up
    BY <1>8 DEF Handle, Created, up
  <2> QED
    BY <1>6, <1>8, <2>1 DEF Follows, After
<1>9. ASSUME NEW kind \in Kinds, e.type \in {"activated", "reactivated", "resumed"},
             Handle(t, e, lines) =
               AppendLife(up, e, kind, e.obj, Base(e, e.mrr))
      PROVE  Follows(t, e, Handle(t, e, lines))
  <2>1. Moved(t, e) = Base(e, e.mrr) /\ Base(e, e.mrr) \in Int
    BY <1>2, <1>9 DEF Moved
  <2> DEFINE v == Handle(t, e, lines)
  <2>2. /\ v \in Tables /\ v.snapshot = up.snapshot /\ v.buckets = up.buckets
        /\ HasLife(up, e) => v.movements = up.movements
        /\ ~HasLife(up, e) =>
             v.movements = up.movements \union
                             {LifeMove(e, kind, e.obj, Moved(t, e))}
    BY <1>1, <1>6, <1>9, <2>1, AppendLifeIs
  <2> HIDE DEF v
  <2>3. Follows(t, e, v)
    BY <1>6, <1>9, <2>2 DEF Follows, After
  <2> QED
    BY <2>3 DEF v
<1>10. CASE e.type = "activated"
  <2>1. ClassifyActivation(up, e) \in Kinds /\ ClassifyActivation(t, e) \in Kinds
    BY DEF ClassifyActivation, Kinds
  <2> QED
    BY <1>9, <1>10, <2>1 DEF Handle, AppendLife, Activated, up
<1>11. CASE e.type \in {"reactivated", "resumed"}
  <2>1. "reactivation" \in Kinds
    BY DEF Kinds
  <2> QED
    BY <1>9, <1>11, <2>1 DEF Handle, AppendLife, Resumed, up
<1>12. CASE e.type = "changed"
  <2> DEFINE delta == Base(e, e.mrr - e.prev)
             kind == IF delta > 0 THEN "expansion" ELSE "contraction"
  <2>1. kind \in Kinds /\ Moved(t, e) = delta
    BY <1>12 DEF Kinds, Moved
  <2>2. Handle(t, e, lines) = AppendLife(up, e, kind, e.obj, delta)
    BY <1>12 DEF Handle, AppendLife, Changed, up
  <2> DEFINE v == Handle(t, e, lines)
  <2> HIDE DEF kind
  <2>3. /\ v \in Tables /\ v.snapshot = up.snapshot /\ v.buckets = up.buckets
        /\ HasLife(up, e) => v.movements = up.movements
        /\ ~HasLife(up, e) =>
             v.movements = up.movements \union
                             {LifeMove(e, kind, e.obj, Moved(t, e))}
    BY <1>1, <1>2, <1>6, <2>1, <2>2, AppendLifeIs
  <2> HIDE DEF v
  <2>4. Follows(t, e, v)
    BY <1>6, <1>12, <2>1, <2>3 DEF Follows, After
  <2> QED
    BY <2>4 DEF v
<1>13. CASE e.type \in {"churned", "paused"}
  <2> DEFINE amount == -(Base(e, e.prev) + UsageIn(t, e.obj))
  <2>1. "churn" \in Kinds /\ Moved(t, e) = amount
    BY <1>13 DEF Kinds, Moved
  <2>2. Handle(t, e, lines) = AppendLife(clear, e, "churn", e.obj, amount)
    BY <1>13 DEF Handle, AppendLife, ChurnedOrPaused, clear, UsageIn
  <2> DEFINE v == Handle(t, e, lines)
  <2>3. /\ v \in Tables /\ v.snapshot = clear.snapshot /\ v.buckets = clear.buckets
        /\ HasLife(clear, e) => v.movements = clear.movements
        /\ ~HasLife(clear, e) =>
             v.movements = clear.movements \union
                             {LifeMove(e, "churn", e.obj, Moved(t, e))}
    BY <1>1, <1>4, <1>7, <2>1, <2>2, AppendLifeIs
  <2> HIDE DEF v
  <2>4. Follows(t, e, v)
    BY <1>7, <1>13, <2>1, <2>3 DEF Follows, After
  <2> QED
    BY <2>4 DEF v
<1> QED
  BY <1>1, <1>8, <1>10, <1>11, <1>12, <1>13 DEF LifeTypes

\* Handled once more, such an event changes nothing.
LEMMA LifeIdempotent ==
  ASSUME NEW t \in Tables, NEW e \in SubEvent, NEW lines, NEW later
  PROVE  Handle(Handle(t, e, lines), e, later) = Handle(t, e, lines)
<1> DEFINE u == Handle(t, e, lines)
           v == Handle(u, e, later)
<1>1. Follows(t, e, u)
  BY LifeIs
<1>2. u \in Tables
  BY <1>1 DEF Follows
<1>3. Follows(u, e, v)
  BY <1>2, LifeIs
<1> HIDE DEF u, v
<1>4. e.obj \in Subs /\ t.snapshot \in [Subs -> Row \union {NoRow}]
  BY DEF SubEvent, Tables
<1>5. v.snapshot = u.snapshot
  <2>1. u.snapshot[e.obj] = After(t, e)
    BY <1>1, <1>4 DEF Follows
  <2>2. After(u, e) = After(t, e)
    <3>1. CASE e.type \in {"churned", "paused"}
      BY <3>1 DEF After
    <3>2. CASE e.type \notin {"churned", "paused"}
      <4>1. u.snapshot[e.obj].usage = UsageIn(t, e.obj) /\ u.snapshot[e.obj] # NoRow
        <5>1. Base(e, e.mrr) \in Nat
          BY BaseType DEF SubEvent, Event
        <5>2. UsageIn(t, e.obj) \in Nat
          BY <1>4 DEF UsageIn, Row
        <5>3. After(t, e) \in Row
          BY <3>2, <5>1, <5>2 DEF After, Row
        <5> QED
          BY <2>1, <3>2, <5>3, RowAssumption DEF After
      <4> QED
        BY <3>2, <4>1 DEF After, UsageIn
    <3> QED
      BY <3>1, <3>2
  <2> QED
    BY <1>1, <1>3, <1>4, <2>1, <2>2 DEF Follows
<1>6. v.movements = u.movements
  <2>1. CASE e.type = "created"
    BY <1>3, <2>1 DEF Follows
  <2>2. CASE e.type # "created"
    <3>1. HasLife(u, e)
      <4>1. CASE HasLife(t, e)
        BY <1>1, <4>1 DEF Follows, HasLife
      <4>2. CASE ~HasLife(t, e)
        <5>1. PICK kind \in Kinds :
                LifeMove(e, kind, e.obj, Moved(t, e)) \in u.movements
          BY <1>1, <2>2, <4>2 DEF Follows
        <5> QED
          BY <5>1 DEF HasLife, LifeMove, MoveOf
      <4> QED
        BY <4>1, <4>2
    <3> QED
      BY <1>3, <3>1 DEF Follows
  <2> QED
    BY <2>1, <2>2
<1> QED
  BY <1>1, <1>3, <1>5, <1>6, SameTables DEF Follows, u, v

-----------------------------------------------------------------------------
(* The invoice.paid branch *)

\* There are finitely many months of usage.
LEMMA MonthsFinite == IsFiniteSet(Months) /\ Months \subseteq Nat
<1>1. MonthOf \in Surjection(Invoices, Months)
  BY HandlerAssumption DEF Surjection, Months
<1>2. Months \subseteq Nat
  BY HandlerAssumption DEF Months
<1> QED
  BY <1>1, <1>2, FS_Surjection, HandlerAssumption

\* The mean is taken over some months, and is a natural number.
LEMMA MeanType ==
  ASSUME NEW t \in Tables, NEW s \in Subs, \E m \in Months : t.buckets[s][m] # NoRow
  PROVE  TrailingMean(t, s) \in Nat
<1> DEFINE present == {m \in Months : t.buckets[s][m] # NoRow}
           latest == {m \in present : Cardinality({n \in present : n > m}) < Window}
           w == t.buckets[s]
<1>1. present # {} /\ present \subseteq Int /\ IsFiniteSet(present)
  <2>1. present \subseteq Months /\ present # {}
    OBVIOUS
  <2> HIDE DEF present
  <2>2. IsFiniteSet(present)
    BY <2>1, MonthsFinite, FS_Subset
  <2>3. present \subseteq Int
    BY <2>1, MonthsFinite
  <2> QED
    BY <2>1, <2>2, <2>3
<1>2. \A m \in present : w[m] \in Nat
  BY DEF Tables
<1> HIDE DEF present, w
<1>3. PICK m \in present : \A n \in present : n <= m
  BY <1>1, Greatest
<1>4. m \in latest
  <2>1. {n \in present : n > m} = {}
    <3>1. \A n \in present : n \in Int /\ m \in Int /\ n <= m
      BY <1>1, <1>3
    <3>2. \A n \in present : ~(n > m)
      BY <3>1
    <3> QED
      BY <3>2
  <2>2. Cardinality({n \in present : n > m}) = 0
    BY <2>1, FS_EmptySet
  <2> QED
    BY <2>2, HandlerAssumption
<1>5. IsFiniteSet(latest) /\ latest \subseteq present
  BY <1>1, FS_Subset
<1>6. SumOver(w, latest) \in Nat
  BY <1>2, <1>5, SumNat
<1>7. Cardinality(latest) \in Nat \ {0}
  BY <1>4, <1>5, FS_CardinalityType, FS_EmptySet
<1> HIDE DEF latest
<1>8. TrailingMean(t, s) = SumOver(w, latest) \div Cardinality(latest)
  BY Zenon DEF TrailingMean, MapThenSumSet, MapThenFoldSet, SumOver, Iterates, Chosen,
     latest, present, w
<1>9. ASSUME NEW n \in Nat, NEW d \in Nat \ {0} PROVE n \div d \in Nat
  OBVIOUS
<1> QED
  BY <1>6, <1>7, <1>8, <1>9

\* What a paid invoice does: to its subscription alone, and the ledger gets
\* the difference unless this invoice's is there already.
Bills(t, e, u) ==
  LET s == SubOf[e.obj]
  IN  /\ u \in Tables
      /\ \A r \in Subs \ {s} : u.snapshot[r] = t.snapshot[r] /\ u.buckets[r] = t.buckets[r]
      /\ \/ u.snapshot = t.snapshot /\ u.movements = t.movements
         \/ /\ t.snapshot[s] # NoRow
            /\ \E new \in Nat, kind \in Kinds :
                 /\ u.snapshot = [t.snapshot EXCEPT ![s] =
                                    [sub |-> t.snapshot[s].sub, usage |-> new]]
                 /\ HasUsage(t, e) => u.movements = t.movements
                 /\ ~HasUsage(t, e) =>
                      u.movements = t.movements \union
                        {UsageMove(e, kind, s, new - t.snapshot[s].usage)}

\* A paid invoice's usage is in the bucket of its month.
LEMMA BucketIs ==
  ASSUME NEW t \in Tables, NEW i \in Invoices
  PROVE  LET b == AddToBucket(t, i)
             s == SubOf[i]
         IN  /\ b \in Tables /\ b.snapshot = t.snapshot /\ b.movements = t.movements
             /\ \A r \in Subs \ {s} : b.buckets[r] = t.buckets[r]
             /\ MonthOf[i] \in Months /\ b.buckets[s][MonthOf[i]] # NoRow
             /\ b.buckets[s] = [t.buckets[s] EXCEPT ![MonthOf[i]] =
                                  (IF @ = NoRow THEN 0 ELSE @) + UsageOf[i]]
<1> DEFINE s == SubOf[i]
           m == MonthOf[i]
           new == (IF t.buckets[s][m] = NoRow THEN 0 ELSE t.buckets[s][m]) + UsageOf[i]
           line == [t.buckets[s] EXCEPT ![m] = new]
           b == AddToBucket(t, i)
<1>1. s \in Subs /\ m \in Months /\ UsageOf[i] \in Nat
  BY HandlerAssumption DEF Months
<1>2. t.buckets \in [Subs -> [Months -> Nat \union {NoRow}]]
  BY DEF Tables
<1>3. new \in Nat
  BY <1>1, <1>2
<1>4. b = [t EXCEPT !.buckets = [t.buckets EXCEPT ![s] = line]]
  BY DEF AddToBucket
<1>10. line = [t.buckets[s] EXCEPT ![m] = (IF @ = NoRow THEN 0 ELSE @) + UsageOf[i]]
  BY <1>1, <1>2
<1> HIDE DEF new
<1>5. line \in [Months -> Nat \union {NoRow}] /\ line[m] = new
  BY <1>1, <1>2, <1>3
<1>6. new # NoRow
  BY <1>3, RowAssumption
<1> HIDE DEF line, s, m, b
<1>7. [t.buckets EXCEPT ![s] = line] \in [Subs -> [Months -> Nat \union {NoRow}]]
  BY <1>2, <1>5
<1>8. /\ b \in Tables /\ b.snapshot = t.snapshot /\ b.movements = t.movements
      /\ b.buckets = [t.buckets EXCEPT ![s] = line]
  BY <1>4, <1>7 DEF Tables
<1>9. (\A r \in Subs \ {s} : b.buckets[r] = t.buckets[r]) /\ b.buckets[s] = line
  BY <1>1, <1>2, <1>8
<1> QED
  BY <1>1, <1>5, <1>6, <1>8, <1>9, <1>10 DEF s, m, b

\* What a paid invoice does to the tables.
LEMMA PaidIs ==
  ASSUME NEW t \in Tables, NEW e \in InvoiceEvent, NEW lines
  PROVE  Bills(t, e, Handle(t, e, lines))
<1> DEFINE s == SubOf[e.obj]
           u == Handle(t, e, lines)
           b == AddToBucket(t, e.obj)
           new == TrailingMean(b, s)
           delta == new - t.snapshot[s].usage
<1>1. e.type = "invoice.paid" /\ e.obj \in Invoices /\ s \in Subs /\ e \in Event
  BY HandlerAssumption DEF InvoiceEvent, Event
<1>2. u = InvoicePaid(t, e, lines)
  BY <1>1 DEF Handle
<1>3. CASE e.obj \notin lines
  BY <1>2, <1>3 DEF InvoicePaid, Bills
<1>4. CASE e.obj \in lines
  <2>1. u = ApplyTrailingAverage(b, e, s)
    BY <1>2, <1>4 DEF InvoicePaid
  <2>2. /\ b \in Tables /\ b.snapshot = t.snapshot /\ b.movements = t.movements
        /\ \A r \in Subs \ {s} : b.buckets[r] = t.buckets[r]
        /\ \E m \in Months : b.buckets[s][m] # NoRow
    BY <1>1, BucketIs
  <2>3. new \in Nat
    BY <1>1, <2>2, MeanType
  <2> HIDE DEF b, new, s
  <2>4. CASE t.snapshot[s] = NoRow \/ delta = 0
    <3>1. u = b
      BY <2>1, <2>2, <2>4 DEF ApplyTrailingAverage, new
    <3> QED
      BY <2>2, <3>1 DEF Bills, s
  <2>5. CASE t.snapshot[s] # NoRow /\ delta # 0
    <3> DEFINE c == [b EXCEPT !.snapshot[s].usage = new]
               kind == IF delta > 0 THEN "expansion" ELSE "contraction"
               row == [sub |-> t.snapshot[s].sub, usage |-> new]
    <3>1. t.snapshot[s] \in Row
      BY <1>1, <2>5 DEF Tables
    <3>2. [t.snapshot[s] EXCEPT !.usage = new] = row /\ row \in Row
      BY <2>3, <3>1 DEF Row
    <3>3. c = [b EXCEPT !.snapshot = [t.snapshot EXCEPT ![s] = row]]
      <4>1. c = [b EXCEPT !.snapshot = [b.snapshot EXCEPT ![s] =
                                          [b.snapshot[s] EXCEPT !.usage = new]]]
        OBVIOUS
      <4> HIDE DEF c, row
      <4> QED
        BY <2>2, <3>2, <4>1
    <3>4. /\ c \in Tables /\ c.movements = t.movements /\ c.buckets = b.buckets
          /\ c.snapshot = [t.snapshot EXCEPT ![s] = row]
          /\ HasUsage(c, e) <=> HasUsage(t, e)
      <4> HIDE DEF c, row
      <4>1. [t.snapshot EXCEPT ![s] = row] \in [Subs -> Row \union {NoRow}]
        BY <1>1, <3>2 DEF Tables
      <4> QED
        BY <2>2, <3>3, <4>1 DEF Tables, HasUsage
    <3>5. delta \in Int /\ kind \in Kinds
      BY <2>3, <3>1 DEF Row, Kinds
    <3>6. u = AppendUsage(c, e, kind, s, delta)
      BY <2>1, <2>2, <2>5 DEF ApplyTrailingAverage, AppendUsage, new
    <3> HIDE DEF c, kind, u
    <3>7. /\ u \in Tables /\ u.snapshot = c.snapshot /\ u.buckets = c.buckets
          /\ HasUsage(c, e) => u.movements = c.movements
          /\ ~HasUsage(c, e) => u.movements = c.movements \union
                                  {UsageMove(e, kind, s, delta)}
      BY <1>1, <3>4, <3>5, <3>6, AppendUsageIs
    <3>8. \A r \in Subs \ {s} : u.snapshot[r] = t.snapshot[r] /\ u.buckets[r] = t.buckets[r]
      BY <2>2, <3>4, <3>7 DEF Tables
    <3>9. /\ u.snapshot = [t.snapshot EXCEPT ![s] = row]
          /\ HasUsage(t, e) => u.movements = t.movements
          /\ ~HasUsage(t, e) => u.movements = t.movements \union
                                  {UsageMove(e, kind, s, delta)}
      BY <3>4, <3>7
    <3>10. Bills(t, e, u)
      BY <2>3, <2>5, <3>5, <3>7, <3>8, <3>9 DEF Bills, s
    <3> QED
      BY <3>10 DEF u
  <2> QED
    BY <2>4, <2>5
<1> QED
  BY <1>3, <1>4

-----------------------------------------------------------------------------
(* Types, and what is handled again *)

MrrTypeOK ==
  /\ life \in [Subs -> Lives] /\ price \in [Subs -> Prices]
  /\ clock \in 0..MaxClock
  /\ paid \subseteq Invoices
  /\ tables \in Tables /\ IsFiniteSet(tables.movements)
  /\ sent \subseteq Event /\ parked \subseteq sent \intersect SubEvent
  /\ last \in Event \union {NoEvent}
  /\ odd \subseteq Subs

\* The last event handled has been handled for good.
Repeats ==
  last # NoEvent =>
    /\ last.type # "invoice.paid" =>
         \A lines : Handle(tables, last, lines) = tables
    /\ HandleLtv(ltv, last) = ltv

RedeliveryInv == MrrTypeOK /\ Repeats

\* The invariant of the redeliveries holds at first ...
LEMMA RedeliveryInit == Init => RedeliveryInv
<1> SUFFICES ASSUME Init PROVE RedeliveryInv
  OBVIOUS
<1>1. Empty \in Tables /\ IsFiniteSet(Empty.movements)
  BY FS_EmptySet DEF Empty, Tables
<1> QED
  BY <1>1, HandlerAssumption DEF Init, RedeliveryInv, MrrTypeOK, Repeats, Lives

\* An event is of a subscription's life or of a paid invoice.
LEMMA EventCases ==
  ASSUME NEW e \in Event
  PROVE  \/ e.type # "invoice.paid" /\ e \in SubEvent /\ e.obj \in Subs
         \/ e.type = "invoice.paid" /\ e \in InvoiceEvent /\ e.obj \in Invoices
BY DEF Event, SubEvent, InvoiceEvent, LifeTypes

\* Handling an event, for the first time or again.
LEMMA Handled ==
  ASSUME MrrTypeOK, NEW e \in Event, HandleBoth(e), last' = e
  PROVE  tables' \in Tables /\ IsFiniteSet(tables'.movements) /\ Repeats'
<1>1. tables' = Handle(tables, e, stored) /\ ltv' = HandleLtv(ltv, e)
  BY DEF HandleBoth
<1>2. tables \in Tables /\ IsFiniteSet(tables.movements)
  BY DEF MrrTypeOK
<1>3. HandleLtv(ltv', e) = ltv'
  BY <1>1 DEF HandleLtv
<1>4. CASE e.type # "invoice.paid"
  <2>1. e \in SubEvent
    BY <1>4, EventCases
  <2>2. Follows(tables, e, tables')
    BY <1>1, <1>2, <2>1, LifeIs
  <2>3. tables' \in Tables /\ IsFiniteSet(tables'.movements)
    BY <1>2, <2>2, FS_AddElement DEF Follows
  <2>4. \A lines : Handle(tables', e, lines) = tables'
    BY <1>1, <1>2, <2>1, LifeIdempotent
  <2> QED
    BY <1>3, <2>3, <2>4 DEF Repeats
<1>5. CASE e.type = "invoice.paid"
  <2>1. e \in InvoiceEvent
    BY <1>5, EventCases
  <2>2. Bills(tables, e, tables')
    BY <1>1, <1>2, <2>1, PaidIs
  <2>3. tables' \in Tables /\ IsFiniteSet(tables'.movements)
    BY <1>2, <2>2, FS_AddElement DEF Bills
  <2> QED
    BY <1>3, <1>5, <2>3 DEF Repeats
<1> QED
  BY <1>4, <1>5

\* What is reported of a subscription is an event.
LEMMA EmittedType ==
  ASSUME MrrTypeOK, clock < MaxClock, NEW s \in Subs, NEW type \in LifeTypes,
         NEW p \in Prices
  PROVE  Emitted(s, type, p) \in SubEvent /\ Emitted(s, type, p) \in Event
<1>1. clock + 1 \in 0..MaxClock /\ price[s] \in Nat /\ p \in Nat
  <2>1. MaxClock \in Nat /\ Prices \subseteq Nat
    BY HandlerAssumption
  <2>2. clock \in 0..MaxClock /\ clock < MaxClock /\ price[s] \in Prices
    BY DEF MrrTypeOK
  <2>3. clock + 1 \in 0..MaxClock
    BY <2>1, <2>2
  <2>4. price[s] \in Nat /\ p \in Nat
    BY <2>1, <2>2
  <2> QED
    BY <2>3, <2>4
<1>2. CustomerOf[s] \in AllCustomers
  BY HandlerAssumption DEF AllCustomers
<1> QED
  BY <1>1, <1>2 DEF Emitted, SubEvent, Event

\* What is reported of a paid invoice is an event.
LEMMA PaidType ==
  ASSUME MrrTypeOK, clock < MaxClock, NEW i \in Invoices
  PROVE  EmittedPaid(i) \in InvoiceEvent /\ EmittedPaid(i) \in Event
<1>1. clock + 1 \in 0..MaxClock
  BY HandlerAssumption DEF MrrTypeOK
<1>2. CustomerOf[SubOf[i]] \in AllCustomers
  BY HandlerAssumption DEF AllCustomers
<1> QED
  BY <1>1, <1>2 DEF EmittedPaid, InvoiceEvent, Event

\* What a report of a subscription changes.
LEMMA EmitType ==
  ASSUME MrrTypeOK, NEW s \in Subs, NEW type \in LifeTypes, NEW to \in Lives,
         NEW p \in Prices, Emit(s, type, to, p)
  PROVE  /\ life' \in [Subs -> Lives] /\ price' \in [Subs -> Prices]
         /\ clock' \in 0..MaxClock /\ paid' \subseteq Invoices
         /\ sent' \subseteq Event /\ sent \subseteq sent'
         /\ Emitted(s, type, p) \in sent' \intersect SubEvent
<1>1. Emitted(s, type, p) \in SubEvent /\ Emitted(s, type, p) \in Event
  BY EmittedType DEF Emit
<1> HIDE DEF Emitted
<1> QED
  BY <1>1, HandlerAssumption DEF Emit, MrrTypeOK

\* ... and is kept by every step.
LEMMA RedeliveryStep == ASSUME RedeliveryInv, [Next]_vars PROVE RedeliveryInv'
<1>1. ASSUME NEW s \in Subs, NEW type \in LifeTypes, NEW to \in Lives, NEW p \in Prices,
             Deliver(s, type, to, p)
      PROVE  RedeliveryInv'
  <2> DEFINE e == Emitted(s, type, p)
  <2>1. /\ Emit(s, type, to, p) /\ HandleBoth(e) /\ last' = e
        /\ odd' \subseteq odd \union {s} /\ parked' = parked
    BY <1>1 DEF Deliver
  <2>2. /\ life' \in [Subs -> Lives] /\ price' \in [Subs -> Prices]
        /\ clock' \in 0..MaxClock /\ paid' \subseteq Invoices
        /\ sent' \subseteq Event /\ sent \subseteq sent' /\ e \in sent' \intersect SubEvent
    BY <2>1, EmitType DEF RedeliveryInv
  <2> HIDE DEF e
  <2>3. e \in Event
    BY <2>2
  <2>4. tables' \in Tables /\ IsFiniteSet(tables'.movements) /\ Repeats'
    BY <2>1, <2>3, Handled DEF RedeliveryInv
  <2> QED
    BY <2>1, <2>2, <2>3, <2>4 DEF RedeliveryInv, MrrTypeOK
<1>2. ASSUME NEW s \in Subs, NEW type \in LifeTypes, NEW to \in Lives, NEW p \in Prices,
             Park(s, type, to, p)
      PROVE  RedeliveryInv'
  <2> DEFINE e == Emitted(s, type, p)
  <2>1. /\ Emit(s, type, to, p) /\ last' = NoEvent /\ odd' = odd \union {s}
        /\ parked' = parked \union {e} /\ UNCHANGED <<tables, ltv>>
    BY <1>2 DEF Park
  <2>2. /\ life' \in [Subs -> Lives] /\ price' \in [Subs -> Prices]
        /\ clock' \in 0..MaxClock /\ paid' \subseteq Invoices
        /\ sent' \subseteq Event /\ sent \subseteq sent' /\ e \in sent' \intersect SubEvent
    BY <2>1, EmitType DEF RedeliveryInv
  <2> HIDE DEF e
  <2> QED
    BY <2>1, <2>2 DEF RedeliveryInv, MrrTypeOK, Repeats
<1>3. ASSUME NEW i \in Invoices, PayInvoice(i) PROVE RedeliveryInv'
  <2> DEFINE e == EmittedPaid(i)
  <2>1. /\ clock < MaxClock /\ clock' = clock + 1 /\ paid' = paid \union {i}
        /\ sent' = sent \union {e} /\ HandleBoth(e) /\ last' = e
        /\ odd' \subseteq odd \union {SubOf[i]}
        /\ UNCHANGED <<life, price, parked>>
    BY <1>3 DEF PayInvoice
  <2>2. e \in Event
    BY <2>1, PaidType DEF RedeliveryInv
  <2> HIDE DEF e
  <2>3. tables' \in Tables /\ IsFiniteSet(tables'.movements) /\ Repeats'
    BY <2>1, <2>2, Handled DEF RedeliveryInv
  <2>4. clock' \in 0..MaxClock /\ SubOf[i] \in Subs
    BY <2>1, HandlerAssumption DEF RedeliveryInv, MrrTypeOK
  <2> QED
    BY <2>1, <2>2, <2>3, <2>4 DEF RedeliveryInv, MrrTypeOK
<1>4. ASSUME NEW i \in Invoices, StoreLines(i) PROVE RedeliveryInv'
  BY <1>4 DEF StoreLines, RedeliveryInv, MrrTypeOK, Repeats
<1>5. CASE Redeliver
  <2>1. /\ last # NoEvent /\ HandleBoth(last) /\ last' = last
        /\ UNCHANGED <<life, price, clock, paid, sent, parked>>
    BY <1>5 DEF Redeliver
  <2>2. last \in Event
    BY <2>1 DEF RedeliveryInv, MrrTypeOK
  <2>3. odd' \subseteq Subs
    <3>1. Disturbed(last) \subseteq Subs
      BY <2>2, EventCases, HandlerAssumption DEF Disturbed
    <3> QED
      BY <1>5, <3>1 DEF Redeliver, RedeliveryInv, MrrTypeOK
  <2>4. tables' \in Tables /\ IsFiniteSet(tables'.movements) /\ Repeats'
    BY <2>1, <2>2, Handled DEF RedeliveryInv
  <2> QED
    BY <2>1, <2>2, <2>3, <2>4 DEF RedeliveryInv, MrrTypeOK
<1>6. ASSUME NEW e \in sent, Replay(e) PROVE RedeliveryInv'
  <2> DEFINE f == [e EXCEPT !.cust = NoCustomer]
  <2>1. /\ e \in parked /\ parked' = parked \ {e} /\ HandleBoth(f) /\ last' = f
        /\ UNCHANGED <<life, price, clock, paid, sent, odd>>
    BY <1>6 DEF Replay
  <2>2. f \in Event
    BY <2>1 DEF RedeliveryInv, MrrTypeOK, Event, SubEvent, AllCustomers
  <2> HIDE DEF f
  <2>3. tables' \in Tables /\ IsFiniteSet(tables'.movements) /\ Repeats'
    BY <2>1, <2>2, Handled DEF RedeliveryInv
  <2> QED
    BY <2>1, <2>2, <2>3 DEF RedeliveryInv, MrrTypeOK
<1>7. ASSUME NEW e \in sent, Resend(e) PROVE RedeliveryInv'
  <2>1. /\ HandleBoth(e) /\ last' = e /\ odd' = odd \union Disturbed(e)
        /\ UNCHANGED <<life, price, clock, paid, sent, parked>>
    BY <1>7 DEF Resend
  <2>2. e \in Event
    BY DEF RedeliveryInv, MrrTypeOK
  <2>3. Disturbed(e) \subseteq Subs
    BY <2>2, EventCases, HandlerAssumption DEF Disturbed
  <2>4. tables' \in Tables /\ IsFiniteSet(tables'.movements) /\ Repeats'
    BY <2>1, <2>2, Handled DEF RedeliveryInv
  <2> QED
    BY <2>1, <2>2, <2>3, <2>4 DEF RedeliveryInv, MrrTypeOK
<1>8. CASE UNCHANGED vars
  BY <1>8 DEF vars, RedeliveryInv, MrrTypeOK, Repeats
<1> QED
  BY <1>1, <1>2, <1>3, <1>4, <1>5, <1>6, <1>7, <1>8 DEF Next

\* The tables have their types, and what was handled last would change nothing
\* again but the usage (mrr/metric.py:handle_event, worker.py).
THEOREM MrrTypes == Spec => []RedeliveryInv
BY RedeliveryInit, RedeliveryStep, PTL DEF Spec

\* However events interleave, and wherever the worker stops between its two
\* commits, the event it handles again changes no row but those of the usage.
THEOREM MrrRedeliveryHarmless == Spec => RedeliveryIsIdempotent
<1>1. ASSUME RedeliveryInv, [Next]_vars
      PROVE  [Redeliver => /\ UNCHANGED ltv
                           /\ last.type # "invoice.paid" => UNCHANGED tables]_vars
  <2>1. ASSUME Redeliver
        PROVE  UNCHANGED ltv /\ (last.type # "invoice.paid" => UNCHANGED tables)
    BY <1>1, <2>1 DEF Redeliver, HandleBoth, RedeliveryInv, Repeats
  <2> QED
    BY <2>1
<1> QED
  BY <1>1, MrrTypes, PTL DEF Spec, RedeliveryIsIdempotent

-----------------------------------------------------------------------------
(* The ledger and the snapshot, in the base currency *)

AtRateOne == \A d \in 0..MaxClock : RateAt[d] = RateUnit

\* At rate 1 an amount is its worth.
LEMMA BaseIsAmount ==
  ASSUME AtRateOne, NEW e \in Event, NEW amount \in Int
  PROVE  Base(e, amount) = amount
<1>1. ASSUME NEW a \in Nat, NEW u \in Nat \ {0} PROVE (a * u) \div u = a
  OBVIOUS
<1>2. RateAt[e.at] = RateUnit /\ RateUnit \in Nat \ {0}
  BY HandlerAssumption DEF AtRateOne, Event, SubEvent, InvoiceEvent
<1>3. CASE amount >= 0
  BY <1>1, <1>2, <1>3 DEF Base
<1>4. CASE amount < 0
  <2>1. -amount \in Nat
    BY <1>4
  <2>2. ASSUME NEW r \in Nat PROVE -amount * r = (-amount) * r
    OBVIOUS
  <2>3. (-amount * RateUnit) \div RateUnit = -amount
    BY <1>1, <1>2, <2>1, <2>2
  <2> QED
    BY <1>2, <1>4, <2>3 DEF Base
<1> QED
  BY <1>3, <1>4

Amounts == [m \in Movement |-> m.amount]

\* The sum of movements is a sum over a finite set.
LEMMA TotalIs ==
  ASSUME NEW S, S \subseteq Movement PROVE Total(S) = SumOver(Amounts, S)
<1> DEFINE Rec(h) == h = [T \in SUBSET S |-> IF T = {} THEN 0
                            ELSE Chosen(T).amount + h[T \ {Chosen(T)}]]
<1>1. Total(S) = (CHOOSE h : Rec(h))[S]
  BY Zenon DEF Total, MapThenSumSet, MapThenFoldSet, Chosen
<1>2. ASSUME NEW h PROVE Rec(h) <=> Iterates(h, Amounts, S)
  <2>1. \A T \in SUBSET S : T # {} => Amounts[Chosen(T)] = Chosen(T).amount
    BY DEF Amounts, Chosen
  <2> QED
    BY <2>1 DEF Iterates
<1>3. (CHOOSE h : Rec(h)) = (CHOOSE h : Iterates(h, Amounts, S))
  <2> HIDE DEF Rec
  <2> QED
    BY <1>2
<1> QED
  BY <1>1, <1>3 DEF SumOver

LedgerIn(M, s) == Total({m \in M : m.sub = s})

\* One movement more.
LEMMA LedgerWith ==
  ASSUME NEW M, IsFiniteSet(M), M \subseteq Movement, NEW new \in Movement, new \notin M
  PROVE  /\ LedgerIn(M, new.sub) \in Int
         /\ LedgerIn(M \union {new}, new.sub) = LedgerIn(M, new.sub) + new.amount
<1> DEFINE S == {m \in M : m.sub = new.sub}
<1>1. {m \in M \union {new} : m.sub = new.sub} = S \union {new} /\ new \notin S
  OBVIOUS
<1>2. IsFiniteSet(S) /\ S \subseteq Movement
  BY FS_Subset
<1> HIDE DEF S
<1>3. (\A m \in S : Amounts[m] \in Int) /\ Amounts[new] = new.amount /\ new.amount \in Int
  BY <1>2 DEF Amounts, Movement
<1>4. SumOver(Amounts, S) \in Int
  BY <1>2, <1>3, SumType DEF Weighs
<1>5. SumOver(Amounts, S \union {new}) = new.amount + SumOver(Amounts, S)
  BY <1>1, <1>2, <1>3, SumWith DEF Weighs
<1>6. Total(S) = SumOver(Amounts, S) /\ Total(S \union {new}) = SumOver(Amounts, S \union {new})
  BY <1>2, TotalIs
<1>7. LedgerIn(M, new.sub) = Total(S) /\ LedgerIn(M \union {new}, new.sub) = Total(S \union {new})
  BY <1>1 DEF LedgerIn, S
<1> QED
  BY <1>3, <1>4, <1>5, <1>6, <1>7

\* The subscription whose rows an event may touch.
Subject(e) == IF e.type = "invoice.paid" THEN SubOf[e.obj] ELSE e.obj

\* Handling an event touches its subject's rows alone.
LEMMA Confined ==
  ASSUME MrrTypeOK, NEW e \in Event, HandleBoth(e)
  PROVE  /\ Subject(e) \in Subs
         /\ \A m \in tables'.movements :
               \/ m \in tables.movements
               \/ m.id = Id(e) /\ m.sub = Subject(e) /\ m.at = e.at /\ m.cust = e.cust
         /\ tables.movements \subseteq tables'.movements
         /\ \A s \in Subs \ {Subject(e)} :
               /\ tables'.snapshot[s] = tables.snapshot[s]
               /\ {m \in tables'.movements : m.sub = s} = {m \in tables.movements : m.sub = s}
<1>1. tables' = Handle(tables, e, stored) /\ tables \in Tables
  BY DEF HandleBoth, MrrTypeOK
<1>2. tables.snapshot \in [Subs -> Row \union {NoRow}]
  BY <1>1 DEF Tables
<1>3. CASE e.type # "invoice.paid"
  <2>1. e \in SubEvent /\ e.obj \in Subs /\ Subject(e) = e.obj
    BY <1>3, EventCases DEF Subject
  <2>2. Follows(tables, e, tables')
    BY <1>1, <2>1, LifeIs
  <2>3. \A m \in tables'.movements :
          \/ m \in tables.movements
          \/ m.id = Id(e) /\ m.sub = e.obj /\ m.at = e.at /\ m.cust = e.cust
    <3>1. CASE e.type = "created" \/ HasLife(tables, e)
      BY <2>2, <3>1 DEF Follows
    <3>2. CASE ~(e.type = "created" \/ HasLife(tables, e))
      <4>1. PICK kind \in Kinds :
              tables'.movements = tables.movements \union
                {LifeMove(e, kind, e.obj, Moved(tables, e))}
        BY <2>2, <3>2 DEF Follows
      <4> QED
        BY <4>1 DEF LifeMove, MoveOf
    <3> QED
      BY <3>1, <3>2
  <2>4. tables.movements \subseteq tables'.movements
    BY <2>2 DEF Follows
  <2>5. \A s \in Subs \ {e.obj} : tables'.snapshot[s] = tables.snapshot[s]
    BY <1>2, <2>2 DEF Follows
  <2> QED
    BY <2>1, <2>3, <2>4, <2>5
<1>4. CASE e.type = "invoice.paid"
  <2>1. e \in InvoiceEvent /\ SubOf[e.obj] \in Subs /\ Subject(e) = SubOf[e.obj]
    BY <1>4, EventCases, HandlerAssumption DEF Subject
  <2>2. Bills(tables, e, tables')
    BY <1>1, <2>1, PaidIs
  <2>3. \A m \in tables'.movements :
          \/ m \in tables.movements
          \/ m.id = Id(e) /\ m.sub = SubOf[e.obj] /\ m.at = e.at /\ m.cust = e.cust
    <3>1. CASE tables'.movements = tables.movements
      BY <3>1
    <3>2. CASE tables'.movements # tables.movements
      <4>1. PICK new \in Nat, kind \in Kinds :
              tables'.movements = tables.movements \union
                {UsageMove(e, kind, SubOf[e.obj], new - tables.snapshot[SubOf[e.obj]].usage)}
        BY <2>2, <3>2 DEF Bills
      <4> QED
        BY <4>1 DEF UsageMove, MoveOf
    <3> QED
      BY <3>1, <3>2
  <2>4. tables.movements \subseteq tables'.movements
    BY <2>2 DEF Bills
  <2>5. \A s \in Subs \ {SubOf[e.obj]} : tables'.snapshot[s] = tables.snapshot[s]
    BY <2>2 DEF Bills
  <2> QED
    BY <2>1, <2>3, <2>4, <2>5
<1> QED
  BY <1>3, <1>4

\* Events that may be handled again, and movements, come from events sent.
Marked ==
  /\ \A e \in parked : e.obj \in odd
  /\ \A e \in sent : e.at <= clock /\ (e.type = "invoice.paid" => e.obj \in paid)
  /\ last # NoEvent =>
       \E e \in sent : e.type = last.type /\ e.obj = last.obj /\ e.at = last.at
  /\ \A m \in tables.movements :
        \E e \in sent : m.id = Id(e) /\ m.sub = Subject(e) /\ m.at = e.at

\* A subscription whose history is regular: the ledger adds up, the snapshot
\* follows the provider, usage counts while it is active, and it was activated
\* by one movement.
Sound(s) ==
  /\ LedgerIn(tables.movements, s) = Revenue(s)
  /\ life[s] = "none" => tables.snapshot[s] = NoRow
  /\ life[s] # "none" =>
       /\ tables.snapshot[s] # NoRow
       /\ tables.snapshot[s].sub = IF life[s] \in {"idle", "active"} THEN price[s] ELSE 0
  /\ life[s] # "active" => UsageMrr(s) = 0
  /\ life[s] \in {"none", "idle"} => \A m \in tables.movements : m.sub # s
  /\ life[s] \notin {"none", "idle"} =>
       \E m \in tables.movements : /\ m.sub = s /\ m.id = <<"activated", s>>
                                   /\ m.usage = FALSE

LedgerInv == RedeliveryInv /\ Marked /\ \A s \in Subs \ odd : Sound(s)

\* A subscription whose rows nothing touches.
LEMMA SoundKept ==
  ASSUME NEW s \in Subs, Sound(s), life'[s] = life[s], price'[s] = price[s],
         tables'.snapshot[s] = tables.snapshot[s],
         {m \in tables'.movements : m.sub = s} = {m \in tables.movements : m.sub = s}
  PROVE  Sound(s)'
<1>1. LedgerIn(tables'.movements, s) = LedgerIn(tables.movements, s)
  BY DEF LedgerIn
<1>2. Revenue(s)' = Revenue(s) /\ UsageMrr(s)' = UsageMrr(s)
  BY DEF Revenue, UsageMrr
<1>3. \A m : m \in tables'.movements /\ m.sub = s <=> m \in tables.movements /\ m.sub = s
  OBVIOUS
<1> QED
  BY <1>1, <1>2, <1>3 DEF Sound

\* Handling an event the connectors sent keeps the marks.
LEMMA MarksKept ==
  ASSUME RedeliveryInv, Marked, NEW e \in Event, HandleBoth(e), last' = e,
         sent \subseteq sent',
         \E f \in sent' : f.type = e.type /\ f.obj = e.obj /\ f.at = e.at,
         \A f \in parked' : f.obj \in odd',
         \A f \in sent' : f.at <= clock' /\ (f.type = "invoice.paid" => f.obj \in paid')
  PROVE  Marked'
<1>1. ASSUME NEW m \in tables'.movements
      PROVE  \/ m \in tables.movements
             \/ m.id = Id(e) /\ m.sub = Subject(e) /\ m.at = e.at
  <2>1. MrrTypeOK
    BY DEF RedeliveryInv
  <2> QED
    BY <2>1, Confined
<1>2. PICK f \in sent' : f.type = e.type /\ f.obj = e.obj /\ f.at = e.at
  OBVIOUS
<1>3. Id(f) = Id(e) /\ Subject(f) = Subject(e)
  BY <1>2 DEF Id, Subject
<1>4. \A m \in tables'.movements : \E g \in sent' :
         m.id = Id(g) /\ m.sub = Subject(g) /\ m.at = g.at
  BY <1>1, <1>2, <1>3 DEF Marked
<1> QED
  BY <1>2, <1>4 DEF Marked

\* A subscription's event whose movement is new.
LEMMA NewMovement ==
  ASSUME MrrTypeOK, NEW e \in SubEvent, Follows(tables, e, tables'),
         e.type # "created", \A m \in tables.movements : m.id # Id(e)
  PROVE  /\ LedgerIn(tables'.movements, e.obj)
              = LedgerIn(tables.movements, e.obj) + Moved(tables, e)
         /\ \E m \in tables'.movements : /\ m.sub = e.obj /\ m.id = Id(e)
                                         /\ m.usage = FALSE
<1>1. ~HasLife(tables, e)
  BY DEF HasLife
<1>2. PICK kind \in Kinds :
        tables'.movements = tables.movements \union
          {LifeMove(e, kind, e.obj, Moved(tables, e))}
  BY <1>1 DEF Follows
<1> DEFINE new == LifeMove(e, kind, e.obj, Moved(tables, e))
<1>3. /\ new.sub = e.obj /\ new.id = Id(e) /\ new.amount = Moved(tables, e)
      /\ new.usage = FALSE
  BY DEF LifeMove, MoveOf
<1>4. new \in Movement
  BY <1>2 DEF Follows, Tables
<1>5. new \notin tables.movements
  BY <1>3
<1>6. IsFiniteSet(tables.movements) /\ tables.movements \subseteq Movement
  BY DEF MrrTypeOK, Tables
<1> HIDE DEF new
<1>7. LedgerIn(tables.movements \union {new}, new.sub)
        = LedgerIn(tables.movements, new.sub) + new.amount
  BY <1>4, <1>5, <1>6, LedgerWith
<1>8. tables'.movements = tables.movements \union {new}
  BY <1>2 DEF new
<1> QED
  BY <1>3, <1>7, <1>8

\* The regular courses of a subscription.
LEMMA DeliverSound ==
  ASSUME AtRateOne, LedgerInv, NEW s \in Subs, NEW type \in LifeTypes,
         NEW to \in Lives, NEW p \in Prices, Deliver(s, type, to, p),
         Regular(s, type), s \notin odd
  PROVE  Sound(s)'
<1> DEFINE e == Emitted(s, type, p)
           u == UsageMrr(s)
<1>1. /\ e.type = type /\ e.obj = s /\ e.mrr = p /\ e.prev = price[s]
      /\ Id(e) = <<type, s>>
  BY DEF Emitted, Id
<1>2. e \in SubEvent /\ e \in Event /\ tables' = Handle(tables, e, stored)
  BY EmittedType DEF Deliver, Emit, HandleBoth, LedgerInv, RedeliveryInv
<1> HIDE DEF e
<1>3. MrrTypeOK /\ Marked /\ Sound(s) /\ tables \in Tables
  BY DEF LedgerInv, RedeliveryInv, MrrTypeOK
<1>4. Follows(tables, e, tables')
  BY <1>2, <1>3, LifeIs
<1>5. tables.snapshot \in [Subs -> Row \union {NoRow}] /\ life[s] \in Lives
  BY <1>3 DEF Tables, MrrTypeOK
<1>6. u \in Nat /\ UsageIn(tables, s) = u
  BY <1>5 DEF UsageMrr, UsageIn, Row
<1>7. p \in Nat /\ price[s] \in Nat
  <2>1. Prices \subseteq Nat /\ price[s] \in Prices
    BY <1>3, HandlerAssumption DEF MrrTypeOK
  <2> QED
    BY <2>1
<1>8. /\ Base(e, e.mrr) = p /\ Base(e, e.prev) = price[s]
      /\ Base(e, e.mrr - e.prev) = p - price[s]
  <2>1. p \in Int /\ price[s] \in Int /\ p - price[s] \in Int
    BY <1>7
  <2> QED
    BY <1>1, <1>2, <2>1, BaseIsAmount
<1>9. tables'.snapshot[s] = After(tables, e)
  BY <1>1, <1>4, <1>5 DEF Follows
<1>10. /\ life' = [life EXCEPT ![s] = to] /\ price' = [price EXCEPT ![s] = p]
       /\ Turns(s, type, to) /\ (type = "changed" <=> p # price[s])
  BY DEF Deliver, Emit
<1>11. life'[s] = to /\ price'[s] = p
  BY <1>3, <1>10 DEF MrrTypeOK
<1>12. \A m \in tables.movements : \E f \in sent : m.id = Id(f) /\ m.sub = Subject(f)
  BY <1>3 DEF Marked
<1>13. type # "activated" => \A m \in tables.movements : m.id # Id(e)
  BY <1>1, <1>12 DEF Regular
<1>14. (\A m \in tables.movements : m.id # Id(e)) /\ type # "created" =>
         /\ LedgerIn(tables'.movements, s)
              = LedgerIn(tables.movements, s) + Moved(tables, e)
         /\ \E m \in tables'.movements : /\ m.sub = s /\ m.id = <<type, s>>
                                         /\ m.usage = FALSE
  BY <1>1, <1>2, <1>3, <1>4, NewMovement
<1>15. tables.movements \subseteq tables'.movements
  BY <1>4 DEF Follows
<1>16. p # 0
  BY HandlerAssumption
<1>17. [sub |-> p, usage |-> u] # NoRow /\ [sub |-> 0, usage |-> 0] # NoRow
  BY <1>6, <1>7, RowAssumption DEF Row
<1>18. CASE type = "created"
  <2>1. life[s] = "none" /\ to = "idle" /\ p = price[s]
    BY <1>10, <1>18 DEF Turns
  <2>2. tables'.snapshot[s] = [sub |-> p, usage |-> u] /\ u = 0
    BY <1>1, <1>3, <1>6, <1>8, <1>9, <1>18, <2>1 DEF After, Sound
  <2>3. tables'.movements = tables.movements
    BY <1>1, <1>4, <1>18 DEF Follows
  <2>4. LedgerIn(tables.movements, s) = 0
    BY <1>3, <2>1 DEF Sound, Revenue
  <2> QED
    BY <1>3, <1>11, <1>17, <2>1, <2>2, <2>3, <2>4 DEF Sound, Revenue, UsageMrr
<1>19. CASE type = "activated"
  <2>1. life[s] \in {"idle", "active"} /\ to = "active" /\ p = price[s]
    BY <1>10, <1>19 DEF Turns, Regular
  <2>2. tables'.snapshot[s] = [sub |-> p, usage |-> u]
    BY <1>1, <1>6, <1>8, <1>9, <1>19 DEF After
  <2>3. Moved(tables, e) = p
    BY <1>1, <1>8, <1>19 DEF Moved
  <2>4. CASE life[s] = "idle"
    <3>1. \A m \in tables.movements : m.id # Id(e)
      <4>1. \A f \in sent : Id(f) = Id(e) => Subject(f) = s
        BY <1>1, <1>19 DEF Id, Subject
      <4> QED
        BY <1>3, <1>12, <2>4, <4>1 DEF Sound
    <3>2. LedgerIn(tables.movements, s) = 0 /\ u = 0
      BY <1>3, <2>4 DEF Sound, Revenue
    <3>3. LedgerIn(tables'.movements, s) = p
      BY <1>7, <1>14, <1>19, <2>3, <3>1, <3>2
    <3> QED
      BY <1>7, <1>11, <1>14, <1>17, <1>19, <2>1, <2>2, <3>1, <3>2, <3>3
         DEF Sound, Revenue, UsageMrr
  <2>5. CASE life[s] = "active"
    <3>1. PICK m \in tables.movements :
            m.sub = s /\ m.id = <<"activated", s>> /\ m.usage = FALSE
      BY <1>3, <2>5 DEF Sound
    <3>2. HasLife(tables, e)
      BY <1>1, <1>19, <3>1 DEF HasLife
    <3>3. tables'.movements = tables.movements
      BY <1>4, <3>2 DEF Follows
    <3>4. LedgerIn(tables.movements, s) = price[s] + u
      BY <1>3, <2>5 DEF Sound, Revenue
    <3> QED
      BY <1>11, <1>17, <2>1, <2>2, <3>1, <3>3, <3>4 DEF Sound, Revenue, UsageMrr
  <2> QED
    BY <2>1, <2>4, <2>5
<1>20. CASE type = "changed"
  <2>1. life[s] = "active" /\ to = "active"
    BY <1>10, <1>20 DEF Turns, Regular
  <2>2. tables'.snapshot[s] = [sub |-> p, usage |-> u]
    BY <1>1, <1>6, <1>8, <1>9, <1>20 DEF After
  <2>3. Moved(tables, e) = p - price[s]
    BY <1>1, <1>8, <1>20 DEF Moved
  <2>4. LedgerIn(tables.movements, s) = price[s] + u
    BY <1>3, <2>1 DEF Sound, Revenue
  <2>5. LedgerIn(tables'.movements, s) = p + u
    BY <1>6, <1>7, <1>13, <1>14, <1>20, <2>3, <2>4
  <2>6. \E m \in tables'.movements : /\ m.sub = s /\ m.id = <<"activated", s>>
                                     /\ m.usage = FALSE
    BY <1>3, <1>15, <2>1 DEF Sound
  <2> QED
    BY <1>11, <1>17, <2>1, <2>2, <2>5, <2>6 DEF Sound, Revenue, UsageMrr
<1>21. CASE type \in {"churned", "paused"}
  <2>1. life[s] = "active" /\ to \in {"lapsed", "ended", "paused"} /\ p = price[s]
    BY <1>10, <1>21 DEF Turns, Regular
  <2>2. tables'.snapshot[s] = [sub |-> 0, usage |-> 0]
    BY <1>1, <1>9, <1>21 DEF After
  <2>3. Moved(tables, e) = -(price[s] + u)
    BY <1>1, <1>6, <1>8, <1>21 DEF Moved
  <2>4. LedgerIn(tables.movements, s) = price[s] + u
    BY <1>3, <2>1 DEF Sound, Revenue
  <2>5. LedgerIn(tables'.movements, s) = 0
    BY <1>6, <1>7, <1>13, <1>14, <1>21, <2>3, <2>4
  <2>6. \E m \in tables'.movements : /\ m.sub = s /\ m.id = <<"activated", s>>
                                     /\ m.usage = FALSE
    BY <1>3, <1>15, <2>1 DEF Sound
  <2> QED
    BY <1>11, <1>17, <2>1, <2>2, <2>5, <2>6 DEF Sound, Revenue, UsageMrr
<1>22. CASE type = "resumed"
  <2>1. life[s] = "paused" /\ to = "active" /\ p = price[s]
    BY <1>10, <1>22 DEF Turns, Regular
  <2>2. tables'.snapshot[s] = [sub |-> p, usage |-> u]
    BY <1>1, <1>6, <1>8, <1>9, <1>22 DEF After
  <2>3. Moved(tables, e) = p
    BY <1>1, <1>8, <1>22 DEF Moved
  <2>4. LedgerIn(tables.movements, s) = 0 /\ u = 0
    BY <1>3, <2>1 DEF Sound, Revenue
  <2>5. LedgerIn(tables'.movements, s) = p
    BY <1>7, <1>13, <1>14, <1>22, <2>3, <2>4
  <2>6. \E m \in tables'.movements : /\ m.sub = s /\ m.id = <<"activated", s>>
                                     /\ m.usage = FALSE
    BY <1>3, <1>15, <2>1 DEF Sound
  <2> QED
    BY <1>7, <1>11, <1>17, <2>1, <2>2, <2>4, <2>5, <2>6 DEF Sound, Revenue, UsageMrr
<1>23. type \in {"created", "activated", "changed", "churned", "paused", "resumed"}
  BY <1>10 DEF Turns
<1> QED
  BY <1>18, <1>19, <1>20, <1>21, <1>22, <1>23

\* An invoice paid for an active subscription.
LEMMA PaySound ==
  ASSUME LedgerInv, NEW i \in Invoices, PayInvoice(i), NEW s, s = SubOf[i],
         life[s] = "active", s \notin odd
  PROVE  Sound(s)'
<1> DEFINE e == EmittedPaid(i)
           u == tables.snapshot[s].usage
<1>1. e.type = "invoice.paid" /\ e.obj = i /\ Id(e) = <<"invoice.paid", i>> /\ Subject(e) = s
  BY DEF EmittedPaid, Id, Subject
<1>2. e \in InvoiceEvent /\ tables' = Handle(tables, e, stored)
  BY PaidType DEF PayInvoice, HandleBoth, LedgerInv, RedeliveryInv
<1> HIDE DEF e
<1>3. MrrTypeOK /\ Marked /\ Sound(s) /\ tables \in Tables /\ s \in Subs
  BY HandlerAssumption DEF LedgerInv, RedeliveryInv, MrrTypeOK
<1>4. Bills(tables, e, tables')
  BY <1>2, <1>3, PaidIs
<1>5. UNCHANGED <<life, price>> /\ i \notin paid
  BY DEF PayInvoice
<1>6. CASE tables'.snapshot = tables.snapshot /\ tables'.movements = tables.movements
  BY <1>3, <1>5, <1>6, SoundKept
<1>7. CASE ~(tables'.snapshot = tables.snapshot /\ tables'.movements = tables.movements)
  <2>1. PICK new \in Nat, kind \in Kinds :
          /\ tables'.snapshot = [tables.snapshot EXCEPT ![s] =
                                   [sub |-> tables.snapshot[s].sub, usage |-> new]]
          /\ ~HasUsage(tables, e) =>
               tables'.movements = tables.movements \union {UsageMove(e, kind, s, new - u)}
    BY <1>1, <1>4, <1>7 DEF Bills
  <2> DEFINE move == UsageMove(e, kind, s, new - u)
  <2>2. \A m \in tables.movements : m.id # Id(e)
    <3>1. \A f \in sent : Id(f) # Id(e)
      BY <1>1, <1>3, <1>5 DEF Marked, Id
    <3> QED
      BY <1>3, <3>1 DEF Marked
  <2>3. tables'.movements = tables.movements \union {move}
    BY <2>1, <2>2 DEF HasUsage
  <2>4. move \in Movement
    BY <1>4, <2>3 DEF Bills, Tables
  <2>5. move.id = Id(e) /\ move.sub = s /\ move.amount = new - u
    BY DEF UsageMove, MoveOf
  <2> HIDE DEF move
  <2>6. /\ IsFiniteSet(tables.movements) /\ tables.movements \subseteq Movement
        /\ tables.snapshot \in [Subs -> Row \union {NoRow}] /\ price[s] \in Prices
    BY <1>3 DEF MrrTypeOK, Tables
  <2>7. LedgerIn(tables'.movements, s) = LedgerIn(tables.movements, s) + (new - u)
    BY <2>2, <2>3, <2>4, <2>5, <2>6, LedgerWith
  <2>8. tables.snapshot[s] # NoRow /\ tables.snapshot[s].sub = price[s]
    BY <1>3 DEF Sound
  <2>9. price[s] \in Nat /\ u \in Nat
    <3>1. Prices \subseteq Nat
      BY HandlerAssumption
    <3> QED
      BY <1>3, <2>6, <2>8, <3>1 DEF Row
  <2>10. LedgerIn(tables.movements, s) = price[s] + u
    BY <1>3, <2>8 DEF Sound, Revenue, UsageMrr
  <2>11. LedgerIn(tables'.movements, s) = price[s] + new
    BY <2>7, <2>9, <2>10
  <2>12. tables'.snapshot[s] = [sub |-> price[s], usage |-> new]
    BY <1>3, <2>1, <2>6, <2>8
  <2>13. [sub |-> price[s], usage |-> new] # NoRow
    BY <2>9, RowAssumption DEF Row
  <2>14. \E m \in tables'.movements : /\ m.sub = s /\ m.id = <<"activated", s>>
                                      /\ m.usage = FALSE
    BY <1>3, <2>3 DEF Sound
  <2> QED
    BY <1>5, <2>11, <2>12, <2>13, <2>14 DEF Sound, Revenue, UsageMrr
<1> QED
  BY <1>6, <1>7

\* The invariant of the ledger holds at first ...
LEMMA LedgerInit == Init => LedgerInv
<1> SUFFICES ASSUME Init PROVE LedgerInv
  OBVIOUS
<1>1. ASSUME NEW s \in Subs PROVE Sound(s)
  <2>1. tables.movements = {} /\ life[s] = "none" /\ tables.snapshot[s] = NoRow
    BY DEF Init, Empty
  <2>2. LedgerIn({}, s) = 0
    <3>1. {m \in {} : m.sub = s} = {}
      OBVIOUS
    <3> QED
      BY <3>1, TotalIs, SumEmpty DEF LedgerIn
  <2> QED
    BY <2>1, <2>2 DEF Sound, Revenue, UsageMrr
<1>2. Marked
  BY DEF Init, Marked, Empty
<1> QED
  BY <1>1, <1>2, RedeliveryInit DEF LedgerInv

\* ... and is kept by every step.
LEMMA LedgerStep ==
  ASSUME AtRateOne, LedgerInv, [Next]_vars PROVE LedgerInv'
<1>0. /\ RedeliveryInv' /\ RedeliveryInv /\ MrrTypeOK /\ Marked
      /\ \A e \in sent : e.at <= clock /\ e.at \in Nat /\ clock \in Nat
  <2>1. RedeliveryInv' /\ RedeliveryInv /\ MrrTypeOK /\ Marked
    BY RedeliveryStep DEF LedgerInv, RedeliveryInv
  <2>2. clock \in Nat /\ sent \subseteq Event
    BY <2>1, HandlerAssumption DEF MrrTypeOK
  <2>3. \A e \in Event : e.at \in Nat
    BY HandlerAssumption DEF Event, SubEvent, InvoiceEvent
  <2> QED
    BY <2>1, <2>2, <2>3 DEF Marked
<1>1. ASSUME NEW s \in Subs, NEW type \in LifeTypes, NEW to \in Lives, NEW p \in Prices,
             Emit(s, type, to, p), odd \subseteq odd',
             \/ HandleBoth(Emitted(s, type, p)) \/ UNCHANGED tables
      PROVE  \A r \in Subs \ odd' : r # s => Sound(r)'
  <2>1. ASSUME NEW r \in Subs \ odd', r # s PROVE Sound(r)'
    <3>1. life'[r] = life[r] /\ price'[r] = price[r] /\ Sound(r)
      BY <1>0, <1>1, <2>1 DEF Emit, MrrTypeOK, LedgerInv
    <3>2. CASE UNCHANGED tables
      BY <3>1, <3>2, SoundKept
    <3>3. CASE HandleBoth(Emitted(s, type, p))
      <4>1. Emitted(s, type, p) \in Event
        BY <1>0, <1>1, EmittedType DEF Emit
      <4>2. Subject(Emitted(s, type, p)) = s
        BY DEF Subject, Emitted, LifeTypes
      <4> QED
        BY <1>0, <2>1, <3>1, <3>3, <4>1, <4>2, Confined, SoundKept
    <3> QED
      BY <1>1, <3>2, <3>3
  <2> QED
    BY <2>1
<1>2. ASSUME NEW s \in Subs, NEW type \in LifeTypes, NEW to \in Lives, NEW p \in Prices,
             Deliver(s, type, to, p)
      PROVE  LedgerInv'
  <2> DEFINE e == Emitted(s, type, p)
  <2>1. /\ Emit(s, type, to, p) /\ HandleBoth(e) /\ last' = e /\ parked' = parked
        /\ odd' = odd \union (IF Regular(s, type) THEN {} ELSE {s})
    BY <1>2 DEF Deliver
  <2>2. /\ sent' = sent \union {e} /\ paid' = paid /\ clock < MaxClock
        /\ clock' = clock + 1 /\ e.at = clock'
    BY <2>1 DEF Emit, Emitted
  <2>3. e \in Event /\ e.type # "invoice.paid"
    BY <1>0, <2>2, EmittedType DEF Emitted, LifeTypes
  <2>4. s \notin odd' => Sound(s)'
    BY <1>2, <2>1, DeliverSound
  <2>5. \A r \in Subs \ odd' : r # s => Sound(r)'
    BY <1>1, <2>1
  <2>6. Marked'
    <3> HIDE DEF e
    <3> QED
      BY <1>0, <2>1, <2>2, <2>3, MarksKept DEF Marked
  <2> QED
    BY <1>0, <2>4, <2>5, <2>6 DEF LedgerInv
<1>3. ASSUME NEW s \in Subs, NEW type \in LifeTypes, NEW to \in Lives, NEW p \in Prices,
             Park(s, type, to, p)
      PROVE  LedgerInv'
  <2> DEFINE e == Emitted(s, type, p)
  <2>1. /\ Emit(s, type, to, p) /\ last' = NoEvent /\ parked' = parked \union {e}
        /\ odd' = odd \union {s} /\ UNCHANGED tables
    BY <1>3 DEF Park
  <2>2. /\ sent' = sent \union {e} /\ paid' = paid
        /\ clock' = clock + 1 /\ e.at = clock'
    BY <2>1 DEF Emit, Emitted
  <2>3. e.type # "invoice.paid" /\ e.obj = s
    BY DEF Emitted, LifeTypes
  <2> HIDE DEF e
  <2>4. Marked'
    BY <1>0, <2>1, <2>2, <2>3 DEF Marked
  <2>5. \A r \in Subs \ odd' : r # s => Sound(r)'
    BY <1>1, <2>1
  <2> QED
    BY <1>0, <2>1, <2>4, <2>5 DEF LedgerInv
<1>4. ASSUME NEW e \in Event, HandleBoth(e), UNCHANGED <<life, price>>, odd \subseteq odd'
      PROVE  \A r \in Subs \ odd' : r # Subject(e) => Sound(r)'
  <2>1. ASSUME NEW r \in Subs \ odd', r # Subject(e) PROVE Sound(r)'
    <3>1. life'[r] = life[r] /\ price'[r] = price[r] /\ Sound(r)
      BY <1>4 DEF LedgerInv
    <3> QED
      BY <1>0, <1>4, <2>1, <3>1, Confined, SoundKept
  <2> QED
    BY <2>1
<1>5. ASSUME NEW i \in Invoices, PayInvoice(i) PROVE LedgerInv'
  <2> DEFINE e == EmittedPaid(i)
             s == SubOf[i]
  <2>1. /\ HandleBoth(e) /\ last' = e /\ UNCHANGED <<life, price, parked>>
        /\ odd' = odd \union (IF life[s] = "active" /\ i \in stored THEN {} ELSE {s})
        /\ sent' = sent \union {e} /\ paid' = paid \union {i} /\ clock < MaxClock
        /\ clock' = clock + 1 /\ e.at = clock'
    BY <1>5 DEF PayInvoice, EmittedPaid
  <2>2. e \in Event /\ e.obj = i /\ Subject(e) = s
    BY <1>0, <2>1, PaidType DEF EmittedPaid, Subject
  <2>3. s \notin odd' => Sound(s)'
    BY <1>5, <2>1, PaySound
  <2> HIDE DEF e, s
  <2>4. Marked'
    BY <1>0, <2>1, <2>2, MarksKept DEF Marked
  <2>5. \A r \in Subs \ odd' : r # s => Sound(r)'
    BY <1>4, <2>1, <2>2
  <2> QED
    BY <1>0, <2>3, <2>4, <2>5 DEF LedgerInv
<1>6. ASSUME UNCHANGED <<life, price, clock, tables, paid, sent, last, parked, odd>>
      PROVE  LedgerInv'
  <2>1. \A r \in Subs \ odd' : Sound(r)'
    BY <1>6, SoundKept DEF LedgerInv
  <2>2. Marked'
    BY <1>0, <1>6 DEF Marked
  <2> QED
    BY <1>0, <2>1, <2>2 DEF LedgerInv
<1>7. ASSUME NEW i \in Invoices, StoreLines(i) PROVE LedgerInv'
  BY <1>6, <1>7 DEF StoreLines
<1>8. CASE Redeliver
  <2>1. /\ last # NoEvent /\ HandleBoth(last) /\ last' = last
        /\ UNCHANGED <<life, price, clock, paid, sent, parked>> /\ odd \subseteq odd'
        /\ last \in Event
    BY <1>0, <1>8 DEF Redeliver, MrrTypeOK
  <2>2. CASE last.type # "invoice.paid"
    <3>1. UNCHANGED tables /\ UNCHANGED odd
      BY <1>0, <1>8, <2>1, <2>2 DEF Redeliver, HandleBoth, RedeliveryInv, Repeats
    <3> QED
      BY <1>6, <2>1, <3>1
  <2>3. CASE last.type = "invoice.paid"
    <3>1. Subject(last) \in odd'
      BY <1>8, <2>1, <2>3, EventCases DEF Redeliver, Disturbed, Subject
    <3>2. \A r \in Subs \ odd' : Sound(r)'
      BY <1>4, <2>1, <3>1
    <3>3. Marked'
      BY <1>0, <2>1, MarksKept DEF Marked
    <3> QED
      BY <1>0, <3>2, <3>3 DEF LedgerInv
  <2> QED
    BY <2>2, <2>3
<1>9. ASSUME NEW e \in sent, Replay(e) PROVE LedgerInv'
  <2> DEFINE f == [e EXCEPT !.cust = NoCustomer]
  <2>1. /\ e \in parked /\ parked' = parked \ {e} /\ HandleBoth(f) /\ last' = f
        /\ UNCHANGED <<life, price, clock, paid, sent, odd>>
    BY <1>9 DEF Replay
  <2>2. e \in SubEvent /\ e.obj \in odd
    BY <1>0, <2>1 DEF MrrTypeOK, Marked
  <2>3. f \in Event /\ f.type = e.type /\ f.obj = e.obj /\ f.at = e.at /\ Subject(f) = e.obj
    BY <2>2 DEF Event, SubEvent, AllCustomers, Subject, LifeTypes
  <2> HIDE DEF f
  <2>4. \A r \in Subs \ odd' : Sound(r)'
    BY <1>4, <2>1, <2>2, <2>3
  <2>5. Marked'
    BY <1>0, <2>1, <2>3, MarksKept DEF Marked
  <2> QED
    BY <1>0, <2>4, <2>5 DEF LedgerInv
<1>10. ASSUME NEW e \in sent, Resend(e) PROVE LedgerInv'
  <2>1. /\ HandleBoth(e) /\ last' = e /\ odd' = odd \union Disturbed(e)
        /\ UNCHANGED <<life, price, clock, paid, sent, parked>>
    BY <1>10 DEF Resend
  <2>2. e \in Event
    BY <1>0 DEF MrrTypeOK
  <2>3. Subject(e) \in odd'
    BY <2>1, <2>2, EventCases, HandlerAssumption DEF Disturbed, Subject
  <2>4. \A r \in Subs \ odd' : Sound(r)'
    BY <1>4, <2>1, <2>2, <2>3
  <2>5. Marked'
    BY <1>0, <2>1, <2>2, MarksKept DEF Marked
  <2> QED
    BY <1>0, <2>4, <2>5 DEF LedgerInv
<1>11. CASE UNCHANGED vars
  BY <1>6, <1>11 DEF vars
<1> QED
  BY <1>2, <1>3, <1>5, <1>7, <1>8, <1>9, <1>10, <1>11 DEF Next

\* At rate 1, the ledger, the snapshot and the buckets of each subscription with a
\* regular history fit its life and price, whatever happens to the others.
THEOREM MrrLedgerInductive == AtRateOne /\ Spec => []LedgerInv
<1> SUFFICES ASSUME AtRateOne PROVE Spec => []LedgerInv
  OBVIOUS
<1>1. LedgerInv /\ [Next]_vars => LedgerInv'
  BY LedgerStep
<1> QED
  BY <1>1, LedgerInit, PTL DEF Spec

\* At rate 1, whatever is resent, dead-lettered and replayed meanwhile, the
\* snapshot of a subscription with a regular history is the provider's price
\* (mrr/metric.py:_upsert_snapshot).
THEOREM SnapshotFollowsProvider == AtRateOne /\ Spec => []SnapshotFollows
<1> SUFFICES ASSUME AtRateOne PROVE Spec => []SnapshotFollows
  OBVIOUS
<1>1. LedgerInv => SnapshotFollows
  BY DEF LedgerInv, Sound, SnapshotFollows
<1>2. Spec => []LedgerInv
  BY MrrLedgerInductive
<1> QED
  BY <1>1, <1>2, PTL

-----------------------------------------------------------------------------
(* The queries of the present and of the past *)

\* What the endpoints' module means by its own copies of library operators.
LEMMA CardinalityIs == ASSUME NEW S PROVE Query!Cardinality(S) = Cardinality(S)
BY Zenon DEF Query!Cardinality, Cardinality

\* The query's sum of movements is the same sum.
LEMMA LedgerTotalIs ==
  ASSUME NEW S, S \subseteq Movement PROVE Query!Total(S) = SumOver(Amounts, S)
<1>1. Query!Total(S) = Total(S)
  BY DEF Query!Total, Total, MapThenSumSet, MapThenFoldSet,
         Query!MapThenSumSet, Query!MapThenFoldSet
<1> QED
  BY <1>1, TotalIs

\* Sums of a column of the snapshot, and of the subscriptions' usage.
LEMMA MrrSumIs ==
  ASSUME NEW P
  PROVE  Query!MapThenSumSet(Query!MrrOf, P) = SumOver([q \in P |-> Query!MrrOf(q)], P)
<1> DEFINE w == [q \in P |-> Query!MrrOf(q)]
           Rec(h) == h = [T \in SUBSET P |-> IF T = {} THEN 0
                            ELSE Query!MrrOf(Chosen(T)) + h[T \ {Chosen(T)}]]
<1>1. Query!MapThenSumSet(Query!MrrOf, P) = (CHOOSE h : Rec(h))[P]
  BY Zenon DEF Query!MapThenSumSet, Query!MapThenFoldSet, Chosen
<1>2. ASSUME NEW h PROVE Rec(h) <=> Iterates(h, w, P)
  <2>1. \A T \in SUBSET P : T # {} => w[Chosen(T)] = Query!MrrOf(Chosen(T))
    BY DEF Chosen
  <2> HIDE DEF w
  <2> QED
    BY <2>1 DEF Iterates
<1>3. (CHOOSE h : Rec(h)) = (CHOOSE h : Iterates(h, w, P))
  <2> HIDE DEF Rec, w
  <2> QED
    BY <1>2
<1> QED
  BY <1>1, <1>3 DEF SumOver

\* The query's sum of the usage column is a sum over a finite set.
LEMMA UsageColumnIs ==
  ASSUME NEW P
  PROVE  Query!MapThenSumSet(LAMBDA q : q.usage, P) = SumOver([q \in P |-> q.usage], P)
<1> DEFINE w == [q \in P |-> q.usage]
           Rec(h) == h = [T \in SUBSET P |-> IF T = {} THEN 0
                            ELSE Chosen(T).usage + h[T \ {Chosen(T)}]]
<1>1. Query!MapThenSumSet(LAMBDA q : q.usage, P) = (CHOOSE h : Rec(h))[P]
  BY Zenon DEF Query!MapThenSumSet, Query!MapThenFoldSet, Chosen
<1>2. ASSUME NEW h PROVE Rec(h) <=> Iterates(h, w, P)
  <2>1. \A T \in SUBSET P : T # {} => w[Chosen(T)] = Chosen(T).usage
    BY DEF Chosen
  <2> HIDE DEF w
  <2> QED
    BY <2>1 DEF Iterates
<1>3. (CHOOSE h : Rec(h)) = (CHOOSE h : Iterates(h, w, P))
  <2> HIDE DEF Rec, w
  <2> QED
    BY <1>2
<1> QED
  BY <1>1, <1>3 DEF SumOver

\* So is the sum of what the subscriptions used.
LEMMA UsageSumIs ==
  ASSUME NEW P
  PROVE  MapThenSumSet(UsageMrr, P) = SumOver([s \in P |-> UsageMrr(s)], P)
<1> DEFINE w == [s \in P |-> UsageMrr(s)]
           Rec(h) == h = [T \in SUBSET P |-> IF T = {} THEN 0
                            ELSE UsageMrr(Chosen(T)) + h[T \ {Chosen(T)}]]
<1>1. MapThenSumSet(UsageMrr, P) = (CHOOSE h : Rec(h))[P]
  BY Zenon DEF MapThenSumSet, MapThenFoldSet, Chosen
<1>2. ASSUME NEW h PROVE Rec(h) <=> Iterates(h, w, P)
  <2>1. \A T \in SUBSET P : T # {} => w[Chosen(T)] = UsageMrr(Chosen(T))
    BY DEF Chosen
  <2> HIDE DEF w
  <2> QED
    BY <2>1 DEF Iterates
<1>3. (CHOOSE h : Rec(h)) = (CHOOSE h : Iterates(h, w, P))
  <2> HIDE DEF Rec, w
  <2> QED
    BY <1>2
<1> QED
  BY <1>1, <1>3 DEF SumOver

\* What the queries answer, as sums.
LEMMA AnswersAre ==
  ASSUME NEW L, NEW Q, NEW day, day # NoRow
  PROVE  /\ Query!GetMrr("components", L, Q, Query!Now).mrr =
              Query!MapThenSumSet(Query!MrrOf, Query!Paying(Q))
         /\ Query!GetMrr("components", L, Q, Query!Now).usage =
              Query!MapThenSumSet(LAMBDA q : q.usage, Query!Paying(Q))
         /\ Query!GetMrr("mrr", L, Q, Query!AtDay(NoRow)) =
              Query!MapThenSumSet(Query!MrrOf, Query!Paying(Q))
         /\ Query!GetMrr("mrr", L, Q, Query!AtDay(day)) =
              Query!Total(Query!Through(L, day))
         /\ Query!CurrentArpu(Q) =
              IF Query!Paying(Q) = {} THEN NoRow
              ELSE [mrr |-> Query!MapThenSumSet(Query!MrrOf, Query!Paying(Q)),
                    of |-> Cardinality({q.cust : q \in Query!Paying(Q)})]
<1>1. Query!GetMrr("components", L, Q, Query!Now) = Query!Components(Q)
  BY DEF Query!GetMrr, Query!MrrQuery
<1>2. Query!Components(Q).mrr = Query!MapThenSumSet(Query!MrrOf, Query!Paying(Q))
  BY Zenon DEF Query!Components
<1>3. Query!Components(Q).usage =
        Query!MapThenSumSet(LAMBDA q : q.usage, Query!Paying(Q))
  BY Zenon DEF Query!Components
<1>4. ASSUME NEW d
      PROVE  Query!GetMrr("mrr", L, Q, Query!AtDay(d)) =
               IF d = NoRow THEN Query!Components(Q).mrr
               ELSE Query!Total(Query!Through(L, d))
  BY DEF Query!GetMrr, Query!AtDay, Query!MrrQuery, Query!Windowed, Query!MrrAnswer,
         Query!CurrentMrr, Query!MrrAt
<1>5. Query!CurrentArpu(Q) =
        IF Query!Paying(Q) = {} THEN NoRow
        ELSE [mrr |-> Query!Components(Q).mrr,
              of |-> Cardinality({q.cust : q \in Query!Paying(Q)})]
  BY CardinalityIs DEF Query!CurrentArpu, Query!CurrentMrr
<1> QED
  BY <1>1, <1>2, <1>3, <1>4, <1>5, Zenon

RowOf == [s \in Subs |-> [cust |-> CustomerOf[s], sub |-> s,
                          licensed |-> tables.snapshot[s].sub,
                          usage |-> tables.snapshot[s].usage]]
Active == {s \in Subs : life[s] = "active"}
\* Every history is regular, and no subscription waits to be active.
AllRegular == odd = {} /\ \A s \in Subs : life[s] # "idle"

\* A subscription's usage is a number.
LEMMA UsageType == ASSUME MrrTypeOK, NEW s \in Subs PROVE UsageMrr(s) \in Nat
<1>1. tables.snapshot[s] \in Row \union {NoRow}
  BY DEF MrrTypeOK, Tables
<1> QED
  BY <1>1 DEF UsageMrr, Row

\* The rows that pay are those of the active subscriptions.
LEMMA PayingIs ==
  ASSUME LedgerInv, AllRegular
  PROVE  /\ Query!Paying(SnapshotRows) = {RowOf[s] : s \in Active}
         /\ \A s \in Active :
              /\ Query!MrrOf(RowOf[s]) = Revenue(s) /\ Revenue(s) \in Nat \ {0}
              /\ RowOf[s].usage = UsageMrr(s)
         /\ \A s \in Subs \ Active : Revenue(s) = 0
<1>1. ASSUME NEW s \in Active
      PROVE  /\ tables.snapshot[s] # NoRow
             /\ Query!MrrOf(RowOf[s]) = Revenue(s) /\ Revenue(s) \in Nat \ {0}
             /\ RowOf[s].usage = UsageMrr(s)
  <2>1. s \in Subs /\ life[s] = "active" /\ Sound(s) /\ price[s] \in Nat \ {0}
    BY HandlerAssumption DEF Active, AllRegular, LedgerInv, RedeliveryInv, MrrTypeOK
  <2>2. tables.snapshot[s] # NoRow /\ tables.snapshot[s].sub = price[s]
    BY <2>1 DEF Sound
  <2>3. UsageMrr(s) \in Nat /\ UsageMrr(s) = tables.snapshot[s].usage
    BY <2>1, <2>2, UsageType DEF UsageMrr, LedgerInv, RedeliveryInv
  <2>4. RowOf[s].licensed = price[s] /\ RowOf[s].usage = UsageMrr(s)
    BY <2>1, <2>2, <2>3 DEF RowOf
  <2> QED
    BY <2>1, <2>2, <2>3, <2>4 DEF Query!MrrOf, Revenue
<1>2. ASSUME NEW s \in Subs \ Active, tables.snapshot[s] # NoRow
      PROVE  ~(Query!MrrOf(RowOf[s]) > 0)
  <2>1. life[s] # "active" /\ life[s] # "idle" /\ Sound(s)
    BY DEF Active, AllRegular, LedgerInv
  <2>2. tables.snapshot[s].sub = 0 /\ tables.snapshot[s].usage = 0
    BY <1>2, <2>1 DEF Sound, UsageMrr
  <2>3. RowOf[s].licensed = 0 /\ RowOf[s].usage = 0
    BY <2>2 DEF RowOf
  <2> QED
    BY <2>3 DEF Query!MrrOf
<1>3. SnapshotRows = {RowOf[s] : s \in {r \in Subs : tables.snapshot[r] # NoRow}}
  BY DEF SnapshotRows, RowOf
<1>4. Active \subseteq Subs
  BY DEF Active
<1>5. \A s \in Subs \ Active : Revenue(s) = 0
  BY DEF Active, Revenue
<1>6. Query!Paying(SnapshotRows) = {q \in SnapshotRows : Query!MrrOf(q) > 0}
  BY DEF Query!Paying
<1>7. \A s \in Active : Query!MrrOf(RowOf[s]) > 0
  BY <1>1
<1> QED
  BY <1>1, <1>2, <1>3, <1>4, <1>5, <1>6, <1>7

\* The ledger of all subscriptions is the sum of what each is worth.
LEMMA LedgerOfAll ==
  ASSUME LedgerInv, AllRegular
  PROVE  /\ Query!Total(tables.movements) = SumOver([s \in Subs |-> Revenue(s)], Active)
         /\ Query!Total(Query!Through(tables.movements, clock)) = Query!Total(tables.movements)
<1> DEFINE M == tables.movements
           w == [s \in Subs |-> Revenue(s)]
           subOf == [m \in M |-> m.sub]
<1>1. /\ IsFiniteSet(M) /\ M \subseteq Movement /\ IsFiniteSet(Subs) /\ clock \in Nat
      /\ \A m \in Movement : m.sub \in Subs /\ m.amount \in Int
      /\ \A m \in M : m.at <= clock /\ m.at \in Int
  <2>1. IsFiniteSet(M) /\ M \subseteq Movement /\ IsFiniteSet(Subs) /\ clock \in Nat
    BY HandlerAssumption DEF LedgerInv, RedeliveryInv, MrrTypeOK, Tables
  <2>2. \A m \in Movement : m.sub \in Subs /\ m.amount \in Int /\ m.at \in Int
    BY DEF Movement
  <2>3. \A m \in M : m.at <= clock
    BY DEF LedgerInv, Marked
  <2> QED
    BY <2>1, <2>2, <2>3
<1>2. ASSUME NEW s \in Subs
      PROVE  w[s] = SumOver(Amounts, Group(M, subOf, s))
  <2>1. Group(M, subOf, s) = {m \in M : m.sub = s}
    BY DEF Group
  <2>2. LedgerIn(M, s) = Revenue(s)
    BY DEF LedgerInv, AllRegular, Sound
  <2>3. Total({m \in M : m.sub = s}) = SumOver(Amounts, {m \in M : m.sub = s})
    BY <1>1, TotalIs
  <2> QED
    BY <2>1, <2>2, <2>3 DEF LedgerIn
<1>3. Weighs(Amounts, M) /\ subOf \in [M -> Subs]
  BY <1>1 DEF Weighs, Amounts
<1>4. SumOver(Amounts, M) = SumOver(w, Subs)
  <2>1. \A s \in Subs : w[s] = SumOver(Amounts, Group(M, subOf, s))
    BY <1>2
  <2>2. IsFiniteSet(Subs)
    BY <1>1
  <2> HIDE DEF M, w, subOf
  <2> QED
    BY <1>3, <2>1, <2>2, SumParts
<1>5. SumOver(w, Subs) = SumOver(w, Active)
  <2>1. \A s \in Active : w[s] \in Nat /\ s \in Subs
    BY PayingIs DEF Active
  <2>2. \A s \in Subs \ Active : w[s] = 0
    BY PayingIs
  <2> HIDE DEF w
  <2>3. Weighs(w, Subs) /\ Active \in SUBSET Subs
    BY <1>1, <2>1, <2>2 DEF Weighs, Active
  <2> QED
    BY <2>2, <2>3, SumSupport
<1>6. Query!Total(M) = SumOver(Amounts, M)
  BY <1>1, LedgerTotalIs
<1>7. Query!Through(M, clock) = M
  <2>1. \A t \in Int : Query!Day(t) = t
    BY DEF Query!Day
  <2> QED
    BY <1>1, <2>1 DEF Query!Through
<1> QED
  BY <1>4, <1>5, <1>6, <1>7

\* The sums over the rows that pay are sums over the active subscriptions.
LEMMA PayingSums ==
  ASSUME LedgerInv, AllRegular
  PROVE  /\ Query!MapThenSumSet(Query!MrrOf, Query!Paying(SnapshotRows)) =
              SumOver([s \in Subs |-> Revenue(s)], Active)
         /\ Query!MapThenSumSet(LAMBDA q : q.usage, Query!Paying(SnapshotRows)) =
              MapThenSumSet(UsageMrr, Active)
<1> DEFINE P == {RowOf[s] : s \in Active}
           mrr == [q \in P |-> Query!MrrOf(q)]
           usage == [q \in P |-> q.usage]
           revenue == [s \in Subs |-> Revenue(s)]
           component == [s \in Active |-> UsageMrr(s)]
<1>1. Query!Paying(SnapshotRows) = P
  BY PayingIs
<1>2. /\ IsFiniteSet(Active) /\ Active \subseteq Subs
      /\ \A r, s \in Active : RowOf[r] = RowOf[s] => r = s
  <2>1. IsFiniteSet(Active) /\ Active \subseteq Subs
    BY HandlerAssumption, FS_Subset DEF Active
  <2>2. \A s \in Subs : RowOf[s].sub = s
    BY DEF RowOf
  <2> QED
    BY <2>1, <2>2
<1>3. \A s \in Active : revenue[s] = mrr[RowOf[s]] /\ revenue[s] \in Int
  BY <1>2, PayingIs
<1>4. \A s \in Active : component[s] = usage[RowOf[s]] /\ component[s] \in Int
  BY <1>2, PayingIs, UsageType DEF LedgerInv, RedeliveryInv
<1>5. SumOver(mrr, P) = SumOver(revenue, Active)
  <2> HIDE DEF mrr, revenue
  <2> QED
    BY <1>2, <1>3, SumImage
<1>6. SumOver(usage, P) = SumOver(component, Active)
  <2> HIDE DEF usage, component
  <2> QED
    BY <1>2, <1>4, SumImage
<1>7. Query!MapThenSumSet(Query!MrrOf, P) = SumOver(mrr, P)
  BY MrrSumIs
<1>8. Query!MapThenSumSet(LAMBDA q : q.usage, P) = SumOver(usage, P)
  BY UsageColumnIs
<1>9. MapThenSumSet(UsageMrr, Active) = SumOver(component, Active)
  BY UsageSumIs
<1> QED
  BY <1>1, <1>5, <1>6, <1>7, <1>8, <1>9, Zenon

\* While all histories are regular, both ways of asking for the MRR agree.
LEMMA QueriesDoAgree == ASSUME LedgerInv, AllRegular PROVE QueriesAgree
<1> DEFINE L == tables.movements
           Q == SnapshotRows
           now == Query!GetMrr("components", L, Q, Query!Now)
           total(at) == Query!GetMrr("mrr", L, Q, Query!AtDay(at))
           payers == {CustomerOf[s] : s \in {r \in Subs : Revenue(r) > 0}}
           mrr == Query!MapThenSumSet(Query!MrrOf, Query!Paying(Q))
<1>1. clock # NoRow
  BY HandlerAssumption, RowAssumption DEF LedgerInv, RedeliveryInv, MrrTypeOK
<1>2. /\ now.mrr = mrr /\ total(NoRow) = mrr
      /\ now.usage = Query!MapThenSumSet(LAMBDA q : q.usage, Query!Paying(Q))
      /\ total(clock) = Query!Total(Query!Through(L, clock))
      /\ Query!CurrentArpu(Q) =
           IF Query!Paying(Q) = {} THEN NoRow
           ELSE [mrr |-> mrr, of |-> Cardinality({q.cust : q \in Query!Paying(Q)})]
  <2>1. now.mrr = mrr
    BY <1>1, AnswersAre, Zenon
  <2>2. total(NoRow) = mrr
    BY <1>1, AnswersAre, Zenon
  <2>3. now.usage = Query!MapThenSumSet(LAMBDA q : q.usage, Query!Paying(Q))
    BY <1>1, AnswersAre, Zenon
  <2>4. total(clock) = Query!Total(Query!Through(L, clock))
    BY <1>1, AnswersAre, Zenon
  <2>5. Query!CurrentArpu(Q) =
          IF Query!Paying(Q) = {} THEN NoRow
          ELSE [mrr |-> mrr, of |-> Cardinality({q.cust : q \in Query!Paying(Q)})]
    BY <1>1, AnswersAre, Zenon
  <2> QED
    BY <2>1, <2>2, <2>3, <2>4, <2>5, Zenon
<1>3. mrr = SumOver([s \in Subs |-> Revenue(s)], Active) /\ total(clock) = mrr
  BY <1>2, PayingSums, LedgerOfAll, Zenon
<1>4. now.usage = MapThenSumSet(UsageMrr, {s \in Subs : life[s] = "active"})
  BY <1>2, PayingSums, Zenon DEF Active
<1>5. payers = {q.cust : q \in Query!Paying(Q)} /\ (payers = {} <=> Query!Paying(Q) = {})
  <2>1. {r \in Subs : Revenue(r) > 0} = Active
    <3>1. \A s \in Active : s \in Subs /\ Revenue(s) > 0
      BY PayingIs DEF Active
    <3>2. \A s \in Subs \ Active : ~(Revenue(s) > 0)
      BY PayingIs
    <3> QED
      BY <3>1, <3>2
  <2>2. \A s \in Active : RowOf[s].cust = CustomerOf[s]
    BY DEF RowOf, Active
  <2>3. Query!Paying(Q) = {RowOf[s] : s \in Active}
    BY PayingIs
  <2>4. payers = {CustomerOf[s] : s \in Active}
    BY <2>1
  <2> DEFINE P == Query!Paying(Q)
             C == {q.cust : q \in P}
  <2> HIDE DEF payers, Q, P
  <2>5. \A c : c \in C <=> c \in payers
    <3>1. \A q : q \in P <=> \E s \in Active : q = RowOf[s]
      BY <2>3 DEF P
    <3>2. \A c : c \in payers <=> \E s \in Active : c = CustomerOf[s]
      BY <2>4
    <3>3. \A c : c \in C <=> \E q \in P : c = q.cust
      OBVIOUS
    <3> QED
      BY <2>2, <3>1, <3>2, <3>3
  <2>6. C = {} <=> P = {}
    BY Zenon
  <2> HIDE DEF C
  <2>7. C = payers
    BY <2>5
  <2> QED
    BY <2>6, <2>7, Zenon DEF C, P
<1>6. Query!CurrentArpu(Q) =
        IF payers = {} THEN NoRow ELSE [mrr |-> now.mrr, of |-> Cardinality(payers)]
  <2> HIDE DEF Q, payers, now, mrr
  <2> QED
    BY <1>2, <1>5, Zenon
<1> HIDE DEF L, Q, mrr
<1>7. now.mrr = total(NoRow) /\ now.mrr = total(clock)
  BY <1>2, <1>3, Zenon
<1> QED
  BY <1>4, <1>6, <1>7, Zenon DEF QueriesAgree, L, Q

\* At rate 1 the movements of a subscription with a regular history add up to
\* what it is worth, whatever is resent, dead-lettered and replayed meanwhile;
\* and while all histories are regular and nobody waits to be active, the
\* queries of the present, which read the snapshot, answer what the queries of
\* a day do, which sum the ledger.
THEOREM LedgerMatchesRevenue == AtRateOne /\ Spec => []LedgerMatches
<1> SUFFICES ASSUME AtRateOne PROVE Spec => []LedgerMatches
  OBVIOUS
<1>1. ASSUME LedgerInv PROVE LedgerMatches
  <2>1. \A s : Ledger(s) = LedgerIn(tables.movements, s)
    BY DEF Ledger, LedgerIn
  <2>2. LedgerAddsUp
    BY <1>1, <2>1 DEF LedgerAddsUp, LedgerInv, Sound
  <2>3. odd = {} /\ (\A s \in Subs : life[s] # "idle") => QueriesAgree
    BY <1>1, QueriesDoAgree DEF AllRegular
  <2> QED
    BY <2>2, <2>3 DEF LedgerMatches
<1>2. Spec => []LedgerInv
  BY MrrLedgerInductive
<1> QED
  BY <1>1, <1>2, PTL

-----------------------------------------------------------------------------
(* Billed usage: the mean of the latest months *)

Present(bucket) == {m \in Months : bucket[m] # NoRow}
Above(P, m) == {n \in P : n > m}
Latest(P) == {m \in P : Cardinality(Above(P, m)) < Window}
MeanOf(bucket) ==
  SumOver(bucket, Latest(Present(bucket))) \div Cardinality(Latest(Present(bucket)))

\* TrailingMean is a function of the subscription's buckets.
LEMMA MeanIs == ASSUME NEW t, NEW s PROVE TrailingMean(t, s) = MeanOf(t.buckets[s])
<1> DEFINE w == t.buckets[s]
<1>1. Latest(Present(w)) =
        {m \in Present(w) : Cardinality({n \in Present(w) : n > m}) < Window}
  BY DEF Latest, Above
<1>2. Present(w) = {m \in Months : t.buckets[s][m] # NoRow}
  BY DEF Present
<1>3. TrailingMean(t, s) =
        MapThenSumSet(LAMBDA m : t.buckets[s][m], Latest(Present(w)))
          \div Cardinality(Latest(Present(w)))
  BY <1>1, <1>2, Zenon DEF TrailingMean
<1>4. MapThenSumSet(LAMBDA m : t.buckets[s][m], Latest(Present(w)))
        = SumOver(w, Latest(Present(w)))
  BY Zenon DEF MapThenSumSet, MapThenFoldSet, SumOver, Iterates, Chosen, w
<1> QED
  BY <1>3, <1>4, Zenon DEF MeanOf, w

\* Of at least Window months, Window are the latest.
LEMMA LatestCount ==
  ASSUME NEW S, IsFiniteSet(S), S \subseteq Int, Cardinality(S) >= Window
  PROVE  Cardinality(Latest(S)) = Window
<1> DEFINE Q == {T \in SUBSET S : Cardinality(T) >= Window => Cardinality(Latest(T)) = Window}
<1>1. ASSUME NEW T \in SUBSET S, \A U \in SUBSET T : U # T => U \in Q
      PROVE  T \in Q
  <2>1. IsFiniteSet(T) /\ T \subseteq Int /\ Window \in Nat \ {0}
    BY FS_Subset, HandlerAssumption
  <2>2. SUFFICES ASSUME Cardinality(T) >= Window PROVE Cardinality(Latest(T)) = Window
    OBVIOUS
  <2>3. T # {} /\ Cardinality(T) \in Nat
    BY <2>1, <2>2, FS_CardinalityType, FS_EmptySet
  <2>4. PICK l \in T : \A n \in T : l <= n
    <3> HIDE DEF Q
    <3> QED
      BY <2>1, <2>3, Least
  <2> DEFINE U == T \ {l}
  <2>5. IsFiniteSet(U) /\ Cardinality(U) = Cardinality(T) - 1 /\ U \in Q
    BY <1>1, <2>1, <2>4, FS_RemoveElement
  <2>6. ASSUME NEW m \in U PROVE Above(T, m) = Above(U, m)
    <3>1. m \in Int /\ l \in Int /\ l <= m
      BY <2>1, <2>4
    <3> QED
      BY <3>1 DEF Above
  <2>7. Above(T, l) = U
    <3>1. \A n \in T : n \in Int /\ l \in Int /\ l <= n
      BY <2>1, <2>4
    <3>2. \A n \in T : n > l <=> n # l
      BY <3>1
    <3> QED
      BY <3>2 DEF Above
  <2>8. CASE Cardinality(U) >= Window
    <3>1. ~(Cardinality(U) < Window)
      BY <2>1, <2>3, <2>5, <2>8
    <3>2. Latest(T) = Latest(U)
      BY <2>4, <2>6, <2>7, <3>1 DEF Latest
    <3> QED
      BY <2>5, <2>8, <3>2
  <2>9. CASE ~(Cardinality(U) >= Window)
    <3>1. Cardinality(T) = Window /\ Cardinality(U) < Window
      BY <2>1, <2>2, <2>3, <2>5, <2>9
    <3>2. ASSUME NEW m \in T PROVE Cardinality(Above(T, m)) < Window
      <4>1. CASE m = l
        BY <2>7, <3>1, <4>1
      <4>2. CASE m # l
        <5>1. Above(T, m) \subseteq U
          BY <2>6, <4>2 DEF Above
        <5>2. Cardinality(Above(T, m)) <= Cardinality(U) /\ IsFiniteSet(Above(T, m))
          <6> HIDE DEF U
          <6> QED
            BY <2>5, <5>1, FS_Subset
        <5>3. Cardinality(Above(T, m)) \in Nat
          BY <5>2, FS_CardinalityType
        <5> QED
          BY <2>1, <2>3, <2>5, <3>1, <5>2, <5>3
      <4> QED
        BY <4>1, <4>2
    <3>3. Latest(T) = T
      BY <3>2 DEF Latest
    <3> QED
      BY <3>1, <3>3
  <2> QED
    BY <2>8, <2>9
<1>2. S \in Q
  <2> HIDE DEF Q
  <2> QED
    BY <1>1, StrongInduction
<1> QED
  BY <1>2

\* Some month is among the latest, and if one is not, then Window months are,
\* all of them after it.
LEMMA LatestAre ==
  ASSUME NEW S, IsFiniteSet(S), S \subseteq Int, S # {}
  PROVE  /\ Latest(S) # {} /\ Latest(S) \subseteq S
         /\ \A m \in S \ Latest(S) :
              Cardinality(Latest(S)) = Window /\ \A n \in Latest(S) : m < n
<1>1. Latest(S) \subseteq S
  BY DEF Latest
<1>2. PICK g \in S : \A n \in S : n <= g
  BY Greatest
<1>3. g \in Latest(S)
  <2>1. \A n \in S : n \in Int /\ g \in Int /\ n <= g
    BY <1>2
  <2>2. \A n \in S : ~(n > g)
    BY <2>1
  <2>3. Above(S, g) = {}
    BY <2>2 DEF Above
  <2>4. Cardinality(Above(S, g)) < Window
    BY <2>3, FS_EmptySet, HandlerAssumption
  <2> QED
    BY <2>4 DEF Latest
<1>4. ASSUME NEW m \in S \ Latest(S)
      PROVE  Cardinality(Latest(S)) = Window /\ \A n \in Latest(S) : m < n
  <2>1. \A n \in S : /\ IsFiniteSet(Above(S, n)) /\ Cardinality(Above(S, n)) \in Nat
                     /\ Cardinality(Above(S, n)) <= Cardinality(S)
    BY FS_Subset, FS_CardinalityType DEF Above
  <2>2. Cardinality(Above(S, m)) >= Window /\ Window \in Nat
    <3>1. ~(Cardinality(Above(S, m)) < Window) /\ Window \in Nat
      BY HandlerAssumption DEF Latest
    <3> QED
      BY <2>1, <3>1
  <2>3. Cardinality(S) \in Nat
    BY FS_CardinalityType
  <2>4. Cardinality(S) >= Window
    BY <2>1, <2>2, <2>3
  <2>5. ASSUME NEW n \in Latest(S), ~(m < n) PROVE FALSE
    <3>1. n \in S /\ n \in Int /\ m \in Int /\ n <= m
      <4>1. n \in S /\ n \in Int /\ m \in Int
        BY <1>1
      <4> QED
        BY <2>5, <4>1
    <3>2. Above(S, m) \subseteq Above(S, n)
      <4>1. \A x \in S : x \in Int /\ (x > m => x > n)
        BY <3>1
      <4> QED
        BY <4>1 DEF Above
    <3>3. Cardinality(Above(S, m)) <= Cardinality(Above(S, n))
      <4>1. IsFiniteSet(Above(S, n)) /\ Above(S, m) \in SUBSET Above(S, n)
        BY <2>1, <3>1, <3>2
      <4> QED
        BY <4>1, FS_Subset
    <3>4. Cardinality(Above(S, n)) < Window
      BY DEF Latest
    <3> QED
      BY <2>1, <2>2, <3>1, <3>3, <3>4
  <2> QED
    BY <2>4, <2>5, LatestCount
<1> QED
  BY <1>1, <1>3, <1>4

Bought(s, m) == {i \in paid : SubOf[i] = s /\ MonthOf[i] = m}
LtvRow(i) == [id |-> <<"invoice.paid", i>>, cust |-> CustomerOf[SubOf[i]],
              amount |-> UsageOf[i]]

\* The buckets of a subscription with a regular history hold what was billed,
\* and its usage component, if there is one, is their mean.
BilledSound(s) ==
  /\ \A m \in Months :
       tables.buckets[s][m] = IF Bought(s, m) = {} THEN NoRow
                              ELSE SumOver(UsageOf, Bought(s, m))
  /\ UsageMrr(s) # 0 =>
       /\ Present(tables.buckets[s]) # {}
       /\ UsageMrr(s) = MeanOf(tables.buckets[s])
\* The LTV metric has each paid invoice.
LtvIs == ltv = {LtvRow(i) : i \in paid}

BilledInv == LedgerInv /\ LtvIs /\ \A s \in Subs \ odd : BilledSound(s)

\* A subscription for which nothing more is billed.
LEMMA BilledKept ==
  ASSUME NEW s, BilledSound(s), tables'.buckets[s] = tables.buckets[s],
         UsageMrr(s)' \in {0, UsageMrr(s)},
         \A i : SubOf[i] = s => (i \in paid' <=> i \in paid)
  PROVE  BilledSound(s)'
<1>1. \A m : Bought(s, m)' = Bought(s, m)
  BY DEF Bought
<1>2. tables'.buckets[s] = tables.buckets[s]
  OBVIOUS
<1> QED
  BY <1>1, <1>2 DEF BilledSound

\* An event bills nothing to other subscriptions than its own, and the events
\* of a subscription's life bill nothing.
LEMMA BillsItsOwn ==
  ASSUME MrrTypeOK, NEW e \in Event, HandleBoth(e), NEW s \in Subs,
         s # Subject(e) \/ e.type # "invoice.paid"
  PROVE  /\ tables'.buckets[s] = tables.buckets[s]
         /\ UsageMrr(s)' \in {0, UsageMrr(s)}
<1>1. tables' = Handle(tables, e, stored) /\ tables \in Tables
  BY DEF HandleBoth, MrrTypeOK
<1>2. tables.snapshot \in [Subs -> Row \union {NoRow}]
  BY <1>1 DEF Tables
<1>3. CASE s # Subject(e)
  <2>1. tables'.snapshot[s] = tables.snapshot[s]
    BY <1>3, Confined
  <2>2. tables'.buckets[s] = tables.buckets[s]
    <3>1. CASE e.type # "invoice.paid"
      BY <1>1, <3>1, EventCases, LifeIs DEF Follows
    <3>2. CASE e.type = "invoice.paid"
      <4>1. e \in InvoiceEvent /\ s # SubOf[e.obj]
        BY <1>3, <3>2, EventCases DEF Subject
      <4>2. Bills(tables, e, tables')
        BY <1>1, <4>1, PaidIs
      <4> QED
        BY <4>1, <4>2 DEF Bills
    <3> QED
      BY <3>1, <3>2
  <2>3. UsageMrr(s)' = UsageMrr(s)
    BY <2>1 DEF UsageMrr
  <2> QED
    BY <2>2, <2>3
<1>4. CASE s = Subject(e) /\ e.type # "invoice.paid"
  <2>1. e \in SubEvent /\ e.obj = s
    BY <1>4, EventCases DEF Subject
  <2>2. Follows(tables, e, tables')
    BY <1>1, <2>1, LifeIs
  <2>3. tables'.buckets = tables.buckets /\ tables'.snapshot[s] = After(tables, e)
    BY <1>2, <2>1, <2>2 DEF Follows
  <2>4. After(tables, e).usage \in {0, UsageMrr(s)}
    BY <2>1 DEF After, UsageIn, UsageMrr
  <2>5. UsageMrr(s)' \in {0, UsageMrr(s)}
    BY <2>3, <2>4 DEF UsageMrr
  <2> QED
    BY <2>3, <2>5
<1> QED
  BY <1>3, <1>4

\* The LTV metric takes a paid invoice it has no more.
LEMMA LtvOnce ==
  ASSUME LtvIs, NEW e, HandleBoth(e), e.type = "invoice.paid" => e.obj \in paid
  PROVE  ltv' = ltv
<1>1. CASE e.type # "invoice.paid"
  BY <1>1 DEF HandleBoth, HandleLtv
<1>2. CASE e.type = "invoice.paid"
  <2>1. LtvRow(e.obj) \in ltv /\ LtvRow(e.obj).id = Id(e)
    BY <1>2 DEF LtvIs, LtvRow, Id
  <2> QED
    BY <2>1 DEF HandleBoth, HandleLtv
<1> QED
  BY <1>1, <1>2

\* A paid invoice whose lines are stored, of a subscription with a snapshot.
LEMMA PaidUsage ==
  ASSUME NEW t \in Tables, NEW e \in InvoiceEvent, NEW lines, e.obj \in lines,
         NEW s, s = SubOf[e.obj], t.snapshot[s] # NoRow
  PROVE  LET u == Handle(t, e, lines)
         IN  /\ u.buckets[s] = [t.buckets[s] EXCEPT ![MonthOf[e.obj]] =
                                  (IF @ = NoRow THEN 0 ELSE @) + UsageOf[e.obj]]
             /\ UsageIn(u, s) = MeanOf(u.buckets[s])
<1> DEFINE u == Handle(t, e, lines)
           b == AddToBucket(t, e.obj)
           new == TrailingMean(b, s)
           delta == new - t.snapshot[s].usage
           line == [t.buckets[s] EXCEPT ![MonthOf[e.obj]] =
                      (IF @ = NoRow THEN 0 ELSE @) + UsageOf[e.obj]]
<1>1. e.type = "invoice.paid" /\ e.obj \in Invoices /\ s \in Subs /\ e \in Event
  BY HandlerAssumption DEF InvoiceEvent, Event
<1>2. u = ApplyTrailingAverage(b, e, s)
  BY <1>1 DEF Handle, InvoicePaid
<1>3. /\ b \in Tables /\ b.snapshot = t.snapshot /\ b.buckets[s] = line
      /\ \E m \in Months : b.buckets[s][m] # NoRow
  BY <1>1, BucketIs
<1>4. new \in Nat /\ new = MeanOf(b.buckets[s])
  BY <1>1, <1>3, MeanType, MeanIs
<1>5. t.snapshot[s] \in Row
  BY <1>1 DEF Tables
<1> HIDE DEF b, new, line
<1>6. CASE delta = 0
  <2>1. u = b
    BY <1>2, <1>3, <1>6 DEF ApplyTrailingAverage, new
  <2>2. t.snapshot[s].usage = new
    BY <1>4, <1>5, <1>6 DEF Row
  <2> HIDE DEF u
  <2>3. UsageIn(u, s) = new
    BY <1>3, <2>1, <2>2 DEF UsageIn
  <2> QED
    BY <1>3, <1>4, <2>1, <2>3 DEF u, line
<1>7. CASE delta # 0
  <2> DEFINE c == [b EXCEPT !.snapshot[s].usage = new]
             kind == IF delta > 0 THEN "expansion" ELSE "contraction"
  <2>1. u = AppendMovement(c, e, TRUE, kind, s, delta)
    BY <1>2, <1>3, <1>7 DEF ApplyTrailingAverage, new
  <2>2. c.buckets = b.buckets /\ c.snapshot[s].usage = new /\ c.snapshot[s] # NoRow
    <3>1. c.buckets = b.buckets
      BY <1>3 DEF Tables
    <3>2. c.snapshot[s] = [t.snapshot[s] EXCEPT !.usage = new]
      BY <1>1, <1>3 DEF Tables
    <3>3. [t.snapshot[s] EXCEPT !.usage = new] \in Row
      BY <1>4, <1>5 DEF Row
    <3>4. [t.snapshot[s] EXCEPT !.usage = new].usage = new
      BY <1>5 DEF Row
    <3> QED
      BY <3>1, <3>2, <3>3, <3>4, RowAssumption
  <2> HIDE DEF u, kind
  <2>3. u.buckets = c.buckets /\ u.snapshot = c.snapshot
    <3>1. c = [snapshot |-> c.snapshot, movements |-> c.movements, buckets |-> c.buckets]
      <4>1. c = [b EXCEPT !.snapshot = [b.snapshot EXCEPT ![s] =
                                          [b.snapshot[s] EXCEPT !.usage = new]]]
        OBVIOUS
      <4> HIDE DEF c
      <4> QED
        BY <1>3, <4>1 DEF Tables
    <3> HIDE DEF c
    <3>2. u = c \/ \E M : u = [c EXCEPT !.movements = M]
      BY <2>1, Zenon DEF AppendMovement
    <3> QED
      BY <3>1, <3>2
  <2> HIDE DEF c
  <2>4. UsageIn(u, s) = new
    BY <2>2, <2>3 DEF UsageIn
  <2> QED
    BY <1>3, <1>4, <2>2, <2>3, <2>4 DEF u, line
<1> QED
  BY <1>6, <1>7

\* An invoice paid in a regular history is in the bucket of its month.
LEMMA PayBilled ==
  ASSUME BilledInv, NEW i \in Invoices, PayInvoice(i), NEW s, s = SubOf[i],
         life[s] = "active", i \in stored, s \notin odd
  PROVE  BilledSound(s)'
<1> DEFINE e == EmittedPaid(i)
           month == MonthOf[i]
           old == tables.buckets[s]
           new == tables'.buckets[s]
<1>1. /\ MrrTypeOK /\ tables \in Tables /\ s \in Subs /\ Sound(s) /\ BilledSound(s)
      /\ month \in Months /\ UsageOf \in [Invoices -> Nat] /\ IsFiniteSet(Invoices)
  <2>1. LedgerInv /\ s \in Subs
    BY HandlerAssumption DEF BilledInv
  <2> QED
    BY <2>1, HandlerAssumption DEF BilledInv, LedgerInv, RedeliveryInv, MrrTypeOK, Months
<1>2. /\ e \in InvoiceEvent /\ e.obj = i /\ tables' = Handle(tables, e, stored)
      /\ paid' = paid \union {i} /\ i \notin paid
  BY <1>1, PaidType DEF PayInvoice, HandleBoth, EmittedPaid
<1>3. tables.snapshot[s] # NoRow
  BY <1>1 DEF Sound
<1>4. /\ new = [old EXCEPT ![month] = (IF @ = NoRow THEN 0 ELSE @) + UsageOf[i]]
      /\ UsageIn(tables', s) = MeanOf(new)
  <2> HIDE DEF e
  <2> QED
    BY <1>1, <1>2, <1>3, PaidUsage
<1>5. old \in [Months -> Nat \union {NoRow}]
  BY <1>1 DEF Tables
<1>6. ASSUME NEW m \in Months
      PROVE  new[m] = IF Bought(s, m)' = {} THEN NoRow ELSE SumOver(UsageOf, Bought(s, m)')
  <2>1. CASE m # month
    <3>1. Bought(s, m)' = Bought(s, m)
      BY <1>2, <2>1 DEF Bought
    <3>2. new[m] = old[m]
      BY <1>4, <1>5, <2>1
    <3> QED
      BY <1>1, <3>1, <3>2 DEF BilledSound
  <2>2. CASE m = month
    <3> DEFINE B == Bought(s, month)
    <3>1. Bought(s, m)' = B \union {i} /\ i \notin B
      BY <1>2, <2>2 DEF Bought
    <3>2. B \in SUBSET Invoices
      BY <1>1 DEF Bought, MrrTypeOK
    <3>3. old[month] = IF B = {} THEN NoRow ELSE SumOver(UsageOf, B)
      BY <1>1 DEF BilledSound
    <3> HIDE DEF B
    <3>4. Weighs(UsageOf, B) /\ UsageOf[i] \in Int /\ UsageOf[i] \in Nat
      BY <1>1, <3>2, FS_Subset DEF Weighs
    <3>5. SumOver(UsageOf, B \union {i}) = UsageOf[i] + SumOver(UsageOf, B)
      BY <3>1, <3>4, SumWith
    <3>6. SumOver(UsageOf, B) = IF old[month] = NoRow THEN 0 ELSE old[month]
      <4>1. CASE B = {}
        BY <3>3, <4>1, SumEmpty
      <4>2. CASE B # {}
        <5>1. SumOver(UsageOf, B) \in Nat
          BY <3>2, <3>4, <1>1, SumNat DEF Weighs
        <5> QED
          BY <3>3, <4>2, <5>1, RowAssumption
      <4> QED
        BY <4>1, <4>2
    <3>7. SumOver(UsageOf, B) \in Int
      BY <3>4, SumType
    <3>8. new[m] = SumOver(UsageOf, B) + UsageOf[i]
      BY <1>1, <1>4, <1>5, <2>2, <3>6
    <3> QED
      BY <3>1, <3>4, <3>5, <3>7, <3>8
  <2> QED
    BY <2>1, <2>2
<1>7. Present(new) # {}
  <2>1. UsageOf[i] \in Nat /\ old[month] \in Nat \union {NoRow}
    BY <1>1, <1>5
  <2>2. new[month] \in Nat
    BY <1>1, <1>4, <1>5, <2>1
  <2> HIDE DEF new
  <2>3. new[month] # NoRow
    BY <2>2, RowAssumption
  <2> QED
    BY <1>1, <2>3 DEF Present
<1>8. UsageMrr(s)' = MeanOf(new)
  BY <1>4 DEF UsageMrr, UsageIn
<1> QED
  BY <1>6, <1>7, <1>8 DEF BilledSound

\* The invariant of what is billed holds at first ...
LEMMA BilledInit == Init => BilledInv
<1> SUFFICES ASSUME Init PROVE BilledInv
  OBVIOUS
<1>1. ASSUME NEW s \in Subs PROVE BilledSound(s)
  <2>1. /\ UsageMrr(s) = 0
        /\ \A m \in Months : tables.buckets[s][m] = NoRow /\ Bought(s, m) = {}
    BY DEF Init, Empty, UsageMrr, Bought
  <2> QED
    BY <2>1 DEF BilledSound
<1>2. LtvIs
  BY DEF Init, LtvIs
<1> QED
  BY <1>1, <1>2, LedgerInit DEF BilledInv

\* ... and is kept by every step.
LEMMA BilledStep ==
  ASSUME AtRateOne, BilledInv, [Next]_vars PROVE BilledInv'
<1>0. LedgerInv' /\ LedgerInv /\ RedeliveryInv /\ MrrTypeOK /\ Marked /\ LtvIs
  BY LedgerStep DEF BilledInv, LedgerInv, RedeliveryInv
<1>1. ASSUME NEW e \in Event, HandleBoth(e), odd \subseteq odd', UNCHANGED paid,
             e.type = "invoice.paid" => e.obj \in paid /\ Subject(e) \in odd'
      PROVE  BilledInv'
  <2>1. ASSUME NEW s \in Subs \ odd' PROVE BilledSound(s)'
    <3>1. BilledSound(s) /\ s \in Subs /\ (s # Subject(e) \/ e.type # "invoice.paid")
      BY <1>1, <2>1 DEF BilledInv
    <3>2. tables'.buckets[s] = tables.buckets[s] /\ UsageMrr(s)' \in {0, UsageMrr(s)}
      BY <1>0, <1>1, <3>1, BillsItsOwn
    <3> QED
      BY <1>1, <3>1, <3>2, BilledKept
  <2>2. LtvIs'
    BY <1>0, <1>1, LtvOnce DEF LtvIs
  <2> QED
    BY <1>0, <2>1, <2>2 DEF BilledInv
<1>2. ASSUME UNCHANGED <<tables, ltv, paid>>, odd \subseteq odd' PROVE BilledInv'
  <2>1. ASSUME NEW s \in Subs \ odd' PROVE BilledSound(s)'
    <3>1. BilledSound(s) /\ UsageMrr(s)' = UsageMrr(s)
      BY <1>2, <2>1 DEF BilledInv, UsageMrr
    <3> QED
      BY <1>2, <3>1, BilledKept
  <2>2. LtvIs'
    BY <1>0, <1>2 DEF LtvIs
  <2> QED
    BY <1>0, <2>1, <2>2 DEF BilledInv
<1>3. ASSUME NEW s \in Subs, NEW type \in LifeTypes, NEW to \in Lives, NEW p \in Prices,
             Deliver(s, type, to, p)
      PROVE  BilledInv'
  <2> DEFINE e == Emitted(s, type, p)
  <2>1. HandleBoth(e) /\ odd \subseteq odd' /\ UNCHANGED paid
    BY <1>3 DEF Deliver, Emit
  <2>2. e \in Event /\ e.type # "invoice.paid"
    BY <1>0, <1>3, EmittedType DEF Deliver, Emit, Emitted, LifeTypes
  <2> HIDE DEF e
  <2> QED
    BY <1>1, <2>1, <2>2
<1>4. ASSUME NEW s \in Subs, NEW type \in LifeTypes, NEW to \in Lives, NEW p \in Prices,
             Park(s, type, to, p)
      PROVE  BilledInv'
  BY <1>2, <1>4 DEF Park, Emit
<1>5. ASSUME NEW i \in Invoices, PayInvoice(i) PROVE BilledInv'
  <2> DEFINE e == EmittedPaid(i)
             s == SubOf[i]
  <2>1. /\ HandleBoth(e) /\ paid' = paid \union {i} /\ i \notin paid
        /\ odd' = odd \union (IF life[s] = "active" /\ i \in stored THEN {} ELSE {s})
    BY <1>5 DEF PayInvoice
  <2>2. /\ e \in Event /\ Subject(e) = s /\ e.type = "invoice.paid"
        /\ e.obj = i /\ e.cust = CustomerOf[s]
    BY <1>0, <1>5, PaidType DEF PayInvoice, EmittedPaid, Subject
  <2>3. s \notin odd' => BilledSound(s)'
    BY <1>5, <2>1, PayBilled
  <2> HIDE DEF e
  <2>4. ASSUME NEW r \in Subs \ odd', r # s PROVE BilledSound(r)'
    <3>1. BilledSound(r) /\ r # Subject(e)
      BY <2>1, <2>2, <2>4 DEF BilledInv
    <3>2. tables'.buckets[r] = tables.buckets[r] /\ UsageMrr(r)' \in {0, UsageMrr(r)}
      BY <1>0, <2>1, <2>2, <3>1, BillsItsOwn
    <3>3. \A j : SubOf[j] = r => (j \in paid' <=> j \in paid)
      BY <2>1, <2>4
    <3> QED
      BY <3>1, <3>2, <3>3, BilledKept
  <2>5. LtvIs'
    <3>1. \A x \in ltv : x.id # Id(e)
      BY <1>0, <2>1, <2>2 DEF LtvIs, LtvRow, Id
    <3>2. UsageOf[i] \in Int
      BY HandlerAssumption
    <3>3. Base(e, UsageOf[i]) = UsageOf[i]
      BY <2>2, <3>2, BaseIsAmount
    <3>4. ltv' = ltv \union {LtvRow(i)}
      BY <2>1, <2>2, <3>1, <3>3 DEF HandleBoth, HandleLtv, LtvRow, Id
    <3> QED
      BY <1>0, <2>1, <3>4 DEF LtvIs
  <2> QED
    BY <1>0, <2>3, <2>4, <2>5 DEF BilledInv
<1>6. ASSUME NEW i \in Invoices, StoreLines(i) PROVE BilledInv'
  BY <1>2, <1>6 DEF StoreLines
<1>7. CASE Redeliver
  <2>1. last \in Event /\ HandleBoth(last) /\ odd \subseteq odd' /\ UNCHANGED paid
    BY <1>0, <1>7 DEF Redeliver, MrrTypeOK
  <2>2. ASSUME last.type = "invoice.paid"
        PROVE  last.obj \in paid /\ Subject(last) \in odd'
    <3>1. last.obj \in paid
      BY <1>0, <1>7, <2>2 DEF Redeliver, Marked
    <3>2. last.obj \in Invoices
      BY <2>1, <2>2, EventCases
    <3> QED
      BY <1>7, <2>2, <3>1, <3>2 DEF Redeliver, Disturbed, Subject
  <2> QED
    BY <1>1, <2>1, <2>2
<1>8. ASSUME NEW e \in sent, Replay(e) PROVE BilledInv'
  <2> DEFINE f == [e EXCEPT !.cust = NoCustomer]
  <2>1. e \in SubEvent /\ HandleBoth(f) /\ UNCHANGED <<odd, paid>>
    BY <1>0, <1>8 DEF Replay, MrrTypeOK
  <2>2. f \in Event /\ f.type # "invoice.paid"
    BY <2>1 DEF Event, SubEvent, AllCustomers, LifeTypes
  <2> HIDE DEF f
  <2> QED
    BY <1>1, <2>1, <2>2
<1>9. ASSUME NEW e \in sent, Resend(e) PROVE BilledInv'
  <2>1. e \in Event /\ HandleBoth(e) /\ odd' = odd \union Disturbed(e) /\ UNCHANGED paid
    BY <1>0, <1>9 DEF Resend, MrrTypeOK
  <2>2. ASSUME e.type = "invoice.paid" PROVE e.obj \in paid /\ Subject(e) \in odd'
    <3>1. e.obj \in paid /\ e.obj \in Invoices
      BY <1>0, <2>1, <2>2, EventCases DEF Marked
    <3> QED
      BY <2>1, <2>2, <3>1 DEF Disturbed, Subject
  <2> QED
    BY <1>1, <2>1, <2>2
<1>10. CASE UNCHANGED vars
  BY <1>2, <1>10 DEF vars
<1> QED
  BY <1>3, <1>4, <1>5, <1>6, <1>7, <1>8, <1>9, <1>10 DEF Next

\* The buckets of a regular history hold what its invoices billed for usage, the
\* snapshot's usage component is their mean, and the LTV metric has each paid
\* invoice once (usage.py, ltv/metric.py), whatever is resent and repeated.
THEOREM BilledInductive == AtRateOne /\ Spec => []BilledInv
<1> SUFFICES ASSUME AtRateOne PROVE Spec => []BilledInv
  OBVIOUS
<1>1. BilledInv /\ [Next]_vars => BilledInv'
  BY BilledStep
<1> QED
  BY <1>1, BilledInit, PTL DEF Spec

\* The months of a subscription's buckets are those it was billed in.
LEMMA PresentIs ==
  ASSUME BilledInv, NEW s \in Subs \ odd
  PROVE  /\ Present(tables.buckets[s]) = {MonthOf[i] : i \in {j \in paid : SubOf[j] = s}}
         /\ \A m \in Months :
              /\ MonthlyUsage(s, m) = SumOver(UsageOf, Bought(s, m))
              /\ Bought(s, m) # {} => /\ tables.buckets[s][m] = MonthlyUsage(s, m)
                                      /\ MonthlyUsage(s, m) \in Nat
<1>1. BilledSound(s) /\ paid \subseteq Invoices
  BY DEF BilledInv, LedgerInv, RedeliveryInv, MrrTypeOK
<1>2. ASSUME NEW m \in Months
      PROVE  SumOver(UsageOf, Bought(s, m)) \in Nat
  <2>1. Bought(s, m) \in SUBSET Invoices
    BY <1>1 DEF Bought
  <2>2. IsFiniteSet(Bought(s, m)) /\ \A i \in Bought(s, m) : UsageOf[i] \in Nat
    BY <2>1, HandlerAssumption, FS_Subset
  <2> QED
    BY <2>2, SumNat
<1>3. \A m \in Months : tables.buckets[s][m] # NoRow <=> Bought(s, m) # {}
  BY <1>1, <1>2, RowAssumption DEF BilledSound
<1>4. Present(tables.buckets[s]) = {MonthOf[i] : i \in {j \in paid : SubOf[j] = s}}
  BY <1>1, <1>3 DEF Present, Bought, Months
<1>5. \A m : MonthlyUsage(s, m) = SumOver(UsageOf, Bought(s, m))
  BY Zenon DEF MonthlyUsage, Bought, MapThenSumSet, MapThenFoldSet, SumOver, Iterates, Chosen
<1> QED
  BY <1>1, <1>2, <1>4, <1>5 DEF BilledSound

\* The property's sum over months is a sum over a finite set.
LEMMA MonthsSumIs ==
  ASSUME NEW s, NEW P
  PROVE  MapThenSumSet(LAMBDA m : MonthlyUsage(s, m), P)
           = SumOver([m \in P |-> MonthlyUsage(s, m)], P)
<1> DEFINE w == [m \in P |-> MonthlyUsage(s, m)]
           Rec(h) == h = [T \in SUBSET P |-> IF T = {} THEN 0
                            ELSE MonthlyUsage(s, Chosen(T)) + h[T \ {Chosen(T)}]]
<1>1. MapThenSumSet(LAMBDA m : MonthlyUsage(s, m), P) = (CHOOSE h : Rec(h))[P]
  BY Zenon DEF MapThenSumSet, MapThenFoldSet, Chosen
<1>2. ASSUME NEW h PROVE Rec(h) <=> Iterates(h, w, P)
  <2>1. \A T \in SUBSET P : T # {} => w[Chosen(T)] = MonthlyUsage(s, Chosen(T))
    BY DEF Chosen
  <2> HIDE DEF w
  <2> QED
    BY <2>1 DEF Iterates
<1>3. (CHOOSE h : Rec(h)) = (CHOOSE h : Iterates(h, w, P))
  <2> HIDE DEF Rec, w
  <2> QED
    BY <1>2
<1> QED
  BY <1>1, <1>3 DEF SumOver

\* The usage component is the mean of the latest months that were billed.
LEMMA MeanIsBilled ==
  ASSUME BilledInv, NEW s \in Subs \ odd, UsageMrr(s) # 0
  PROVE  MeanOfBilled(s)
<1> DEFINE bucket == tables.buckets[s]
           P == Present(bucket)
           recent == Latest(P)
<1>1. P # {} /\ P \subseteq Months /\ UsageMrr(s) = MeanOf(bucket)
  BY DEF BilledInv, BilledSound, Present
<1>2. IsFiniteSet(P) /\ P \subseteq Int
  <2> HIDE DEF P
  <2>1. IsFiniteSet(P)
    BY <1>1, MonthsFinite, FS_Subset
  <2> QED
    BY <1>1, <2>1, MonthsFinite
<1>3. P = {MonthOf[i] : i \in {j \in paid : SubOf[j] = s}}
  BY PresentIs
<1>4. /\ recent # {} /\ recent \subseteq P
      /\ \A m \in P \ recent : Cardinality(recent) = Window /\ \A n \in recent : m < n
  <2> HIDE DEF P
  <2> QED
    BY <1>1, <1>2, LatestAre
<1>5. UsageMrr(s) = MapThenSumSet(LAMBDA m : MonthlyUsage(s, m), recent)
                      \div Cardinality(recent)
  <2> DEFINE w == [m \in recent |-> MonthlyUsage(s, m)]
  <2>1. \A m \in recent : bucket[m] = w[m] /\ w[m] \in Int
    <3>1. ASSUME NEW m \in recent PROVE bucket[m] = w[m] /\ w[m] \in Int
      <4>1. m \in Months /\ m \in P
        BY <1>1, <1>4
      <4>2. Bought(s, m) # {}
        BY <1>3, <4>1 DEF Bought
      <4> QED
        BY <4>1, <4>2, PresentIs
    <3> QED
      BY <3>1
  <2>2. IsFiniteSet(recent)
    <3> HIDE DEF P
    <3> QED
      BY <1>2, <1>4, FS_Subset
  <2>3. UsageMrr(s) = SumOver(bucket, recent) \div Cardinality(recent)
    BY <1>1 DEF MeanOf
  <2>4. MapThenSumSet(LAMBDA m : MonthlyUsage(s, m), recent) = SumOver(w, recent)
    BY MonthsSumIs
  <2> HIDE DEF w, recent, bucket
  <2>5. SumOver(bucket, recent) = SumOver(w, recent)
    BY <2>1, <2>2, SumSame
  <2> QED
    BY <2>3, <2>4, <2>5, Zenon
<1>6. \A i \in paid : SubOf[i] = s /\ MonthOf[i] \notin recent =>
         Cardinality(recent) = Window /\ \A m \in recent : MonthOf[i] < m
  BY <1>3, <1>4
<1>7. recent \in SUBSET {MonthOf[i] : i \in {j \in paid : SubOf[j] = s}}
  BY <1>3, <1>4
<1> HIDE DEF recent
<1> QED
  BY <1>4, <1>5, <1>6, <1>7, Zenon DEF MeanOfBilled

-----------------------------------------------------------------------------
(* The revenue from usage, while all histories are regular *)

Payer(i) == CustomerOf[SubOf[i]]
\* The paid invoices of months a..b and of customers C.
PaidBy(a, b, C) == {i \in paid : MonthOf[i] \in a..b /\ Payer(i) \in C}

\* What customers were billed, as a sum over their invoices.
LEMMA BilledIs ==
  ASSUME MrrTypeOK, NEW a, NEW b, NEW C, IsFiniteSet(C)
  PROVE  /\ \A c : BilledIn(a, b, c) = SumOver(UsageOf, PaidBy(a, b, {c}))
         /\ MapThenSumSet(LAMBDA c : BilledIn(a, b, c), C)
              = SumOver(UsageOf, PaidBy(a, b, C))
<1> DEFINE w == [c \in C |-> BilledIn(a, b, c)]
           S == PaidBy(a, b, C)
           key == [i \in S |-> Payer(i)]
           Rec(h) == h = [T \in SUBSET C |-> IF T = {} THEN 0
                            ELSE BilledIn(a, b, Chosen(T)) + h[T \ {Chosen(T)}]]
<1>1. MapThenSumSet(LAMBDA c : BilledIn(a, b, c), C) = (CHOOSE h : Rec(h))[C]
  BY Zenon DEF MapThenSumSet, MapThenFoldSet, Chosen
<1>2. ASSUME NEW h PROVE Rec(h) <=> Iterates(h, w, C)
  <2>1. \A T \in SUBSET C : T # {} => w[Chosen(T)] = BilledIn(a, b, Chosen(T))
    BY DEF Chosen
  <2> HIDE DEF w
  <2> QED
    BY <2>1 DEF Iterates
<1>3. (CHOOSE h : Rec(h)) = (CHOOSE h : Iterates(h, w, C))
  <2> HIDE DEF Rec, w
  <2> QED
    BY <1>2
<1>4. ASSUME NEW c PROVE BilledIn(a, b, c) = SumOver(UsageOf, PaidBy(a, b, {c}))
  <2>1. BilledIn(a, b, c) =
          SumOver(UsageOf, {i \in paid : MonthOf[i] \in a..b /\ CustomerOf[SubOf[i]] = c})
    BY Zenon DEF BilledIn, MapThenSumSet, MapThenFoldSet, SumOver, Iterates, Chosen
  <2>2. {i \in paid : MonthOf[i] \in a..b /\ CustomerOf[SubOf[i]] = c} = PaidBy(a, b, {c})
    BY DEF PaidBy, Payer
  <2> QED
    BY <2>1, <2>2
<1>5. SumOver(UsageOf, S) = SumOver(w, C)
  <2>1. Weighs(UsageOf, S)
    <3>1. S \in SUBSET Invoices
      BY DEF PaidBy, MrrTypeOK
    <3> QED
      BY <3>1, FS_Subset, HandlerAssumption DEF Weighs
  <2>2. key \in [S -> C]
    BY DEF PaidBy
  <2>3. \A c \in C : w[c] = SumOver(UsageOf, Group(S, key, c))
    <3>1. ASSUME NEW c \in C PROVE Group(S, key, c) = PaidBy(a, b, {c})
      BY DEF Group, PaidBy
    <3> QED
      BY <1>4, <3>1
  <2> HIDE DEF S, key, w
  <2> QED
    BY <2>1, <2>2, <2>3, SumParts
<1> QED
  BY <1>1, <1>3, <1>4, <1>5, Zenon DEF SumOver

\* The row an invoice's usage is in.
BucketRow(i) ==
  [cust |-> Payer(i), sub |-> SubOf[i], month |-> MonthOf[i],
   usage |-> tables.buckets[SubOf[i]][MonthOf[i]]]

\* The rows of the usage buckets are those of the paid invoices, and any of them
\* add up to what their invoices billed.
LEMMA RowsAreBilled ==
  ASSUME BilledInv, odd = {}
  PROVE  /\ UsageRows = {BucketRow(i) : i \in paid}
         /\ \A R \in SUBSET UsageRows :
              Query!MapThenSumSet(LAMBDA u : u.usage, R)
                = SumOver(UsageOf, {i \in paid : BucketRow(i) \in R})
<1>1. paid \subseteq Invoices /\ IsFiniteSet(paid)
  BY HandlerAssumption, FS_Subset DEF BilledInv, LedgerInv, RedeliveryInv, MrrTypeOK
<1>2. \A i \in paid : SubOf[i] \in Subs /\ MonthOf[i] \in Months /\ i \in Bought(SubOf[i], MonthOf[i])
  BY <1>1, HandlerAssumption DEF Bought, Months
<1>3. ASSUME NEW s \in Subs, NEW m \in Months
      PROVE  /\ tables.buckets[s][m] # NoRow <=> Bought(s, m) # {}
             /\ Bought(s, m) # {} => tables.buckets[s][m] = SumOver(UsageOf, Bought(s, m))
  <2>1. Present(tables.buckets[s]) = {MonthOf[i] : i \in {j \in paid : SubOf[j] = s}}
    BY PresentIs
  <2>2. m \in Present(tables.buckets[s]) <=> Bought(s, m) # {}
    BY <2>1 DEF Bought
  <2> QED
    BY <2>2, PresentIs DEF Present
<1>4. UsageRows = {BucketRow(i) : i \in paid}
  <2>1. ASSUME NEW u \in UsageRows PROVE u \in {BucketRow(i) : i \in paid}
    <3>1. PICK s \in Subs, m \in Months :
            /\ tables.buckets[s][m] # NoRow
            /\ u = [cust |-> CustomerOf[s], sub |-> s, month |-> m,
                    usage |-> tables.buckets[s][m]]
      BY DEF UsageRows
    <3>2. PICK i \in paid : SubOf[i] = s /\ MonthOf[i] = m
      BY <1>3, <3>1 DEF Bought
    <3> QED
      BY <3>1, <3>2 DEF BucketRow, Payer
  <2>2. ASSUME NEW i \in paid PROVE BucketRow(i) \in UsageRows
    <3>1. /\ <<SubOf[i], MonthOf[i]>> \in Subs \X Months
          /\ tables.buckets[SubOf[i]][MonthOf[i]] # NoRow
      BY <1>2, <1>3
    <3> QED
      BY <3>1 DEF UsageRows, BucketRow, Payer
  <2> QED
    BY <2>1, <2>2
<1>5. IsFiniteSet(UsageRows)
  <2> DEFINE f == [i \in paid |-> BucketRow(i)]
  <2>1. f \in Surjection(paid, UsageRows)
    BY <1>4 DEF Surjection
  <2> HIDE DEF f
  <2> QED
    BY <1>1, <2>1, FS_Surjection
<1>6. ASSUME NEW R \in SUBSET UsageRows
      PROVE  Query!MapThenSumSet(LAMBDA u : u.usage, R)
               = SumOver(UsageOf, {i \in paid : BucketRow(i) \in R})
  <2> DEFINE S == {i \in paid : BucketRow(i) \in R}
             key == [i \in S |-> BucketRow(i)]
             v == [u \in R |-> u.usage]
  <2>1. IsFiniteSet(R) /\ Weighs(UsageOf, S)
    <3>1. S \in SUBSET Invoices
      BY <1>1
    <3>2. IsFiniteSet(S) /\ \A i \in S : UsageOf[i] \in Int
      BY <3>1, FS_Subset, HandlerAssumption
    <3> QED
      BY <1>5, <3>2, FS_Subset DEF Weighs
  <2>2. key \in [S -> R]
    OBVIOUS
  <2>3. ASSUME NEW u \in R PROVE v[u] = SumOver(UsageOf, Group(S, key, u))
    <3>1. PICK i \in paid : u = BucketRow(i)
      BY <1>4
    <3>2. u.sub = SubOf[i] /\ u.month = MonthOf[i]
      BY <3>1 DEF BucketRow
    <3>3. ASSUME NEW j \in paid PROVE BucketRow(j) = u <=> SubOf[j] = u.sub /\ MonthOf[j] = u.month
      BY <3>1, <3>2 DEF BucketRow, Payer
    <3>4. Group(S, key, u) = Bought(u.sub, u.month)
      BY <3>3 DEF Group, Bought
    <3>5. u.usage = SumOver(UsageOf, Bought(u.sub, u.month))
      <4>1. u.usage = tables.buckets[SubOf[i]][MonthOf[i]]
        BY <3>1 DEF BucketRow
      <4>2. SubOf[i] \in Subs /\ MonthOf[i] \in Months /\ Bought(SubOf[i], MonthOf[i]) # {}
        BY <1>2
      <4> QED
        BY <1>3, <3>2, <4>1, <4>2
    <3> QED
      BY <3>4, <3>5
  <2>4. Query!MapThenSumSet(LAMBDA u : u.usage, R) = SumOver(v, R)
    BY UsageColumnIs
  <2> HIDE DEF S, key, v
  <2>5. SumOver(UsageOf, S) = SumOver(v, R)
    BY <2>1, <2>2, <2>3, SumParts
  <2> QED
    BY <2>4, <2>5, Zenon DEF S
<1> QED
  BY <1>4, <1>6

\* Some of the rows, chosen by month and customer, are worth what is billed.
LEMMA RevenueOf ==
  ASSUME BilledInv, odd = {}, NEW a \in Months, NEW b \in Months, NEW C
  PROVE  Query!MapThenSumSet(LAMBDA u : u.usage,
                             {u \in UsageRows : u.month \in a..b /\ u.cust \in C})
           = SumOver(UsageOf, PaidBy(a, b, C))
<1> DEFINE R == {u \in UsageRows : u.month \in a..b /\ u.cust \in C}
<1>1. {i \in paid : BucketRow(i) \in R} = PaidBy(a, b, C)
  <2>1. \A i \in paid : BucketRow(i) \in UsageRows
    BY RowsAreBilled
  <2>2. \A i : BucketRow(i).month = MonthOf[i] /\ BucketRow(i).cust = Payer(i)
    BY DEF BucketRow
  <2> QED
    BY <2>1, <2>2 DEF PaidBy
<1>2. R \in SUBSET UsageRows
  OBVIOUS
<1> HIDE DEF R
<1>3. Query!MapThenSumSet(LAMBDA u : u.usage, R)
        = SumOver(UsageOf, {i \in paid : BucketRow(i) \in R})
  BY <1>2, RowsAreBilled, Zenon
<1> QED
  BY <1>1, <1>3, Zenon DEF R

\* What the usage revenue routes answer.
LEMMA UsageAnswersAre ==
  ASSUME NEW U, NEW a, NEW b
  PROVE  /\ Query!GetUsageRevenue("usage-revenue", U, a, b) = Query!UsageRevenue(U, a, b)
         /\ Query!GetUsageRevenue("usage-revenue/series", U, a, b)
              = Query!UsageSeries(U, a, b)
         /\ Query!GetUsageRevenue("usage-revenue/by-customer", U, a, b)
              = Query!UsageByCustomer(U, a, b)
BY DEF Query!GetUsageRevenue, Query!UsageQuery

\* They answer what the invoices billed.
LEMMA RoutesAreBilled ==
  ASSUME BilledInv, odd = {}, NEW a \in Months, NEW b \in Months
  PROVE  LET usage(route) == Query!GetUsageRevenue(route, UsageRows, a, b)
             customers == usage("usage-revenue/by-customer")
             months == usage("usage-revenue/series")
         IN  /\ usage("usage-revenue") = SumOver(UsageOf, PaidBy(a, b, Customers))
             /\ \A c \in DOMAIN customers :
                  customers[c] = SumOver(UsageOf, PaidBy(a, b, {c}))
             /\ \A m \in DOMAIN months :
                  m \in Months /\ months[m] = SumOver(UsageOf, PaidBy(m, m, Customers))
<1> DEFINE U == UsageRows
           customers == Query!UsageByCustomer(U, a, b)
           months == Query!UsageSeries(U, a, b)
<1>1. \A u \in U : u.cust \in Customers /\ u.month \in Months
  <2>1. \A i \in paid : MonthOf[i] \in Months /\ Payer(i) \in Customers
    BY HandlerAssumption
       DEF BilledInv, LedgerInv, RedeliveryInv, MrrTypeOK, Months, Payer
  <2>2. U = {BucketRow(i) : i \in paid}
    BY RowsAreBilled
  <2> HIDE DEF U
  <2> QED
    BY <2>1, <2>2 DEF BucketRow
<1>2. ASSUME NEW x \in Months, NEW y \in Months
      PROVE  Query!UsageRevenue(U, x, y) = SumOver(UsageOf, PaidBy(x, y, Customers))
  <2>1. Query!Billed(U, x, y) = {u \in U : u.month \in x..y /\ u.cust \in Customers}
    BY <1>1 DEF Query!Billed
  <2>2. Query!MapThenSumSet(LAMBDA u : u.usage,
                            {u \in U : u.month \in x..y /\ u.cust \in Customers})
          = SumOver(UsageOf, PaidBy(x, y, Customers))
    BY RevenueOf, Zenon
  <2> HIDE DEF U
  <2> QED
    BY <2>1, <2>2, Zenon DEF Query!UsageRevenue
<1>3. ASSUME NEW c \in DOMAIN customers
      PROVE  customers[c] = SumOver(UsageOf, PaidBy(a, b, {c}))
  <2>1. customers[c] = Query!UsageRevenue({u \in U : u.cust = c}, a, b)
    BY <1>3, Zenon DEF Query!UsageByCustomer
  <2>2. Query!Billed({u \in U : u.cust = c}, a, b)
          = {u \in U : u.month \in a..b /\ u.cust \in {c}}
    BY DEF Query!Billed
  <2>3. Query!MapThenSumSet(LAMBDA u : u.usage,
                            {u \in U : u.month \in a..b /\ u.cust \in {c}})
          = SumOver(UsageOf, PaidBy(a, b, {c}))
    BY RevenueOf, Zenon
  <2> HIDE DEF U, customers
  <2> QED
    BY <2>1, <2>2, <2>3, Zenon DEF Query!UsageRevenue
<1>4. ASSUME NEW m \in DOMAIN months
      PROVE  m \in Months /\ months[m] = SumOver(UsageOf, PaidBy(m, m, Customers))
  <2>1. m \in {u.month : u \in Query!Billed(U, a, b)}
    BY <1>4, Zenon DEF Query!UsageSeries
  <2>2. m \in Months
    BY <1>1, <2>1 DEF Query!Billed
  <2>3. months[m] = Query!UsageRevenue(U, m, m)
    BY <2>1, Zenon DEF Query!UsageSeries
  <2> QED
    BY <1>2, <2>2, <2>3, Zenon
<1> HIDE DEF U
<1>5. Query!GetUsageRevenue("usage-revenue", U, a, b)
        = SumOver(UsageOf, PaidBy(a, b, Customers))
  BY <1>2, UsageAnswersAre, Zenon
<1>6. /\ Query!GetUsageRevenue("usage-revenue/by-customer", U, a, b) = customers
      /\ Query!GetUsageRevenue("usage-revenue/series", U, a, b) = months
  BY UsageAnswersAre, Zenon
<1> HIDE DEF customers, months
<1> QED
  BY <1>3, <1>4, <1>5, <1>6 DEF U

\* The ledger's new movements, and the months of their customers' cohorts.
Newcomers == {m.cust : m \in {n \in tables.movements : n.kind = "new"}}
CohortOf(c) == Query!Cohort(tables.movements, c)

LEMMA CohortsAre ==
  ASSUME MrrTypeOK, Marked
  PROVE  /\ Query!Cohorted(tables.movements) = Newcomers
         /\ IsFiniteSet(Newcomers)
         /\ Query!Month(0)..Query!Month(clock) = 0..(clock \div 2)
         /\ \A c \in Newcomers : CohortOf(c) \in 0..(clock \div 2)
<1> DEFINE L == tables.movements
<1>1. /\ IsFiniteSet(L) /\ clock \in Nat
      /\ \A m \in L : m.at \in Nat /\ m.at <= clock
  <2>1. IsFiniteSet(L) /\ L \subseteq Movement /\ clock \in Nat
    BY HandlerAssumption DEF MrrTypeOK, Tables
  <2>2. \A m \in Movement : m.at \in Nat
    BY HandlerAssumption DEF Movement
  <2>3. \A m \in L : m.at <= clock
    BY DEF Marked
  <2> QED
    BY <2>1, <2>2, <2>3
<1>2. Query!Cohorted(L) = Newcomers
  BY DEF Query!Cohorted, Query!CustomersIn, Query!OfKind, Newcomers
<1>3. IsFiniteSet(Newcomers)
  <2> DEFINE N == {n \in L : n.kind = "new"}
             f == [m \in N |-> m.cust]
  <2>1. f \in Surjection(N, Newcomers)
    BY DEF Surjection, Newcomers
  <2>2. IsFiniteSet(N)
    BY <1>1, FS_Subset
  <2> HIDE DEF f, N
  <2> QED
    BY <2>1, <2>2, FS_Surjection
<1>4. Query!Month(0)..Query!Month(clock) = 0..(clock \div 2)
  <2>1. Query!Month(0) = 0 /\ Query!Month(clock) = clock \div 2
    BY DEF Query!Month
  <2> QED
    BY <2>1
<1>5. ASSUME NEW c \in Newcomers PROVE CohortOf(c) \in 0..(clock \div 2)
  <2> DEFINE N == {m \in L : m.cust = c /\ m.kind = "new"}
             T == {Query!MonthOfTick(m.at) : m \in N}
             f == [m \in N |-> Query!MonthOfTick(m.at)]
  <2>1. Query!OfKind(Query!Of(L, c), "new") = N
    BY DEF Query!OfKind, Query!Of
  <2>2. CohortOf(c) = Query!Min(T)
    BY <2>1 DEF CohortOf, Query!Cohort
  <2>3. N # {} /\ T # {}
    BY <1>5 DEF Newcomers
  <2>4. T \subseteq 0..(clock \div 2)
    <3>1. \A t \in Nat : Query!MonthOfTick(t) = t \div 2
      BY DEF Query!MonthOfTick, Query!Month, Query!Day
    <3>2. ASSUME NEW t \in Nat, t <= clock PROVE t \div 2 \in 0..(clock \div 2)
      BY <1>1, <3>2
    <3> QED
      BY <1>1, <3>1, <3>2
  <2>5. IsFiniteSet(T)
    <3>1. f \in Surjection(N, T)
      BY DEF Surjection
    <3>2. IsFiniteSet(N)
      BY <1>1, FS_Subset
    <3> HIDE DEF f, N, T
    <3> QED
      BY <3>1, <3>2, FS_Surjection
  <2> HIDE DEF T
  <2>6. \E x \in T : \A y \in T : x <= y
    <3>1. T \subseteq Int
      BY <1>1, <2>4
    <3> QED
      BY <2>3, <2>5, <3>1, Least
  <2>7. Query!Min(T) \in T
    BY <2>6 DEF Query!Min
  <2> QED
    BY <2>2, <2>4, <2>7
<1> QED
  BY <1>2, <1>3, <1>4, <1>5

\* Sums over the LTV metric's invoices, and over the cohorts.
LEMMA LtvTotalIs ==
  ASSUME NEW P PROVE Query!Total(P) = SumOver([r \in P |-> r.amount], P)
<1> DEFINE w == [r \in P |-> r.amount]
           Rec(h) == h = [T \in SUBSET P |-> IF T = {} THEN 0
                            ELSE Chosen(T).amount + h[T \ {Chosen(T)}]]
<1>1. Query!Total(P) = (CHOOSE h : Rec(h))[P]
  BY Zenon DEF Query!Total, Query!MapThenSumSet, Query!MapThenFoldSet, Chosen
<1>2. ASSUME NEW h PROVE Rec(h) <=> Iterates(h, w, P)
  <2>1. \A T \in SUBSET P : T # {} => w[Chosen(T)] = Chosen(T).amount
    BY DEF Chosen
  <2> HIDE DEF w
  <2> QED
    BY <2>1 DEF Iterates
<1>3. (CHOOSE h : Rec(h)) = (CHOOSE h : Iterates(h, w, P))
  <2> HIDE DEF Rec, w
  <2> QED
    BY <1>2
<1> QED
  BY <1>1, <1>3 DEF SumOver

\* The cohorts' revenue is a sum over a finite set.
LEMMA RevenueSumIs ==
  ASSUME NEW f, NEW P
  PROVE  MapThenSumSet(LAMBDA m : f[m].revenue, P) = SumOver([m \in P |-> f[m].revenue], P)
<1> DEFINE w == [m \in P |-> f[m].revenue]
           Rec(h) == h = [T \in SUBSET P |-> IF T = {} THEN 0
                            ELSE f[Chosen(T)].revenue + h[T \ {Chosen(T)}]]
<1>1. MapThenSumSet(LAMBDA m : f[m].revenue, P) = (CHOOSE h : Rec(h))[P]
  BY Zenon DEF MapThenSumSet, MapThenFoldSet, Chosen
<1>2. ASSUME NEW h PROVE Rec(h) <=> Iterates(h, w, P)
  <2>1. \A T \in SUBSET P : T # {} => w[Chosen(T)] = f[Chosen(T)].revenue
    BY DEF Chosen
  <2> HIDE DEF w
  <2> QED
    BY <2>1 DEF Iterates
<1>3. (CHOOSE h : Rec(h)) = (CHOOSE h : Iterates(h, w, P))
  <2> HIDE DEF Rec, w
  <2> QED
    BY <1>2
<1> QED
  BY <1>1, <1>3 DEF SumOver

\* What the customers of C have ever paid is what they were billed.
LEMMA LtvRowsAre ==
  ASSUME BilledInv, NEW C
  PROVE  Query!Total({r \in ltv : r.cust \in C})
           = SumOver(UsageOf, {i \in paid : Payer(i) \in C})
<1> DEFINE S == {i \in paid : Payer(i) \in C}
           f == [i \in Invoices |-> LtvRow(i)]
           P == {f[i] : i \in S}
           w == [r \in P |-> r.amount]
<1>1. S \subseteq Invoices /\ IsFiniteSet(S)
  <2>1. S \in SUBSET Invoices
    BY DEF BilledInv, LedgerInv, RedeliveryInv, MrrTypeOK
  <2> QED
    BY <2>1, FS_Subset, HandlerAssumption
<1>2. \A i, j \in S : f[i] = f[j] => i = j
  <2>1. \A i \in S : f[i].id = <<"invoice.paid", i>>
    BY <1>1 DEF LtvRow
  <2> QED
    BY <2>1
<1>3. ASSUME NEW i \in S PROVE UsageOf[i] = w[f[i]] /\ UsageOf[i] \in Int
  <2>1. f[i] \in P /\ f[i].amount = UsageOf[i]
    BY <1>1 DEF LtvRow
  <2>2. UsageOf[i] \in Int
    BY <1>1, HandlerAssumption
  <2> HIDE DEF P, f
  <2> QED
    BY <2>1, <2>2
<1>4. {r \in ltv : r.cust \in C} = P
  <2>1. ltv = {LtvRow(i) : i \in paid} /\ \A i : LtvRow(i).cust = Payer(i)
    BY DEF BilledInv, LtvIs, LtvRow, Payer
  <2>2. P = {LtvRow(i) : i \in S}
    BY <1>1
  <2> HIDE DEF P, f
  <2> QED
    BY <2>1, <2>2
<1>5. Query!Total(P) = SumOver(w, P)
  BY LtvTotalIs
<1> HIDE DEF w, f, S
<1>6. SumOver(w, P) = SumOver(UsageOf, S)
  BY <1>1, <1>2, <1>3, SumImage
<1> QED
  BY <1>4, <1>5, <1>6 DEF S

\* All cohorts together have paid what the newcomers were billed.
LEMMA CohortsAreBilled ==
  ASSUME BilledInv
  PROVE  LET cohorts == Query!GetLtv("ltv/cohort", tables.movements, {}, {}, ltv,
                                     Query!InWindow(0, clock))
         IN  MapThenSumSet(LAMBDA m : cohorts[m].revenue, DOMAIN cohorts)
               = SumOver(UsageOf, {i \in paid : Payer(i) \in Newcomers})
<1> DEFINE L == tables.movements
           D == 0..(clock \div 2)
           cohorts == Query!GetLtv("ltv/cohort", L, {}, {}, ltv, Query!InWindow(0, clock))
           In(m) == {c \in Newcomers : CohortOf(c) = m}
           w == [m \in D |-> cohorts[m].revenue]
           S == {i \in paid : Payer(i) \in Newcomers}
           key == [i \in S |-> CohortOf(Payer(i))]
<1>1. MrrTypeOK /\ Marked
  BY DEF BilledInv, LedgerInv, RedeliveryInv
<1>2. cohorts = Query!CohortLtv(L, ltv, 0, clock)
  BY DEF Query!GetLtv, Query!LtvQuery, Query!InWindow
<1>3. DOMAIN cohorts = D
  <2>1. DOMAIN cohorts = Query!Month(0)..Query!Month(clock)
    BY <1>2, Zenon DEF Query!CohortLtv
  <2> QED
    BY <1>1, <2>1, CohortsAre
<1>4. ASSUME NEW m \in D
      PROVE  cohorts[m].revenue = SumOver(UsageOf, {i \in paid : Payer(i) \in In(m)})
  <2>1. m \in Query!Month(0)..Query!Month(clock)
    BY <1>1, <1>4, CohortsAre
  <2>2. cohorts[m].revenue =
          Query!Total({i \in ltv : i.cust \in
                         {c \in Query!Cohorted(L) : Query!Cohort(L, c) = m}})
    <3>1. cohorts =
            [month \in Query!Month(0)..Query!Month(clock) |->
               [customers |-> Query!Cardinality({c \in Query!Cohorted(L) :
                                                   Query!Cohort(L, c) = month}),
                revenue |-> Query!Total({i \in ltv : i.cust \in
                   {c \in Query!Cohorted(L) : Query!Cohort(L, c) = month}})]]
      BY <1>2, Zenon DEF Query!CohortLtv
    <3> HIDE DEF cohorts
    <3> QED
      BY <2>1, <3>1
  <2>3. {c \in Query!Cohorted(L) : Query!Cohort(L, c) = m} = In(m)
    BY <1>1, CohortsAre DEF CohortOf
  <2> HIDE DEF cohorts, In
  <2>4. cohorts[m].revenue = Query!Total({i \in ltv : i.cust \in In(m)})
    BY <2>2, <2>3
  <2> QED
    BY <2>4, LtvRowsAre
<1>5. Weighs(UsageOf, S)
  <2>1. S \in SUBSET Invoices
    BY <1>1 DEF MrrTypeOK
  <2> QED
    BY <2>1, FS_Subset, HandlerAssumption DEF Weighs
<1>6. key \in [S -> D]
  BY <1>1, CohortsAre
<1>7. \A m \in D : w[m] = SumOver(UsageOf, Group(S, key, m))
  <2>1. ASSUME NEW m \in D PROVE Group(S, key, m) = {i \in paid : Payer(i) \in In(m)}
    BY DEF Group
  <2> HIDE DEF cohorts, In, S, key
  <2> QED
    BY <1>4, <2>1
<1>8. IsFiniteSet(D)
  <2>1. clock \in Nat
    BY <1>1, HandlerAssumption DEF MrrTypeOK
  <2>2. clock \div 2 \in Int
    BY <2>1
  <2> QED
    BY <2>2, FS_Interval
<1>9. MapThenSumSet(LAMBDA m : cohorts[m].revenue, D) = SumOver(w, D)
  BY RevenueSumIs
<1> HIDE DEF w, S, key, D
<1>10. SumOver(UsageOf, S) = SumOver(w, D)
  BY <1>5, <1>6, <1>7, <1>8, SumParts
<1> QED
  BY <1>3, <1>9, <1>10, Zenon DEF S

\* The revenue from usage is what the invoices billed.
LEMMA RevenueDoesMatch == ASSUME BilledInv, odd = {} PROVE RevenueIsBilled
<1> DEFINE usage(route, a, b) == Query!GetUsageRevenue(route, UsageRows, a, b)
           of(a, b, C) == MapThenSumSet(LAMBDA c : BilledIn(a, b, c), C)
           cohorts == Query!GetLtv("ltv/cohort", tables.movements, {}, {}, ltv,
                                   Query!InWindow(0, clock))
           customers(a, b) == usage("usage-revenue/by-customer", a, b)
           months(a, b) == usage("usage-revenue/series", a, b)
<1>1. MrrTypeOK /\ Marked /\ IsFiniteSet(Customers) /\ IsFiniteSet(Newcomers)
  <2>1. MrrTypeOK /\ Marked /\ IsFiniteSet(Customers)
    BY HandlerAssumption DEF BilledInv, LedgerInv, RedeliveryInv
  <2> QED
    BY <2>1, CohortsAre
<1>2. ASSUME NEW a, NEW b
      PROVE  /\ of(a, b, Customers) = SumOver(UsageOf, PaidBy(a, b, Customers))
             /\ of(a, b, Newcomers) = SumOver(UsageOf, PaidBy(a, b, Newcomers))
             /\ \A c : BilledIn(a, b, c) = SumOver(UsageOf, PaidBy(a, b, {c}))
  BY <1>1, BilledIs, Zenon
<1>3. ASSUME NEW a \in Months, NEW b \in Months
      PROVE  /\ usage("usage-revenue", a, b) = of(a, b, Customers)
             /\ \A c \in DOMAIN customers(a, b) : customers(a, b)[c] = BilledIn(a, b, c)
             /\ \A m \in DOMAIN months(a, b) : months(a, b)[m] = of(m, m, Customers)
  <2>1. /\ usage("usage-revenue", a, b) = SumOver(UsageOf, PaidBy(a, b, Customers))
        /\ \A c \in DOMAIN customers(a, b) :
             customers(a, b)[c] = SumOver(UsageOf, PaidBy(a, b, {c}))
        /\ \A m \in DOMAIN months(a, b) :
             months(a, b)[m] = SumOver(UsageOf, PaidBy(m, m, Customers))
    BY RoutesAreBilled, Zenon
  <2> HIDE DEF usage, of, customers, months
  <2> QED
    BY <1>2, <2>1
<1>4. MapThenSumSet(LAMBDA m : cohorts[m].revenue, DOMAIN cohorts)
        = of(Min(Months), Max(Months), Newcomers)
  <2>1. {i \in paid : Payer(i) \in Newcomers}
          = PaidBy(Min(Months), Max(Months), Newcomers)
    <3>1. ASSUME NEW i \in paid PROVE MonthOf[i] \in Min(Months)..Max(Months)
      <4>1. MonthOf[i] \in Months /\ IsFiniteSet(Months) /\ Months \subseteq Int
        <5>1. i \in Invoices
          BY <1>1 DEF MrrTypeOK
        <5> QED
          BY <5>1, MonthsFinite DEF Months
      <4>2. Min(Months) \in Months /\ \A m \in Months : Min(Months) <= m
        <5>1. \E x \in Months : \A y \in Months : x <= y
          BY <4>1, Least
        <5> QED
          BY <5>1, Zenon DEF Min
      <4>3. Max(Months) \in Months /\ \A m \in Months : Max(Months) >= m
        <5>1. \E x \in Months : \A y \in Months : x >= y
          <6>1. PICK x \in Months : \A y \in Months : y <= x
            BY <4>1, Greatest
          <6>2. \A y \in Months : x >= y
            BY <4>1, <6>1
          <6> QED
            BY <6>2
        <5> QED
          BY <5>1, Zenon DEF Max
      <4>4. Min(Months) \in Int /\ Max(Months) \in Int /\ MonthOf[i] \in Int
        BY <4>1, <4>2, <4>3
      <4>5. Min(Months) <= MonthOf[i] /\ Max(Months) >= MonthOf[i]
        BY <4>1, <4>2, <4>3
      <4> QED
        BY <4>4, <4>5
    <3> QED
      BY <3>1 DEF PaidBy
  <2>2. MapThenSumSet(LAMBDA m : cohorts[m].revenue, DOMAIN cohorts)
          = SumOver(UsageOf, {i \in paid : Payer(i) \in Newcomers})
    BY CohortsAreBilled, Zenon
  <2> HIDE DEF cohorts, of
  <2> QED
    BY <1>2, <2>1, <2>2, Zenon
<1> HIDE DEF usage, cohorts
<1> QED
  BY <1>3, <1>4, Zenon DEF RevenueIsBilled, Newcomers, usage, cohorts

\* At rate 1, what paid invoices billed for usage is in the usage component of a
\* subscription with a regular history, as the mean of its latest months; and
\* while all histories are regular, the usage revenue routes and the cohorts'
\* lifetime revenue answer what was billed (usage.py, usage_revenue/metric.py,
\* ltv/metric.py:_cohort_ltv).
THEOREM UsageReachesRevenue == AtRateOne /\ Spec => []UsageIsBilled
<1> SUFFICES ASSUME AtRateOne PROVE Spec => []UsageIsBilled
  OBVIOUS
<1>1. ASSUME BilledInv PROVE UsageIsBilled
  BY <1>1, MeanIsBilled, RevenueDoesMatch DEF UsageIsBilled
<1>2. Spec => []BilledInv
  BY BilledInductive
<1> QED
  BY <1>1, <1>2, PTL

-----------------------------------------------------------------------------
(* Whether an activation is a reactivation *)

\* Whose events and movements there are: a replayed event has no customer, but
\* its subscription's history is irregular then.
Owned ==
  /\ \A e \in sent : e.cust = CustomerOf[Subject(e)]
  /\ last # NoEvent => last.cust \in {CustomerOf[Subject(last)], NoCustomer}
  /\ \A m \in tables.movements :
        /\ m.cust \in {CustomerOf[m.sub], NoCustomer}
        /\ m.sub \notin odd => m.cust = CustomerOf[m.sub]

OwnedInv == LedgerInv /\ Owned

\* Handling an event keeps the owners.
LEMMA OwnersKept ==
  ASSUME MrrTypeOK, Owned, NEW e \in Event, HandleBoth(e), last' = e, odd \subseteq odd',
         e.cust \in {CustomerOf[Subject(e)], NoCustomer},
         Subject(e) \notin odd' => e.cust = CustomerOf[Subject(e)],
         \A f \in sent' : f.cust = CustomerOf[Subject(f)]
  PROVE  Owned'
<1>1. \A m \in tables'.movements : \/ m \in tables.movements
                                   \/ m.sub = Subject(e) /\ m.cust = e.cust
  BY Confined
<1>2. Subject(e)' = Subject(e) /\ \A f : Subject(f)' = Subject(f)
  BY DEF Subject
<1> QED
  BY <1>1, <1>2 DEF Owned

\* The invariant of the owners holds at first, and is kept by every step.
LEMMA OwnedInit == Init => OwnedInv
BY LedgerInit DEF Init, Empty, OwnedInv, Owned

LEMMA OwnedStep == ASSUME AtRateOne, OwnedInv, [Next]_vars PROVE OwnedInv'
<1>0. LedgerInv' /\ LedgerInv /\ RedeliveryInv /\ MrrTypeOK /\ Marked /\ Owned
  BY LedgerStep DEF OwnedInv, LedgerInv, RedeliveryInv
<1>1. ASSUME NEW s \in Subs, NEW type \in LifeTypes, NEW to \in Lives, NEW p \in Prices,
             Deliver(s, type, to, p)
      PROVE  Owned'
  <2> DEFINE e == Emitted(s, type, p)
  <2>1. HandleBoth(e) /\ last' = e /\ odd \subseteq odd' /\ sent' = sent \union {e}
    BY <1>1 DEF Deliver, Emit
  <2>2. e \in Event /\ e.cust = CustomerOf[Subject(e)]
    BY <1>0, <1>1, EmittedType DEF Deliver, Emit, Emitted, Subject, LifeTypes
  <2> HIDE DEF e
  <2>3. \A f \in sent' : f.cust = CustomerOf[Subject(f)]
    BY <1>0, <2>1, <2>2 DEF Owned
  <2> QED
    BY <1>0, <2>1, <2>2, <2>3, OwnersKept
<1>2. ASSUME NEW s \in Subs, NEW type \in LifeTypes, NEW to \in Lives, NEW p \in Prices,
             Park(s, type, to, p)
      PROVE  Owned'
  <2> DEFINE e == Emitted(s, type, p)
  <2>1. /\ sent' = sent \union {e} /\ odd \subseteq odd' /\ last' = NoEvent
        /\ UNCHANGED tables /\ e.cust = CustomerOf[Subject(e)]
    BY <1>2 DEF Park, Emit, Emitted, Subject, LifeTypes
  <2> HIDE DEF e
  <2> QED
    BY <1>0, <2>1 DEF Owned, Subject
<1>3. ASSUME NEW i \in Invoices, PayInvoice(i) PROVE Owned'
  <2> DEFINE e == EmittedPaid(i)
  <2>1. HandleBoth(e) /\ last' = e /\ odd \subseteq odd' /\ sent' = sent \union {e}
    BY <1>3 DEF PayInvoice
  <2>2. e \in Event /\ e.cust = CustomerOf[Subject(e)]
    BY <1>0, <1>3, PaidType DEF PayInvoice, EmittedPaid, Subject
  <2> HIDE DEF e
  <2>3. \A f \in sent' : f.cust = CustomerOf[Subject(f)]
    BY <1>0, <2>1, <2>2 DEF Owned
  <2> QED
    BY <1>0, <2>1, <2>2, <2>3, OwnersKept
<1>4. ASSUME sent' = sent, last' = last, tables' = tables, odd' = odd PROVE Owned'
  BY <1>0, <1>4 DEF Owned, Subject
<1>5. ASSUME NEW i \in Invoices, StoreLines(i) PROVE Owned'
  BY <1>4, <1>5 DEF StoreLines
<1>6. ASSUME Redeliver PROVE Owned'
  <2>1. /\ last # NoEvent /\ last \in Event /\ HandleBoth(last) /\ last' = last
        /\ odd \subseteq odd' /\ sent' = sent
    BY <1>0, <1>6 DEF Redeliver, MrrTypeOK
  <2>2. CASE last.type # "invoice.paid"
    <3>1. UNCHANGED <<tables, odd>>
      BY <1>0, <1>6, <2>1, <2>2 DEF Redeliver, HandleBoth, RedeliveryInv, Repeats
    <3> QED
      BY <1>4, <2>1, <3>1
  <2>3. CASE last.type = "invoice.paid"
    <3>1. last.obj \in Invoices
      BY <2>1, <2>3, EventCases
    <3>2. Subject(last) \in odd'
      BY <1>6, <2>3, <3>1 DEF Redeliver, Disturbed, Subject
    <3>3. \A f \in sent' : f.cust = CustomerOf[Subject(f)]
      BY <1>0, <2>1 DEF Owned
    <3>4. last.cust \in {CustomerOf[Subject(last)], NoCustomer}
      BY <1>0, <2>1 DEF Owned
    <3> QED
      BY <1>0, <2>1, <3>2, <3>3, <3>4, OwnersKept
  <2> QED
    BY <2>2, <2>3
<1>7. ASSUME NEW e \in sent, Replay(e) PROVE Owned'
  <2> DEFINE f == [e EXCEPT !.cust = NoCustomer]
  <2>1. /\ e \in parked /\ e \in SubEvent /\ HandleBoth(f) /\ last' = f
        /\ UNCHANGED <<sent, odd>>
    BY <1>0, <1>7 DEF Replay, MrrTypeOK
  <2>2. f \in Event /\ f.cust = NoCustomer /\ Subject(f) = e.obj
    BY <2>1 DEF Event, SubEvent, AllCustomers, LifeTypes, Subject
  <2>3. e.obj \in odd
    BY <1>0, <2>1 DEF Marked
  <2> HIDE DEF f
  <2> QED
    BY <1>0, <2>1, <2>2, <2>3, OwnersKept DEF Owned
<1>8. ASSUME NEW e \in sent, Resend(e) PROVE Owned'
  <2>1. /\ e \in Event /\ HandleBoth(e) /\ last' = e /\ odd \subseteq odd' /\ sent' = sent
    BY <1>0, <1>8 DEF Resend, MrrTypeOK
  <2>2. \A f \in sent' : f.cust = CustomerOf[Subject(f)]
    BY <1>0, <2>1 DEF Owned
  <2>3. e.cust = CustomerOf[Subject(e)]
    BY <1>0 DEF Owned
  <2> QED
    BY <1>0, <2>1, <2>2, <2>3, OwnersKept
<1>9. ASSUME UNCHANGED vars PROVE Owned'
  BY <1>4, <1>9 DEF vars
<1> QED
  BY <1>0, <1>1, <1>2, <1>3, <1>5, <1>6, <1>7, <1>8, <1>9 DEF Next, OwnedInv

\* What an activation appends.
LEMMA ActivationIs ==
  ASSUME NEW t \in Tables, NEW e \in SubEvent, NEW lines, e.type = "activated"
  PROVE  LET u == Handle(t, e, lines)
         IN  \A m \in u.movements \ t.movements : m.kind = ClassifyActivation(t, e)
<1> DEFINE up == UpsertSnapshot(t, e.obj, Base(e, e.mrr))
           u == Handle(t, e, lines)
           kind == ClassifyActivation(t, e)
<1>1. e \in Event /\ e.obj \in Subs /\ e.mrr \in Nat
  BY DEF SubEvent, Event
<1>2. Base(e, e.mrr) \in Nat /\ Base(e, e.mrr) \in Int
  <2>1. e.mrr \in Int
    BY <1>1
  <2> QED
    BY <1>1, <2>1, BaseType
<1>3. up \in Tables /\ up.movements = t.movements
  BY <1>1, <1>2, UpsertIs
<1>4. u = AppendLife(up, e, kind, e.obj, Base(e, e.mrr))
  BY DEF Handle, Activated, AppendLife
<1>5. kind \in Kinds
  BY DEF ClassifyActivation, Kinds
<1> HIDE DEF up, u, kind
<1>6. /\ HasLife(up, e) => u.movements = up.movements
      /\ ~HasLife(up, e) => u.movements = up.movements \union
                              {LifeMove(e, kind, e.obj, Base(e, e.mrr))}
  BY <1>1, <1>2, <1>3, <1>4, <1>5, AppendLifeIs
<1>7. LifeMove(e, kind, e.obj, Base(e, e.mrr)).kind = kind
  BY DEF LifeMove, MoveOf
<1> HIDE DEF LifeMove
<1> QED
  BY <1>3, <1>6, <1>7 DEF u, kind

\* The customer's movements before the event, which the code sums, are those of
\* the subscription and its siblings, and come to what they are worth now.
LEMMA EarlierIs ==
  ASSUME OwnedInv, NEW s \in Subs, Siblings(s) \intersect odd = {}, NEW e,
         e.cust = CustomerOf[s], e.at = clock + 1
  PROVE  ClassifyActivation(tables, e) = IF Returning(s) THEN "reactivation" ELSE "new"
<1> DEFINE M == tables.movements
           C == Siblings(s)
           earlier == {m \in M : m.cust = e.cust /\ m.at < e.at}
           w == [r \in C |-> Revenue(r)]
           subOf == [m \in earlier |-> m.sub]
<1>1. /\ MrrTypeOK /\ Marked /\ IsFiniteSet(M) /\ M \subseteq Movement /\ clock \in Nat
      /\ IsFiniteSet(C) /\ C \subseteq Subs /\ \A r \in C : r \notin odd /\ Sound(r)
  <2>1. /\ LedgerInv /\ MrrTypeOK /\ Marked /\ IsFiniteSet(M) /\ M \subseteq Movement
        /\ clock \in Nat
    BY HandlerAssumption DEF OwnedInv, LedgerInv, RedeliveryInv, MrrTypeOK, Tables
  <2>2. C \in SUBSET Subs /\ \A r \in C : r \notin odd
    BY DEF Siblings
  <2>3. IsFiniteSet(C)
    <3> HIDE DEF C
    <3> QED
      BY <2>2, HandlerAssumption, FS_Subset
  <2> QED
    BY <2>1, <2>2, <2>3 DEF LedgerInv
<1>2. earlier = {m \in M : m.sub \in C}
  <2>1. \A m \in M : m.at < clock + 1
    <3>1. \A m \in M : m.at <= clock /\ m.at \in Int
      <4>1. \A m \in Movement : m.at \in Int
        BY DEF Movement
      <4>2. \A m \in M : m.at <= clock
        BY <1>1 DEF Marked
      <4> QED
        BY <1>1, <4>1, <4>2
    <3> QED
      BY <1>1, <3>1
  <2>2. ASSUME NEW m \in M PROVE m.cust = CustomerOf[s] <=> m.sub \in C
    <3>1. m.sub \in Subs /\ CustomerOf[s] # NoCustomer
      <4>1. m \in Movement
        BY <1>1
      <4> QED
        BY <4>1, HandlerAssumption DEF Movement
    <3>2. m.sub \in C <=> CustomerOf[m.sub] = CustomerOf[s]
      BY <3>1 DEF Siblings
    <3>3. /\ m.cust \in {CustomerOf[m.sub], NoCustomer}
          /\ m.sub \notin odd => m.cust = CustomerOf[m.sub]
      BY DEF OwnedInv, Owned
    <3> HIDE DEF C
    <3> QED
      BY <1>1, <3>1, <3>2, <3>3
  <2> HIDE DEF M, C
  <2> QED
    BY <2>1, <2>2
<1>3. Total(earlier) = SumOver(w, C)
  <2>1. IsFiniteSet(earlier) /\ earlier \subseteq Movement
    <3>1. earlier \in SUBSET M
      OBVIOUS
    <3> HIDE DEF earlier
    <3> QED
      BY <1>1, <3>1, FS_Subset
  <2>2. Total(earlier) = SumOver(Amounts, earlier)
    BY <2>1, TotalIs
  <2>3. Weighs(Amounts, earlier)
    <3>1. \A m \in Movement : Amounts[m] \in Int
      BY DEF Amounts, Movement
    <3> QED
      BY <2>1, <3>1 DEF Weighs
  <2>4. subOf \in [earlier -> C]
    BY <1>2
  <2>5. ASSUME NEW r \in C PROVE w[r] = SumOver(Amounts, Group(earlier, subOf, r))
    <3>1. Group(earlier, subOf, r) = {m \in M : m.sub = r}
      BY <1>2 DEF Group
    <3>2. LedgerIn(M, r) = Revenue(r)
      BY <1>1 DEF Sound
    <3>3. Total({m \in M : m.sub = r}) = SumOver(Amounts, {m \in M : m.sub = r})
      BY <1>1, TotalIs
    <3> QED
      BY <3>1, <3>2, <3>3 DEF LedgerIn
  <2> HIDE DEF earlier, w, subOf, C
  <2>6. SumOver(Amounts, earlier) = SumOver(w, C)
    BY <1>1, <2>3, <2>4, <2>5, SumParts
  <2> QED
    BY <2>2, <2>6
<1>4. \A r \in C : w[r] \in Nat /\ (life[r] = "active" <=> w[r] # 0)
  <2>1. ASSUME NEW r \in C PROVE Revenue(r) \in Nat /\ (life[r] = "active" <=> Revenue(r) # 0)
    <3>1. price[r] \in Nat \ {0}
      BY <1>1, HandlerAssumption DEF MrrTypeOK
    <3>2. UsageMrr(r) \in Nat
      BY <1>1, UsageType
    <3> QED
      BY <3>1, <3>2 DEF Revenue
  <2> QED
    BY <2>1
<1>5. Total(earlier) <= 0 <=> \A r \in C : life[r] # "active"
  <2> HIDE DEF earlier, w, C
  <2>1. CASE \A r \in C : life[r] # "active"
    <3>1. SumOver(w, C) = 0
      BY <1>1, <1>4, <2>1, SumZero
    <3> QED
      BY <1>3, <2>1, <3>1
  <2>2. ASSUME NEW r \in C, life[r] = "active" PROVE ~(Total(earlier) <= 0)
    <3>1. Weighs(w, C)
      BY <1>1, <1>4 DEF Weighs
    <3>2. SumOver(w, C) = w[r] + SumOver(w, C \ {r})
      BY <3>1, SumWithout
    <3>3. IsFiniteSet(C \ {r}) /\ \A x \in C \ {r} : w[x] \in Nat
      BY <1>1, <1>4, FS_RemoveElement
    <3>4. SumOver(w, C \ {r}) \in Nat
      BY <3>3, SumNat
    <3> QED
      BY <1>3, <1>4, <2>2, <3>2, <3>4
  <2> QED
    BY <2>1, <2>2
<1>6. earlier # {} <=> \E r \in C : life[r] \notin {"none", "idle"}
  <2>1. ASSUME NEW r \in C PROVE life[r] \notin {"none", "idle"} <=> \E m \in M : m.sub = r
    BY <1>1 DEF Sound
  <2> HIDE DEF M, C, earlier
  <2> QED
    BY <1>2, <2>1
<1>7. Returning(s) <=> earlier # {} /\ Total(earlier) <= 0
  <2>1. \A r \in C : life[r] \in Lives
    BY <1>1 DEF MrrTypeOK
  <2> HIDE DEF earlier
  <2> QED
    BY <1>5, <1>6, <2>1 DEF Returning, Lives
<1> QED
  BY <1>7, Zenon DEF ClassifyActivation

\* A step that appends an activation's movement in a regular history is the
\* delivery of its event.
LEMMA ClassifiedStep ==
  ASSUME AtRateOne, OwnedInv, Next, NEW s \in Subs,
         NEW m \in tables'.movements \ tables.movements, m.id = <<"activated", s>>,
         Siblings(s) \intersect odd' = {}
  PROVE  m.kind = IF Returning(s) THEN "reactivation" ELSE "new"
<1>0. /\ RedeliveryInv /\ MrrTypeOK /\ Marked /\ s \in Siblings(s) /\ s \notin odd'
      /\ tables' # tables
  BY DEF OwnedInv, LedgerInv, RedeliveryInv, Siblings
<1>1. ASSUME NEW e \in Event, HandleBoth(e)
      PROVE  e \in SubEvent /\ e.type = "activated" /\ e.obj = s
  <2>1. m.id = Id(e)
    BY <1>0, <1>1, Confined
  <2>2. e.type = "activated" /\ e.obj = s
    BY <2>1 DEF Id
  <2> QED
    BY <2>2, EventCases
<1>2. ASSUME NEW r \in Subs, NEW type \in LifeTypes, NEW to \in Lives, NEW p \in Prices,
             Deliver(r, type, to, p)
      PROVE  m.kind = IF Returning(s) THEN "reactivation" ELSE "new"
  <2> DEFINE e == Emitted(r, type, p)
  <2>1. HandleBoth(e) /\ odd \subseteq odd' /\ tables' = Handle(tables, e, stored)
    BY <1>2 DEF Deliver, HandleBoth
  <2>2. e \in Event /\ e.cust = CustomerOf[e.obj] /\ e.at = clock + 1
    BY <1>0, <1>2, EmittedType DEF Deliver, Emit, Emitted
  <2> HIDE DEF e
  <2>3. e \in SubEvent /\ e.type = "activated" /\ e.obj = s
    BY <1>1, <2>1, <2>2
  <2>4. m.kind = ClassifyActivation(tables, e)
    BY <1>0, <2>1, <2>3, ActivationIs DEF MrrTypeOK
  <2>5. Siblings(s) \intersect odd = {}
    BY <2>1
  <2> QED
    BY <2>2, <2>3, <2>4, <2>5, EarlierIs
<1>3. ASSUME NEW r \in Subs, NEW type \in LifeTypes, NEW to \in Lives, NEW p \in Prices,
             Park(r, type, to, p)
      PROVE  FALSE
  BY <1>0, <1>3 DEF Park
<1>4. ASSUME NEW i \in Invoices, PayInvoice(i) PROVE FALSE
  <2> DEFINE e == EmittedPaid(i)
  <2>1. HandleBoth(e) /\ e \in Event /\ e.type = "invoice.paid"
    BY <1>0, <1>4, PaidType DEF PayInvoice, EmittedPaid
  <2> HIDE DEF e
  <2> QED
    BY <1>1, <2>1
<1>5. ASSUME NEW i \in Invoices, StoreLines(i) PROVE FALSE
  BY <1>0, <1>5 DEF StoreLines
<1>6. ASSUME Redeliver PROVE FALSE
  <2>1. last # NoEvent /\ last \in Event /\ HandleBoth(last)
    BY <1>0, <1>6 DEF Redeliver, MrrTypeOK
  <2>2. last.type # "invoice.paid"
    BY <1>1, <2>1
  <2> QED
    BY <1>0, <2>1, <2>2 DEF HandleBoth, RedeliveryInv, Repeats
<1>7. ASSUME NEW e \in sent, Replay(e) PROVE FALSE
  <2> DEFINE f == [e EXCEPT !.cust = NoCustomer]
  <2>1. e \in parked /\ e \in SubEvent /\ HandleBoth(f) /\ odd' = odd
    BY <1>0, <1>7 DEF Replay, MrrTypeOK
  <2>2. f \in Event /\ f.obj = e.obj
    BY <2>1 DEF Event, SubEvent, AllCustomers
  <2> HIDE DEF f
  <2>3. e.obj = s
    BY <1>1, <2>1, <2>2
  <2> QED
    BY <1>0, <2>1, <2>3 DEF Marked
<1>8. ASSUME NEW e \in sent, Resend(e) PROVE FALSE
  <2>1. e \in Event /\ HandleBoth(e) /\ odd' = odd \union Disturbed(e)
    BY <1>0, <1>8 DEF Resend, MrrTypeOK
  <2>2. e \in SubEvent /\ e.obj = s
    BY <1>1, <2>1
  <2>3. s \in Disturbed(e)
    BY <2>2, HandlerAssumption DEF Disturbed
  <2> QED
    BY <1>0, <2>1, <2>3
<1> QED
  BY <1>2, <1>3, <1>4, <1>5, <1>6, <1>7, <1>8 DEF Next

\* At rate 1, while the histories of a customer's subscriptions are regular, an
\* activation is a reactivation exactly when the customer has left something
\* before and has nothing active now (mrr/metric.py:_classify_activation).
THEOREM ActivationsAreClassified == AtRateOne /\ Spec => ClassifiedRight
<1> SUFFICES ASSUME AtRateOne PROVE Spec => ClassifiedRight
  OBVIOUS
<1>1. OwnedInv /\ [Next]_vars => OwnedInv'
  BY OwnedStep
<1>2. Spec => []OwnedInv
  BY <1>1, OwnedInit, PTL DEF Spec
<1>3. ASSUME OwnedInv, [Next]_vars
      PROVE  [\A s \in Subs : \A m \in tables'.movements \ tables.movements :
                m.id = <<"activated", s>> /\ Siblings(s) \intersect odd' = {} =>
                  m.kind = IF Returning(s) THEN "reactivation" ELSE "new"]_vars
  <2>1. CASE UNCHANGED vars
    BY <2>1
  <2>2. CASE Next
    BY <1>3, <2>2, ClassifiedStep
  <2> QED
    BY <1>3, <2>1, <2>2
<1> QED
  BY <1>2, <1>3, PTL DEF Spec, ClassifiedRight
=============================================================================
