----------------------------- MODULE ChurnProofs -----------------------------
(* The counter of ChurnMetric is right whatever is delivered, and handling an
   event again changes nothing. *)
EXTENDS ChurnMetric, FiniteSetTheorems, TLAPS

-----------------------------------------------------------------------------
\* What the statements of the handler do to the tables.

\* The row of the unique constraint that an event is about.
KeyOf(e) == <<e.cust, e.sub>>
Has(t, e, kind) == \E x \in t.entries : x.id = Id(e) /\ x.kind = kind

LEMMA RowTyped ==
  ASSUME NEW t \in Tables, NEW c \in AllCustomers, t.state[c] # NoRow
  PROVE  t.state[c] \in Row /\ t.state[c].active \in Nat
BY DEF Tables, Row

LEMMA PutEffect ==
  ASSUME NEW t \in Tables, NEW c \in AllCustomers, NEW row \in Row
  PROVE  /\ PutState(t, c, row) \in Tables
         /\ PutState(t, c, row).tracked = t.tracked
         /\ PutState(t, c, row).entries = t.entries
         /\ PutState(t, c, row).state[c] = row
         /\ \A d \in AllCustomers \ {c} :
               PutState(t, c, row).state[d] = t.state[d]
BY DEF PutState, Tables

LEMMA PutSame ==
  ASSUME NEW t \in Tables, NEW c \in AllCustomers
  PROVE  PutState(t, c, t.state[c]) = t
BY DEF PutState, Tables

LEMMA EntryEffect ==
  ASSUME NEW t \in Tables, NEW e \in Event, NEW kind \in Kinds
  PROVE  /\ WithEntry(t, e, kind) \in Tables
         /\ WithEntry(t, e, kind).tracked = t.tracked
         /\ WithEntry(t, e, kind).state = t.state
         /\ Has(WithEntry(t, e, kind), e, kind)
         /\ \A k \in Kinds : Has(t, e, k) => Has(WithEntry(t, e, kind), e, k)
<1> DEFINE x == [id |-> Id(e), kind |-> kind, cust |-> e.cust, at |-> e.at]
<1>1. x \in Entry /\ x.id = Id(e) /\ x.kind = kind
  BY DEF Event, Entry, Id
<1> HIDE DEF x
<1>2. CASE Has(t, e, kind)
  BY <1>2 DEF WithEntry, Has
<1>3. CASE ~Has(t, e, kind)
  <2>1. WithEntry(t, e, kind) = [t EXCEPT !.entries = @ \union {x}]
    BY <1>3 DEF WithEntry, Has, x
  <2>2. QED
    BY <1>1, <2>1 DEF Tables, Has
<1>4. QED
  BY <1>2, <1>3

LEMMA EntrySame ==
  ASSUME NEW t \in Tables, NEW e \in Event, NEW kind \in Kinds, Has(t, e, kind)
  PROVE  WithEntry(t, e, kind) = t
BY DEF WithEntry, Has

LEMMA RowsTyped ==
  ASSUME NEW e \in Event, NEW row \in Row \union {NoRow}
  PROVE  /\ FreshRow(0, e) \in Row /\ FreshRow(1, e) \in Row
         /\ FreshRow(0, e).active = 0
         /\ OneMore(row, e) \in Row
         /\ OneMore(row, e).active = (IF row = NoRow THEN 1 ELSE row.active + 1)
         /\ OneMore(row, e).churned = Null
         /\ row # NoRow =>
              /\ OneLess(row) \in Row
              /\ OneLess(row).active = (IF row.active > 0 THEN row.active - 1 ELSE 0)
              /\ ChurnedAt(row, e) \in Row
              /\ ChurnedAt(row, e).active = row.active
              /\ ChurnedAt(row, e).churned = e.at
<1>1. e.at \in Nat
  BY DEF Event
<1>2. FreshRow(0, e) \in Row /\ FreshRow(1, e) \in Row
  BY <1>1 DEF FreshRow, Row
<1>3. CASE row = NoRow
  BY <1>2, <1>3 DEF OneMore, FreshRow
<1>4. CASE row # NoRow
  <2>1. /\ row \in Row /\ row.active \in Nat
        /\ OneMore(row, e) = [active |-> row.active + 1, first |-> row.first,
                              churned |-> Null]
    BY <1>4 DEF OneMore, Row
  <2>2. /\ OneMore(row, e) \in Row
        /\ OneMore(row, e).active = row.active + 1
        /\ OneMore(row, e).churned = Null
    BY <2>1 DEF Row
  <2>3. /\ OneLess(row) \in Row
        /\ OneLess(row).active = (IF row.active > 0 THEN row.active - 1 ELSE 0)
    BY <2>1 DEF OneLess, Row
  <2>4. /\ ChurnedAt(row, e) \in Row
        /\ ChurnedAt(row, e).active = row.active
        /\ ChurnedAt(row, e).churned = e.at
    BY <1>1, <2>1 DEF ChurnedAt, Row
  <2>5. QED
    BY <1>2, <1>4, <2>2, <2>3, <2>4 DEF FreshRow
<1>5. QED
  BY <1>3, <1>4, <1>2 DEF FreshRow

LEMMA CountEffect ==
  ASSUME NEW t \in Tables, NEW e \in Event
  PROVE  /\ Count(t, e) \in Tables
         /\ Count(t, e).tracked = t.tracked \union {KeyOf(e)}
         /\ Count(t, e).state[e.cust] = OneMore(t.state[e.cust], e)
         /\ \A d \in AllCustomers \ {e.cust} :
               Count(t, e).state[d] = t.state[d]
<1> DEFINE u == [t EXCEPT !.tracked = @ \union {KeyOf(e)}]
<1>1. e.cust \in AllCustomers /\ e.sub \in Subs
  BY DEF Event
<1>2. u \in Tables /\ u.state = t.state /\ u.tracked = t.tracked \union {KeyOf(e)}
  BY <1>1 DEF Tables, KeyOf
<1>3. OneMore(t.state[e.cust], e) \in Row
  BY <1>1, RowsTyped DEF Tables
<1>4. Count(t, e) = PutState(u, e.cust, OneMore(t.state[e.cust], e))
  BY DEF Count, KeyOf
<1> HIDE DEF u
<1>5. QED
  BY <1>1, <1>2, <1>3, <1>4, PutEffect

LEMMA UncountEffect ==
  ASSUME NEW t \in Tables, NEW e \in Event
  PROVE  /\ Uncount(t, e) \in Tables
         /\ Uncount(t, e).tracked = t.tracked \ {KeyOf(e)}
         /\ KeyOf(e) \notin t.tracked => Uncount(t, e) = t
         /\ KeyOf(e) \in t.tracked =>
              Uncount(t, e).state[e.cust] =
                (IF t.state[e.cust] = NoRow THEN NoRow
                                            ELSE OneLess(t.state[e.cust]))
         /\ \A d \in AllCustomers \ {e.cust} :
               Uncount(t, e).state[d] = t.state[d]
<1> DEFINE u == [t EXCEPT !.tracked = @ \ {KeyOf(e)}]
<1>1. e.cust \in AllCustomers
  BY DEF Event
<1>2. u \in Tables /\ u.state = t.state /\ u.tracked = t.tracked \ {KeyOf(e)}
  BY DEF Tables
<1>3. CASE KeyOf(e) \notin t.tracked
  BY <1>3 DEF Uncount, KeyOf, Tables
<1>4. CASE KeyOf(e) \in t.tracked
  <2>1. Uncount(t, e) = WithState(u, e.cust, OneLess(t.state[e.cust]))
    BY <1>4 DEF Uncount, KeyOf
  <2> HIDE DEF u
  <2>2. CASE t.state[e.cust] = NoRow
    BY <1>2, <1>4, <2>1, <2>2 DEF WithState
  <2>3. CASE t.state[e.cust] # NoRow
    <3>1. OneLess(t.state[e.cust]) \in Row
      BY <1>1, <2>3, RowsTyped, RowTyped
    <3>2. Uncount(t, e) = PutState(u, e.cust, OneLess(t.state[e.cust]))
      BY <1>2, <2>1, <2>3 DEF WithState
    <3>3. QED
      BY <1>1, <1>2, <1>4, <2>3, <3>1, <3>2, PutEffect
  <2>4. QED
    BY <2>2, <2>3
<1>5. QED
  BY <1>3, <1>4

\* A lost logo leaves the counts alone, dates the row and leaves an entry.
LEMMA LogoEffect ==
  ASSUME NEW t \in Tables, NEW e \in Event
  PROVE  /\ LogoLost(t, e) \in Tables
         /\ LogoLost(t, e).tracked = t.tracked
         /\ ~NoneActive(t, e.cust) => LogoLost(t, e) = t
         /\ NoneActive(t, e.cust) =>
              /\ LogoLost(t, e).state[e.cust] = ChurnedAt(t.state[e.cust], e)
              /\ Has(LogoLost(t, e), e, "logo")
         /\ \A d \in AllCustomers \ {e.cust} :
               LogoLost(t, e).state[d] = t.state[d]
<1>1. e.cust \in AllCustomers
  BY DEF Event
<1>2. CASE ~NoneActive(t, e.cust)
  BY <1>2 DEF LogoLost
<1>3. CASE NoneActive(t, e.cust)
  <2> DEFINE u == PutState(t, e.cust, ChurnedAt(t.state[e.cust], e))
  <2>1. ChurnedAt(t.state[e.cust], e) \in Row
    BY <1>1, <1>3, RowsTyped, RowTyped DEF NoneActive
  <2>2. /\ u \in Tables /\ u.tracked = t.tracked
        /\ u.state[e.cust] = ChurnedAt(t.state[e.cust], e)
        /\ \A d \in AllCustomers \ {e.cust} : u.state[d] = t.state[d]
    BY <1>1, <2>1, PutEffect
  <2>3. LogoLost(t, e) = WithEntry(u, e, "logo")
    BY <1>3 DEF LogoLost
  <2> HIDE DEF u
  <2>4. QED
    BY <1>3, <2>2, <2>3, EntryEffect DEF Kinds
<1>4. QED
  BY <1>2, <1>3

-----------------------------------------------------------------------------
\* The counter.

Finite(t) == IsFiniteSet(t.tracked)
Good(t) == t \in Tables /\ Finite(t) /\ Counted(t)

\* Customers an event is not about keep their count.
LEMMA CountElsewhere ==
  ASSUME NEW t \in Tables, NEW u \in Tables, NEW e \in Event,
         \/ u.tracked = t.tracked
         \/ u.tracked = t.tracked \union {KeyOf(e)}
         \/ u.tracked = t.tracked \ {KeyOf(e)}
  PROVE  \A d \in AllCustomers \ {e.cust} : TrackedOf(u, d) = TrackedOf(t, d)
BY DEF TrackedOf, KeyOf

LEMMA FiniteOf ==
  ASSUME NEW t, Finite(t), NEW c
  PROVE  /\ IsFiniteSet(TrackedOf(t, c))
         /\ Cardinality(TrackedOf(t, c)) \in Nat
<1>1. TrackedOf(t, c) \subseteq t.tracked
  BY DEF TrackedOf
<1>2. QED
  BY <1>1, FS_Subset, FS_CardinalityType DEF Finite

\* A row of another status than the count leaves the count right.
LEMMA SameCount ==
  ASSUME NEW t, Good(t), NEW u \in Tables, u.tracked = t.tracked,
         \A c \in AllCustomers :
            \/ u.state[c] = t.state[c]
            \/ u.state[c] \in Row /\ t.state[c] # NoRow
                 /\ u.state[c].active = t.state[c].active
            \/ u.state[c] \in Row /\ t.state[c] = NoRow /\ u.state[c].active = 0
  PROVE  Good(u)
<1>1. \A c \in AllCustomers : TrackedOf(u, c) = TrackedOf(t, c)
  BY DEF TrackedOf
<1>2. Cardinality({}) = 0
  BY FS_EmptySet
<1>3. Counted(u)
  BY <1>1, <1>2, RowAssumption DEF Good, Counted
<1>4. QED
  BY <1>3 DEF Good, Finite

LEMMA CountGood ==
  ASSUME NEW t, Good(t), NEW e \in Event, KeyOf(e) \notin t.tracked
  PROVE  Good(Count(t, e))
<1> DEFINE u == Count(t, e)  c == e.cust
<1>1. /\ t \in Tables /\ c \in AllCustomers
      /\ t.state[c] \in Row \union {NoRow}
  BY DEF Good, Event, Tables
<1>2. /\ u \in Tables
      /\ u.tracked = t.tracked \union {KeyOf(e)}
      /\ u.state[c] = OneMore(t.state[c], e)
      /\ \A d \in AllCustomers \ {c} : u.state[d] = t.state[d]
  BY <1>1, CountEffect
<1> HIDE DEF u
<1>3. Finite(u)
  BY <1>2, FS_AddElement DEF Good, Finite
<1>4. /\ TrackedOf(u, c) = TrackedOf(t, c) \union {KeyOf(e)}
      /\ KeyOf(e) \notin TrackedOf(t, c)
  BY <1>2 DEF TrackedOf, KeyOf
<1>5. Cardinality(TrackedOf(u, c)) = Cardinality(TrackedOf(t, c)) + 1
  BY <1>4, FiniteOf, FS_AddElement DEF Good
<1>6. /\ u.state[c] # NoRow
      /\ u.state[c].active = Cardinality(TrackedOf(u, c))
  <2>1. CASE t.state[c] = NoRow
    <3>1. Cardinality(TrackedOf(t, c)) = 0
      BY <1>1, <2>1, FS_EmptySet DEF Good, Counted
    <3>2. QED
      BY <1>1, <1>2, <1>5, <2>1, <3>1, RowsTyped, RowAssumption
  <2>2. CASE t.state[c] # NoRow
    <3>1. t.state[c].active = Cardinality(TrackedOf(t, c))
      BY <1>1, <2>2 DEF Good, Counted
    <3>2. QED
      BY <1>1, <1>2, <1>5, <2>2, <3>1, RowsTyped, RowAssumption
  <2>3. QED
    BY <2>1, <2>2
<1>7. ASSUME NEW d \in AllCustomers \ {c}
      PROVE  TrackedOf(u, d) = TrackedOf(t, d) /\ u.state[d] = t.state[d]
  BY <1>1, <1>2, CountElsewhere
<1>8. Counted(u)
  BY <1>6, <1>7 DEF Good, Counted
<1>9. QED
  BY <1>2, <1>3, <1>8 DEF Good, u

LEMMA UncountGood ==
  ASSUME NEW t, Good(t), NEW e \in Event
  PROVE  Good(Uncount(t, e))
<1> DEFINE u == Uncount(t, e)  c == e.cust
<1>1. t \in Tables /\ c \in AllCustomers
  BY DEF Good, Event
<1>2. CASE KeyOf(e) \notin t.tracked
  BY <1>1, <1>2, UncountEffect
<1>3. CASE KeyOf(e) \in t.tracked
  <2>1. KeyOf(e) \in TrackedOf(t, c)
    BY <1>3 DEF TrackedOf, KeyOf
  <2>2. /\ t.state[c] # NoRow
        /\ t.state[c] \in Row
        /\ t.state[c].active = Cardinality(TrackedOf(t, c))
    BY <1>1, <2>1, RowTyped DEF Good, Counted
  <2>3. /\ u \in Tables
        /\ u.tracked = t.tracked \ {KeyOf(e)}
        /\ u.state[c] = OneLess(t.state[c])
        /\ \A d \in AllCustomers \ {c} : u.state[d] = t.state[d]
    BY <1>1, <1>3, <2>2, UncountEffect
  <2> HIDE DEF u
  <2>4. Finite(u)
    BY <2>3, FS_RemoveElement DEF Good, Finite
  <2>5. TrackedOf(u, c) = TrackedOf(t, c) \ {KeyOf(e)}
    BY <2>3 DEF TrackedOf
  <2>6. /\ Cardinality(TrackedOf(u, c)) = Cardinality(TrackedOf(t, c)) - 1
        /\ Cardinality(TrackedOf(t, c)) \in Nat
        /\ Cardinality(TrackedOf(u, c)) \in Nat
    BY <2>1, <2>4, <2>5, FiniteOf, FS_RemoveElement DEF Good
  <2>7. /\ u.state[c] # NoRow
        /\ u.state[c].active = Cardinality(TrackedOf(u, c))
    BY <2>2, <2>3, <2>6, RowsTyped, RowAssumption
  <2>8. ASSUME NEW d \in AllCustomers \ {c}
        PROVE  TrackedOf(u, d) = TrackedOf(t, d) /\ u.state[d] = t.state[d]
    BY <1>1, <2>3, CountElsewhere
  <2>9. Counted(u)
    BY <2>7, <2>8 DEF Good, Counted
  <2>10. QED
    BY <2>3, <2>4, <2>9 DEF Good, u
<1>4. QED
  BY <1>2, <1>3

LEMMA LogoGood ==
  ASSUME NEW t, Good(t), NEW e \in Event
  PROVE  Good(LogoLost(t, e))
<1>1. t \in Tables /\ e.cust \in AllCustomers
  BY DEF Good, Event
<1>2. CASE ~NoneActive(t, e.cust)
  BY <1>1, <1>2, LogoEffect
<1>3. CASE NoneActive(t, e.cust)
  <2>1. /\ ChurnedAt(t.state[e.cust], e) \in Row
        /\ ChurnedAt(t.state[e.cust], e).active = t.state[e.cust].active
    BY <1>1, <1>3, RowsTyped, RowTyped DEF NoneActive
  <2>2. QED
    BY <1>1, <1>3, <2>1, LogoEffect, SameCount DEF NoneActive
<1>4. QED
  BY <1>2, <1>3

LEMMA EntryGood ==
  ASSUME NEW t, Good(t), NEW e \in Event, NEW kind \in Kinds
  PROVE  Good(WithEntry(t, e, kind))
BY EntryEffect, SameCount DEF Good

\* Handling any event keeps the tables well formed and the counter right.
LEMMA HandleGood ==
  ASSUME NEW t, Good(t), NEW e \in Event
  PROVE  Good(Handle(t, e))
<1>1. /\ t \in Tables /\ e.cust \in AllCustomers /\ e.type \in EventTypes
  BY DEF Good, Event
<1>2. CASE e.type = "created"
  <2>1. Good(Created(t, e))
    <3>1. CASE t.state[e.cust] # NoRow
      BY <3>1 DEF Created
    <3>2. CASE t.state[e.cust] = NoRow
      <4>1. Created(t, e) = PutState(t, e.cust, FreshRow(0, e))
        BY <3>2 DEF Created
      <4>2. FreshRow(0, e) \in Row /\ FreshRow(0, e).active = 0
        BY RowsTyped
      <4>3. QED
        BY <1>1, <3>2, <4>1, <4>2, PutEffect, SameCount
    <3>3. QED
      BY <3>1, <3>2
  <2>2. QED
    BY <1>2, <2>1 DEF Handle
<1>3. CASE e.type \in {"activated", "reactivated"}
  <2>1. Good(Activated(t, e))
    <3>1. CASE KeyOf(e) \notin t.tracked
      BY <3>1, CountGood DEF Activated, KeyOf
    <3>2. CASE KeyOf(e) \in t.tracked
      <4> DEFINE row == [t.state[e.cust] EXCEPT !.churned = Null]
      <4>1. Activated(t, e) = WithState(t, e.cust, row)
        BY <3>2 DEF Activated, KeyOf
      <4>2. CASE t.state[e.cust] = NoRow
        BY <4>1, <4>2 DEF WithState
      <4>3. CASE t.state[e.cust] # NoRow
        <5>1. row \in Row /\ row.active = t.state[e.cust].active
          BY <1>1, <4>3, RowTyped DEF Row
        <5>2. Activated(t, e) = PutState(t, e.cust, row)
          BY <4>1, <4>3 DEF WithState
        <5> HIDE DEF row
        <5>3. QED
          BY <1>1, <4>3, <5>1, <5>2, PutEffect, SameCount
      <4>4. QED
        BY <4>2, <4>3
    <3>3. QED
      BY <3>1, <3>2
  <2>2. QED
    BY <1>3, <2>1 DEF Handle
<1>4. CASE e.type = "churned"
  <2>1. Good(Churned(t, e))
    BY UncountGood, LogoGood, EntryGood DEF Churned, Kinds
  <2>2. QED
    BY <1>4, <2>1 DEF Handle
<1>5. CASE e.type = "canceled"
  BY <1>5, EntryGood DEF Handle, Kinds
<1>6. QED
  BY <1>1, <1>2, <1>3, <1>4, <1>5 DEF EventTypes

-----------------------------------------------------------------------------
\* Handling an event twice is handling it once.

LEMMA ActivatedTwice ==
  ASSUME NEW t \in Tables, NEW e \in Event
  PROVE  Activated(Activated(t, e), e) = Activated(t, e)
<1> DEFINE u == Activated(t, e)  c == e.cust
<1>1. c \in AllCustomers /\ t.state[c] \in Row \union {NoRow}
  BY DEF Event, Tables
\* After the first time the subscription is tracked and the churn is cleared.
<1>2. /\ u \in Tables
      /\ KeyOf(e) \in u.tracked
      /\ u.state[c] # NoRow => u.state[c] \in Row /\ u.state[c].churned = Null
  <2>1. CASE KeyOf(e) \notin t.tracked
    <3>1. u = Count(t, e)
      BY <2>1 DEF Activated, KeyOf
    <3>2. QED
      BY <1>1, <3>1, CountEffect, RowsTyped
  <2>2. CASE KeyOf(e) \in t.tracked
    <3> DEFINE row == [t.state[c] EXCEPT !.churned = Null]
    <3>1. u = WithState(t, c, row)
      BY <2>2 DEF Activated, KeyOf
    <3>2. CASE t.state[c] = NoRow
      BY <2>2, <3>1, <3>2 DEF WithState
    <3>3. CASE t.state[c] # NoRow
      <4>1. row \in Row /\ row.churned = Null
        BY <1>1, <3>3 DEF Row
      <4>2. u = PutState(t, c, row)
        BY <3>1, <3>3 DEF WithState
      <4> HIDE DEF row
      <4>3. QED
        BY <1>1, <2>2, <4>1, <4>2, PutEffect
    <3>4. QED
      BY <3>2, <3>3
  <2>3. QED
    BY <2>1, <2>2
<1> HIDE DEF u
<1>3. Activated(u, e) = WithState(u, c, [u.state[c] EXCEPT !.churned = Null])
  BY <1>2 DEF Activated, KeyOf
<1>4. CASE u.state[c] = NoRow
  BY <1>3, <1>4 DEF WithState, u
<1>5. CASE u.state[c] # NoRow
  <2>1. [u.state[c] EXCEPT !.churned = Null] = u.state[c]
    BY <1>2, <1>5 DEF Row
  <2>2. Activated(u, e) = PutState(u, c, u.state[c])
    BY <1>3, <1>5, <2>1 DEF WithState
  <2>3. QED
    BY <1>1, <1>2, <2>2, PutSame DEF u
<1>6. QED
  BY <1>4, <1>5

LEMMA ChurnedTwice ==
  ASSUME NEW t \in Tables, NEW e \in Event
  PROVE  Churned(Churned(t, e), e) = Churned(t, e)
<1> DEFINE a == Uncount(t, e)
           b == LogoLost(a, e)
           u == Churned(t, e)
           c == e.cust
<1>1. c \in AllCustomers
  BY DEF Event
<1>2. a \in Tables /\ KeyOf(e) \notin a.tracked
  BY UncountEffect
<1>3. /\ b \in Tables /\ b.tracked = a.tracked
      /\ ~NoneActive(a, c) => b = a
      /\ NoneActive(a, c) =>
           b.state[c] = ChurnedAt(a.state[c], e) /\ Has(b, e, "logo")
  BY <1>2, LogoEffect
<1>4. /\ u \in Tables /\ u.tracked = b.tracked /\ u.state = b.state
      /\ Has(u, e, "revenue")
      /\ Has(b, e, "logo") => Has(u, e, "logo")
  <2>1. u = WithEntry(b, e, "revenue")
    BY DEF Churned
  <2> HIDE DEF u, b
  <2>2. QED
    BY <1>3, <2>1, EntryEffect DEF Kinds
<1> HIDE DEF a, b, u
<1>5. Uncount(u, e) = u
  BY <1>2, <1>3, <1>4, UncountEffect
<1>6. LogoLost(u, e) = u
  <2>1. CASE ~NoneActive(u, c)
    BY <1>4, <2>1, LogoEffect
  <2>2. CASE NoneActive(u, c)
    \* The first time found nothing active either, and dated the churn.
    <3>1. NoneActive(a, c)
      BY <1>3, <1>4, <2>2 DEF NoneActive
    <3>2. a.state[c] \in Row
      BY <1>1, <1>2, <3>1, RowTyped DEF NoneActive
    <3>3. u.state[c] = ChurnedAt(a.state[c], e) /\ Has(u, e, "logo")
      BY <1>3, <1>4, <3>1
    <3>4. ChurnedAt(u.state[c], e) = u.state[c]
      BY <3>2, <3>3 DEF ChurnedAt, Row
    <3>5. LogoLost(u, e) = WithEntry(PutState(u, c, u.state[c]), e, "logo")
      BY <2>2, <3>4 DEF LogoLost
    <3>6. QED
      BY <1>1, <1>4, <3>3, <3>5, PutSame, EntrySame DEF Kinds
  <2>3. QED
    BY <2>1, <2>2
<1>7. WithEntry(u, e, "revenue") = u
  BY <1>4, EntrySame DEF Kinds
<1>8. Churned(u, e) = u
  BY <1>5, <1>6, <1>7 DEF Churned
<1>9. QED
  BY <1>8 DEF u

LEMMA HandleTwice ==
  ASSUME NEW t \in Tables, NEW e \in Event
  PROVE  Handle(Handle(t, e), e) = Handle(t, e)
<1>1. e.cust \in AllCustomers /\ e.type \in EventTypes
  BY DEF Event
<1>2. CASE e.type = "created"
  <2>1. Created(Created(t, e), e) = Created(t, e)
    <3>1. FreshRow(0, e) \in Row /\ FreshRow(0, e) # NoRow
      BY RowsTyped, RowAssumption
    <3>2. PutState(t, e.cust, FreshRow(0, e)).state[e.cust] = FreshRow(0, e)
      BY <1>1, <3>1, PutEffect
    <3>3. Created(t, e).state[e.cust] # NoRow
      BY <3>1, <3>2 DEF Created
    <3>4. QED
      BY <3>3 DEF Created
  <2>2. QED
    BY <1>2, <2>1 DEF Handle
<1>3. CASE e.type \in {"activated", "reactivated"}
  BY <1>3, ActivatedTwice DEF Handle
<1>4. CASE e.type = "churned"
  BY <1>4, ChurnedTwice DEF Handle
<1>5. CASE e.type = "canceled"
  <2>1. WithEntry(WithEntry(t, e, "canceled"), e, "canceled")
          = WithEntry(t, e, "canceled")
    BY EntryEffect, EntrySame DEF Kinds
  <2>2. QED
    BY <1>5, <2>1 DEF Handle
<1>6. QED
  BY <1>1, <1>2, <1>3, <1>4, <1>5 DEF EventTypes

-----------------------------------------------------------------------------
\* What every step does to the tables.

LEMMA HandleTyped ==
  ASSUME NEW t \in Tables, NEW e \in Event
  PROVE  Handle(t, e) \in Tables
<1>1. /\ e.cust \in AllCustomers /\ e.type \in EventTypes
      /\ t.state[e.cust] \in Row \union {NoRow}
  BY DEF Event, Tables
<1>2. CASE e.type = "created"
  BY <1>1, <1>2, PutEffect, RowsTyped DEF Handle, Created
<1>3. CASE e.type \in {"activated", "reactivated"}
  <2>1. t.state[e.cust] # NoRow =>
          [t.state[e.cust] EXCEPT !.churned = Null] \in Row
    BY <1>1 DEF Row
  <2>2. QED
    BY <1>1, <1>3, <2>1, CountEffect, PutEffect DEF Handle, Activated, WithState
<1>4. CASE e.type = "churned"
  BY <1>4, UncountEffect, LogoEffect, EntryEffect DEF Handle, Churned, Kinds
<1>5. CASE e.type = "canceled"
  BY <1>5, EntryEffect DEF Handle, Kinds
<1>6. QED
  BY <1>1, <1>2, <1>3, <1>4, <1>5 DEF EventTypes

LEMMA EmittedTyped ==
  ASSUME NEW s \in Subs, NEW type \in EventTypes, clock \in Nat
  PROVE  Emitted(s, type) \in Event
BY CustomersAssumption DEF Emitted, Event, AllCustomers

LEMMA ReplayedTyped ==
  ASSUME NEW e \in Event
  PROVE  [e EXCEPT !.cust = NoCustomer] \in Event
BY DEF Event, AllCustomers

\* A step handles an event, which then is the last one, or it leaves the tables
\* alone and the last event too, or forgets it.
LEMMA TableStep ==
  ASSUME TypeOK, [Next]_vars
  PROVE  \/ \E e \in Event : tables' = Handle(tables, e) /\ last' = e
         \/ tables' = tables /\ last' \in {last, NoEvent}
<1>1. ASSUME NEW s \in Subs, NEW type \in EventTypes, NEW to \in Lives,
             Deliver(s, type, to)
      PROVE  \E e \in Event : tables' = Handle(tables, e) /\ last' = e
  BY <1>1, EmittedTyped DEF Deliver, TypeOK
<1>2. ASSUME NEW s \in Subs, NEW type \in EventTypes, NEW to \in Lives,
             Park(s, type, to)
      PROVE  tables' = tables /\ last' \in {last, NoEvent}
  BY <1>2 DEF Park
<1>3. CASE Redeliver
  BY <1>3 DEF Redeliver, TypeOK
<1>4. ASSUME NEW e \in sent, Replay(e)
      PROVE  \E f \in Event : tables' = Handle(tables, f) /\ last' = f
  <2>1. e \in Event
    BY DEF TypeOK
  <2>2. QED
    BY <1>4, <2>1, ReplayedTyped DEF Replay
<1>5. ASSUME NEW e \in sent, Resend(e)
      PROVE  \E f \in Event : tables' = Handle(tables, f) /\ last' = f
  BY <1>5 DEF Resend, TypeOK
<1>6. CASE UNCHANGED vars
  BY <1>6 DEF vars
<1>7. QED
  BY <1>1, <1>2, <1>3, <1>4, <1>5, <1>6 DEF Next

LEMMA TypingStep == TypeOK /\ [Next]_vars => TypeOK'
<1> SUFFICES ASSUME TypeOK, [Next]_vars PROVE TypeOK'
  OBVIOUS
<1>1. tables' \in Tables /\ last' \in Event \union {NoEvent}
  BY TableStep, HandleTyped DEF TypeOK
<1>2. ASSUME NEW s \in Subs, NEW type \in EventTypes, NEW to \in Lives,
             Emit(s, type, to)
      PROVE  /\ life' \in [Subs -> Lives] /\ clock' \in Nat
             /\ sent' \subseteq Event /\ sent \subseteq sent'
             /\ Emitted(s, type) \in sent'
  <2>1. Emitted(s, type) \in Event /\ CustomerOf[s] \in Customers
    BY EmittedTyped, CustomersAssumption DEF TypeOK
  <2>2. QED
    BY <1>2, <2>1 DEF Emit, TypeOK
<1>3. ASSUME NEW s \in Subs, NEW type \in EventTypes, NEW to \in Lives,
             Deliver(s, type, to) \/ Park(s, type, to)
      PROVE  TypeOK'
  BY <1>1, <1>2, <1>3 DEF Deliver, Park, TypeOK
<1>4. CASE Redeliver
  BY <1>1, <1>4 DEF Redeliver, TypeOK
<1>5. ASSUME NEW e \in sent, Replay(e) \/ Resend(e) PROVE TypeOK'
  BY <1>1, <1>5 DEF Replay, Resend, TypeOK
<1>6. CASE UNCHANGED vars
  BY <1>6 DEF vars, TypeOK
<1>7. QED
  BY <1>3, <1>4, <1>5, <1>6 DEF Next

\* Every variable of ChurnMetric stays in its set.
THEOREM TypeCorrect == Spec => []TypeOK
<1>1. Init => TypeOK
  BY DEF Init, TypeOK, Empty, Tables, Lives
<1>2. QED
  BY <1>1, TypingStep, PTL DEF Spec

-----------------------------------------------------------------------------
\* The counter, the churned customers, and the redelivery window.

\* A churned customer's row counts nothing.
ChurnedZero(t) ==
  \A c \in AllCustomers :
     t.state[c] # NoRow /\ t.state[c].churned # Null => t.state[c].active = 0

LEMMA HandleZero ==
  ASSUME NEW t \in Tables, ChurnedZero(t), NEW e \in Event
  PROVE  ChurnedZero(Handle(t, e))
<1>1. /\ e.cust \in AllCustomers /\ e.type \in EventTypes
      /\ t.state[e.cust] \in Row \union {NoRow}
  BY DEF Event, Tables
<1>2. CASE e.type = "created"
  <2>1. FreshRow(0, e) \in Row /\ FreshRow(0, e).active = 0
    BY RowsTyped
  <2>2. ChurnedZero(Created(t, e))
    BY <1>1, <2>1, PutEffect DEF Created, ChurnedZero
  <2>3. QED
    BY <1>2, <2>2 DEF Handle
<1>3. CASE e.type \in {"activated", "reactivated"}
  <2>1. CASE KeyOf(e) \notin t.tracked
    <3>1. ChurnedZero(Count(t, e))
      BY <1>1, CountEffect, RowsTyped DEF ChurnedZero
    <3>2. QED
      BY <1>3, <2>1, <3>1 DEF Handle, Activated, KeyOf
  <2>2. CASE KeyOf(e) \in t.tracked
    <3> DEFINE row == [t.state[e.cust] EXCEPT !.churned = Null]
    <3>1. Handle(t, e) = WithState(t, e.cust, row)
      BY <1>3, <2>2 DEF Handle, Activated, KeyOf
    <3>2. CASE t.state[e.cust] = NoRow
      BY <3>1, <3>2 DEF WithState
    <3>3. CASE t.state[e.cust] # NoRow
      <4>1. row \in Row /\ row.churned = Null
        BY <1>1, <3>3 DEF Row
      <4>2. Handle(t, e) = PutState(t, e.cust, row)
        BY <3>1, <3>3 DEF WithState
      <4> HIDE DEF row
      <4>3. QED
        BY <1>1, <4>1, <4>2, PutEffect DEF ChurnedZero
    <3>4. QED
      BY <3>2, <3>3
  <2>3. QED
    BY <2>1, <2>2
<1>4. CASE e.type = "churned"
  <2> DEFINE a == Uncount(t, e)
             b == LogoLost(a, e)
  <2>1. a \in Tables /\ ChurnedZero(a)
    <3>1. t.state[e.cust] # NoRow =>
            /\ OneLess(t.state[e.cust]).active \in {0, t.state[e.cust].active - 1}
            /\ t.state[e.cust].active = 0 => OneLess(t.state[e.cust]).active = 0
            /\ OneLess(t.state[e.cust]).churned = t.state[e.cust].churned
      BY <1>1 DEF OneLess, Row
    <3>2. QED
      BY <1>1, <3>1, UncountEffect DEF ChurnedZero
  <2> HIDE DEF a
  <2>2. b \in Tables /\ ChurnedZero(b)
    <3>1. NoneActive(a, e.cust) => ChurnedAt(a.state[e.cust], e).active = 0
      BY <1>1, <2>1, RowsTyped, RowTyped DEF NoneActive
    <3>2. QED
      BY <1>1, <2>1, <3>1, LogoEffect DEF ChurnedZero
  <2> HIDE DEF b
  <2>3. ChurnedZero(WithEntry(b, e, "revenue"))
    BY <2>2, EntryEffect DEF ChurnedZero, Kinds
  <2>4. QED
    BY <1>4, <2>3 DEF Handle, Churned, a, b
<1>5. CASE e.type = "canceled"
  BY <1>5, EntryEffect DEF Handle, ChurnedZero, Kinds
<1>6. QED
  BY <1>1, <1>2, <1>3, <1>4, <1>5 DEF EventTypes

\* The inductive invariant: the counter is right, a churned customer counts
\* nothing, and handling the last event again would change nothing.
IInv == /\ Good(tables)
        /\ ChurnedZero(tables)
        /\ last # NoEvent => Handle(tables, last) = tables

LEMMA InvStep == TypeOK /\ IInv /\ [Next]_vars => IInv'
<1> SUFFICES ASSUME TypeOK, IInv, [Next]_vars PROVE IInv'
  OBVIOUS
<1>1. ASSUME NEW e \in Event, tables' = Handle(tables, e), last' = e
      PROVE  IInv'
  <2>1. Good(Handle(tables, e)) /\ ChurnedZero(Handle(tables, e))
    BY HandleGood, HandleZero DEF IInv, Good
  <2>2. Handle(Handle(tables, e), e) = Handle(tables, e)
    BY HandleTwice DEF IInv, Good
  <2>3. QED
    BY <1>1, <2>1, <2>2 DEF IInv
<1>2. CASE tables' = tables /\ last' \in {last, NoEvent}
  BY <1>2 DEF IInv
<1>3. QED
  BY <1>1, <1>2, TableStep

LEMMA InvAlways == Spec => []IInv
<1>1. Init => IInv
  <2> SUFFICES ASSUME Init PROVE IInv
    OBVIOUS
  <2>1. tables \in Tables /\ tables.tracked = {}
    BY DEF Init, Empty, Tables
  <2>2. \A c \in AllCustomers : tables.state[c] = NoRow
    BY DEF Init, Empty
  <2>3. QED
    BY <2>1, <2>2, FS_EmptySet
       DEF Init, IInv, Good, Finite, Counted, ChurnedZero, TrackedOf
<1>2. QED
  BY <1>1, InvStep, TypeCorrect, PTL DEF Spec

\* active_subscriptions is the number of tracked subscriptions of the customer,
\* for any number of customers and subscriptions and whatever is delivered again.
THEOREM CounterCorrect == Spec => []CountMatches
<1>1. IInv => CountMatches
  BY DEF IInv, Good, CountMatches
<1>2. QED
  BY <1>1, InvAlways, PTL

\* A customer marked churned has no subscription left in the tracking table.
THEOREM ChurnedMeansNone == Spec => []ChurnedHasNone
<1>1. IInv => ChurnedHasNone
  <2> SUFFICES ASSUME IInv, NEW c \in AllCustomers,
                      tables.state[c] # NoRow, tables.state[c].churned # Null
               PROVE  TrackedOf(tables, c) = {}
    BY DEF ChurnedHasNone
  <2>1. Cardinality(TrackedOf(tables, c)) = 0
    BY DEF IInv, ChurnedZero, Good, Counted
  <2>2. IsFiniteSet(TrackedOf(tables, c))
    BY FiniteOf DEF IInv, Good
  <2>3. QED
    BY <2>1, <2>2, FS_EmptySet
<1>2. QED
  BY <1>1, InvAlways, PTL

\* Handling the event whose offset was not committed again changes no table.
THEOREM RedeliveryHarmless == Spec => RedeliveryIsIdempotent
<1>1. IInv /\ [Next]_vars => [Redeliver => UNCHANGED tables]_vars
  BY DEF IInv, Redeliver
<1>2. QED
  BY <1>1, InvAlways, PTL DEF Spec, RedeliveryIsIdempotent

-----------------------------------------------------------------------------
\* Churn dates.

\* The event a connector emitted that a delivered one comes from: itself, or,
\* when it is a replay, the one with its customer.
Original(f, e) == f = e \/ f = [e EXCEPT !.cust = NoCustomer]

\* An emitted event is of its subscription's customer; a delivered one, and a
\* logo entry, comes from an emitted one.
Traced ==
  /\ \A e \in sent : e.cust = CustomerOf[e.sub]
  /\ last # NoEvent => \E e \in sent : Original(last, e)
  /\ \A x \in tables.entries : x.kind = "logo" =>
       \E e \in sent : /\ e.type = "churned" /\ Id(e) = x.id /\ e.at = x.at
                       /\ x.cust \in {e.cust, NoCustomer}

\* What handling an event adds to the logo entries.
LEMMA LogoEntries ==
  ASSUME NEW t \in Tables, NEW f \in Event,
         NEW x \in Handle(t, f).entries, x.kind = "logo", x \notin t.entries
  PROVE  f.type = "churned" /\ x.id = Id(f) /\ x.cust = f.cust /\ x.at = f.at
<1>1. f.cust \in AllCustomers /\ f.type \in EventTypes
  BY DEF Event
<1>2. ASSUME NEW u, NEW kind, NEW y \in WithEntry(u, f, kind).entries, u \in Tables
      PROVE  y \in u.entries \/
               (y.kind = kind /\ y.id = Id(f) /\ y.cust = f.cust /\ y.at = f.at)
  BY <1>2 DEF WithEntry, Tables
<1>3. \A u, row : PutState(u, f.cust, row).entries = u.entries
                  \/ u \notin Tables
  BY DEF PutState, Tables
<1>4. \A u, row : WithState(u, f.cust, row).entries = u.entries
                  \/ u \notin Tables
  BY <1>3 DEF WithState
<1>5. CASE f.type = "created"
  BY <1>3, <1>5 DEF Handle, Created
<1>6. CASE f.type \in {"activated", "reactivated"}
  <2> DEFINE u == [t EXCEPT !.tracked = @ \union {<<f.cust, f.sub>>}]
  <2>1. u \in Tables /\ u.entries = t.entries
    BY <1>1 DEF Tables, Event
  <2>2. Count(t, f).entries = t.entries
    BY <1>3, <2>1 DEF Count
  <2> QED
    BY <1>4, <1>6, <2>2 DEF Handle, Activated
<1>7. CASE f.type = "canceled"
  <2>1. Handle(t, f) = WithEntry(t, f, "canceled")
    BY <1>7 DEF Handle
  <2> QED
    BY <1>2, <2>1
<1>8. CASE f.type = "churned"
  <2> DEFINE a == Uncount(t, f)
             b == LogoLost(a, f)
  <2>1. a \in Tables
    BY UncountEffect
  <2>2. a.entries = t.entries
    <3> DEFINE u == [t EXCEPT !.tracked = @ \ {<<f.cust, f.sub>>}]
    <3>1. u \in Tables /\ u.entries = t.entries
      BY DEF Tables
    <3> QED
      BY <1>4, <3>1 DEF Uncount
  <2>3. b \in Tables
    BY <2>1, LogoEffect
  <2>4. Handle(t, f) = WithEntry(b, f, "revenue")
    BY <1>8 DEF Handle, Churned
  <2> HIDE DEF a, b
  <2>5. x \in b.entries
    BY <1>2, <2>3, <2>4
  <2>6. CASE ~NoneActive(a, f.cust)
    BY <2>1, <2>2, <2>5, <2>6, LogoEffect DEF b
  <2>7. CASE NoneActive(a, f.cust)
    <3> DEFINE v == PutState(a, f.cust, ChurnedAt(a.state[f.cust], f))
    <3>1. v \in Tables
      BY <1>1, <2>1, <2>7, RowsTyped, RowTyped, PutEffect DEF NoneActive
    <3>2. v.entries = a.entries
      BY <1>3, <2>1
    <3>3. b = WithEntry(v, f, "logo")
      BY <2>7 DEF b, LogoLost
    <3> HIDE DEF v
    <3> QED
      BY <1>2, <1>8, <2>2, <2>5, <3>1, <3>2, <3>3
  <2> QED
    BY <2>6, <2>7
<1> QED
  BY <1>1, <1>5, <1>6, <1>7, <1>8 DEF EventTypes

\* Entries stay, and a row's churned_at is what it was, NULL, or the date of the
\* churned event that was handled and has a logo entry.
LEMMA ChurnDates ==
  ASSUME NEW t \in Tables, NEW f \in Event
  PROVE  /\ t.entries \subseteq Handle(t, f).entries
         /\ \A c \in AllCustomers :
              \/ Handle(t, f).state[c] = NoRow
              \/ Handle(t, f).state[c].churned = Null
              \/ /\ t.state[c] # NoRow
                 /\ Handle(t, f).state[c].churned = t.state[c].churned
              \/ /\ c = f.cust /\ f.type = "churned"
                 /\ Handle(t, f).state[c].churned = f.at
                 /\ Has(Handle(t, f), f, "logo")
<1> DEFINE old == t.state[f.cust]
<1>1. f.cust \in AllCustomers /\ f.sub \in Subs /\ f.type \in EventTypes /\ f.at \in Nat
  BY DEF Event
<1>2. old \in Row \union {NoRow}
  BY <1>1 DEF Tables
<1>3. \A u \in Tables : \A kind :
        /\ u.entries \subseteq WithEntry(u, f, kind).entries
        /\ WithEntry(u, f, kind).state = u.state
  BY DEF WithEntry, Tables
<1>4. CASE f.type = "created"
  <2>1. FreshRow(0, f) \in Row /\ FreshRow(0, f).churned = Null
    BY RowsTyped DEF FreshRow
  <2> QED
    BY <1>1, <1>4, <2>1, PutEffect DEF Handle, Created
<1>5. CASE f.type \in {"activated", "reactivated"}
  <2>1. CASE <<f.cust, f.sub>> \notin t.tracked
    <3>1. Handle(t, f) = Count(t, f)
      BY <1>5, <2>1 DEF Handle, Activated
    <3>2. OneMore(old, f) \in Row /\ OneMore(old, f).churned = Null
      BY <1>2, RowsTyped
    <3> DEFINE u == [t EXCEPT !.tracked = @ \union {<<f.cust, f.sub>>}]
    <3>3. u \in Tables /\ u.entries = t.entries
      BY <1>1 DEF Tables
    <3>4. Count(t, f).entries = t.entries
      BY <1>1, <3>2, <3>3, PutEffect DEF Count
    <3> QED
      BY <1>1, <3>1, <3>2, <3>4, CountEffect
  <2>2. CASE <<f.cust, f.sub>> \in t.tracked
    <3> DEFINE new == [old EXCEPT !.churned = Null]
    <3>1. Handle(t, f) = WithState(t, f.cust, new)
      BY <1>5, <2>2 DEF Handle, Activated
    <3>2. CASE old = NoRow
      BY <3>1, <3>2 DEF WithState
    <3>3. CASE old # NoRow
      <4>1. new \in Row /\ new.churned = Null
        BY <1>2, <3>3 DEF Row
      <4>2. Handle(t, f) = PutState(t, f.cust, new)
        BY <3>1, <3>3 DEF WithState
      <4> HIDE DEF new
      <4> QED
        BY <1>1, <4>1, <4>2, PutEffect
    <3> QED
      BY <3>2, <3>3
  <2> QED
    BY <2>1, <2>2
<1>6. CASE f.type = "canceled"
  BY <1>3, <1>6 DEF Handle
<1>7. CASE f.type = "churned"
  <2> DEFINE a == Uncount(t, f)
             b == LogoLost(a, f)
  <2>1. a \in Tables
    BY UncountEffect
  <2>2. a.entries = t.entries
    <3> DEFINE u == [t EXCEPT !.tracked = @ \ {<<f.cust, f.sub>>}]
    <3>1. u \in Tables /\ u.entries = t.entries /\ u.state = t.state
      BY DEF Tables
    <3>2. old # NoRow => OneLess(old) \in Row
      BY <1>2, RowsTyped
    <3> HIDE DEF u
    <3>3. WithState(u, f.cust, OneLess(old)).entries = u.entries
      BY <1>1, <3>1, <3>2, PutEffect DEF WithState
    <3> QED
      BY <3>1, <3>3 DEF Uncount, u
  <2>3. \A c \in AllCustomers :
          \/ a.state[c] = NoRow
          \/ t.state[c] # NoRow /\ a.state[c].churned = t.state[c].churned
    <3>1. old # NoRow => OneLess(old).churned = old.churned
      BY <1>2 DEF OneLess, Row
    <3> QED
      BY <1>1, <3>1, UncountEffect
  <2>4. b \in Tables
    BY <2>1, LogoEffect
  <2>5. Handle(t, f) = WithEntry(b, f, "revenue")
    BY <1>7 DEF Handle, Churned
  <2> HIDE DEF a
  <2>6. a.entries \subseteq b.entries
    <3>1. CASE ~NoneActive(a, f.cust)
      BY <2>1, <3>1, LogoEffect
    <3>2. CASE NoneActive(a, f.cust)
      <4>1. ChurnedAt(a.state[f.cust], f) \in Row
        BY <1>1, <2>1, <3>2, RowsTyped, RowTyped DEF NoneActive
      <4> QED
        BY <1>1, <1>3, <2>1, <3>2, <4>1, PutEffect DEF LogoLost
    <3> QED
      BY <3>1, <3>2
  <2>7. \A c \in AllCustomers :
          \/ b.state[c] = a.state[c]
          \/ c = f.cust /\ b.state[c].churned = f.at /\ Has(b, f, "logo")
    <3>1. NoneActive(a, f.cust) => ChurnedAt(a.state[f.cust], f).churned = f.at
      BY <1>1, <2>1, RowsTyped, RowTyped DEF NoneActive
    <3> QED
      BY <1>1, <2>1, <3>1, LogoEffect
  <2> HIDE DEF b
  <2>8. /\ b.entries \subseteq Handle(t, f).entries
        /\ Handle(t, f).state = b.state
        /\ Has(b, f, "logo") => Has(Handle(t, f), f, "logo")
    BY <1>3, <2>4, <2>5 DEF Has
  <2> QED
    BY <1>7, <2>2, <2>3, <2>6, <2>7, <2>8
<1> QED
  BY <1>1, <1>4, <1>5, <1>6, <1>7 DEF EventTypes

\* A step delivers an event that comes from an emitted one, or no event.
LEMMA Delivered ==
  ASSUME TypeOK, Traced, [Next]_vars
  PROVE  /\ sent \subseteq sent'
         /\ \A e \in sent' : e.cust = CustomerOf[e.sub]
         /\ \/ \E f \in Event, e \in sent' :
                  tables' = Handle(tables, f) /\ last' = f /\ Original(f, e)
            \/ tables' = tables /\ last' \in {last, NoEvent}
<1>1. ASSUME NEW s \in Subs, NEW type \in EventTypes, NEW to \in Lives, Emit(s, type, to)
      PROVE  /\ sent \subseteq sent' /\ Emitted(s, type) \in sent'
             /\ \A e \in sent' : e.cust = CustomerOf[e.sub]
  <2>1. Emitted(s, type).cust = CustomerOf[Emitted(s, type).sub]
    BY DEF Emitted
  <2> QED
    BY <1>1, <2>1 DEF Emit, Traced
<1>2. ASSUME NEW s \in Subs, NEW type \in EventTypes, NEW to \in Lives,
             Deliver(s, type, to)
      PROVE  \E f \in Event, e \in sent' :
               tables' = Handle(tables, f) /\ last' = f /\ Original(f, e)
  <2>1. Emitted(s, type) \in Event /\ Emitted(s, type) \in sent'
    BY <1>1, <1>2, EmittedTyped DEF Deliver, TypeOK
  <2> QED
    BY <1>2, <2>1 DEF Deliver, Original
<1>3. ASSUME NEW s \in Subs, NEW type \in EventTypes, NEW to \in Lives,
             Deliver(s, type, to) \/ Park(s, type, to)
      PROVE  Emit(s, type, to)
  BY <1>3 DEF Deliver, Park
<1>4. ASSUME NEW s \in Subs, NEW type \in EventTypes, NEW to \in Lives,
             Park(s, type, to)
      PROVE  tables' = tables /\ last' \in {last, NoEvent}
  BY <1>4 DEF Park
<1>5. ASSUME Redeliver \/ (\E e \in sent : Replay(e) \/ Resend(e)) \/ UNCHANGED vars
      PROVE  sent' = sent
  BY <1>5 DEF Redeliver, Replay, Resend, vars
<1>6. CASE Redeliver
  <2>1. \E e \in sent : Original(last, e)
    BY <1>6 DEF Redeliver, Traced
  <2>2. last \in Event /\ tables' = Handle(tables, last) /\ last' = last
    BY <1>6 DEF Redeliver, TypeOK
  <2> QED
    BY <1>5, <1>6, <2>1, <2>2 DEF Traced
<1>7. ASSUME NEW e \in sent, Replay(e)
      PROVE  \E f \in Event : tables' = Handle(tables, f) /\ last' = f /\ Original(f, e)
  <2>1. e \in Event
    BY DEF TypeOK
  <2> QED
    BY <1>7, <2>1, ReplayedTyped DEF Replay, Original
<1>8. ASSUME NEW e \in sent, Resend(e)
      PROVE  e \in Event /\ tables' = Handle(tables, e) /\ last' = e /\ Original(e, e)
  BY <1>8 DEF Resend, TypeOK, Original
<1>9. CASE \E e \in sent : Replay(e) \/ Resend(e)
  BY <1>5, <1>7, <1>8, <1>9 DEF Traced
<1>10. CASE UNCHANGED vars
  BY <1>10 DEF vars, Traced
<1>11. CASE \E s \in Subs, type \in EventTypes, to \in Lives :
              Deliver(s, type, to) \/ Park(s, type, to)
  BY <1>1, <1>2, <1>3, <1>4, <1>11
<1> QED
  BY <1>6, <1>9, <1>10, <1>11 DEF Next

LEMMA TracedStep ==
  ASSUME TypeOK, Traced, [Next]_vars
  PROVE  Traced'
<1>1. sent \subseteq sent' /\ \A e \in sent' : e.cust = CustomerOf[e.sub]
  BY Delivered
<1>2. ASSUME NEW f \in Event, NEW e \in sent',
             tables' = Handle(tables, f), last' = f, Original(f, e)
      PROVE  Traced'
  <2>1. /\ f.type = e.type /\ Id(f) = Id(e) /\ f.at = e.at
        /\ f.cust \in {e.cust, NoCustomer}
    <3>1. e \in Event
      BY TypingStep DEF TypeOK
    <3> QED
      BY <1>2, <3>1 DEF Original, Event, Id
  <2>2. ASSUME NEW x \in tables'.entries, x.kind = "logo"
        PROVE  \E g \in sent' : /\ g.type = "churned" /\ Id(g) = x.id /\ g.at = x.at
                                /\ x.cust \in {g.cust, NoCustomer}
    <3>1. CASE x \in tables.entries
      BY <1>1, <2>2, <3>1 DEF Traced
    <3>2. CASE x \notin tables.entries
      <4>1. f.type = "churned" /\ x.id = Id(f) /\ x.cust = f.cust /\ x.at = f.at
        BY <1>2, <2>2, <3>2, LogoEntries DEF TypeOK
      <4> QED
        BY <2>1, <4>1
    <3> QED
      BY <3>1, <3>2
  <2> QED
    BY <1>1, <1>2, <2>2 DEF Traced
<1>3. CASE tables' = tables /\ last' \in {last, NoEvent}
  BY <1>1, <1>3 DEF Traced
<1> QED
  BY <1>2, <1>3, Delivered

LEMMA DatedStep ==
  ASSUME TypeOK, Traced, ChurnIsDated, [Next]_vars
  PROVE  ChurnIsDated'
<1>1. sent \subseteq sent' /\ (\A e \in sent' : e.cust = CustomerOf[e.sub]) /\ Traced'
  BY Delivered, TracedStep
<1> SUFFICES ASSUME UniqueChurns', NEW c \in Customers,
                    tables'.state[c] # NoRow, tables'.state[c].churned # Null
             PROVE  Logo(tables', c, tables'.state[c].churned)
  BY DEF ChurnIsDated
<1>2. UniqueChurns
  BY <1>1 DEF UniqueChurns
<1>3. c \in AllCustomers /\ c # NoCustomer
  BY CustomersAssumption DEF AllCustomers
<1>4. CASE tables' = tables
  BY <1>2, <1>4 DEF ChurnIsDated
<1>5. ASSUME NEW f \in Event, NEW e \in sent', tables' = Handle(tables, f), Original(f, e)
      PROVE  Logo(tables', c, tables'.state[c].churned)
  <2>1. e \in Event /\ tables \in Tables
    BY TypingStep DEF TypeOK
  <2>2. /\ f.type = e.type /\ Id(f) = Id(e) /\ f.at = e.at /\ f.sub = e.sub
        /\ f.cust \in {e.cust, NoCustomer}
    BY <1>5, <2>1 DEF Original, Event, Id
  <2>3. CASE tables.state[c] # NoRow /\ tables'.state[c].churned = tables.state[c].churned
    <3>1. Logo(tables, c, tables'.state[c].churned)
      BY <1>2, <2>3 DEF ChurnIsDated
    <3>2. tables.entries \subseteq tables'.entries
      BY <1>5, <2>1, ChurnDates
    <3> QED
      BY <3>1, <3>2 DEF Logo
  <2>4. CASE /\ c = f.cust /\ f.type = "churned"
             /\ tables'.state[c].churned = f.at /\ Has(tables', f, "logo")
    <3>1. PICK x \in tables'.entries : x.id = Id(f) /\ x.kind = "logo"
      BY <2>4 DEF Has
    <3>2. PICK g \in sent' : /\ g.type = "churned" /\ Id(g) = x.id /\ g.at = x.at
                             /\ x.cust \in {g.cust, NoCustomer}
      BY <1>1, <3>1 DEF Traced
    <3>3. g = e
      BY <2>2, <2>4, <3>1, <3>2 DEF UniqueChurns
    <3>4. c = e.cust /\ c = CustomerOf[e.sub] /\ x.id[2] = e.sub
      BY <1>1, <1>3, <2>2, <2>4, <3>1 DEF Id
    <3> QED
      BY <2>2, <2>4, <3>1, <3>2, <3>3, <3>4 DEF Logo
  <2> QED
    BY <1>3, <1>5, <2>1, <2>3, <2>4, ChurnDates
<1> QED
  BY <1>4, <1>5, Delivered

\* Unless two churned events share an id, a customer's churn date is that of a
\* logo event of one of its subscriptions, with any number of faults.
THEOREM ChurnsAreDated == Spec => []ChurnIsDated
<1>1. Init => Traced /\ ChurnIsDated
  <2> SUFFICES ASSUME Init PROVE Traced /\ ChurnIsDated
    OBVIOUS
  <2>1. sent = {} /\ last = NoEvent /\ tables.entries = {}
    BY DEF Init, Empty
  <2>2. \A c \in Customers : tables.state[c] = NoRow
    BY DEF Init, Empty, AllCustomers
  <2> QED
    BY <2>1, <2>2 DEF Traced, ChurnIsDated
<1>2. TypeOK /\ Traced /\ ChurnIsDated /\ [Next]_vars => Traced' /\ ChurnIsDated'
  BY TracedStep, DatedStep
<1> QED
  BY <1>1, <1>2, TypeCorrect, PTL DEF Spec

-----------------------------------------------------------------------------
\* The metric follows the provider.

ActiveKeys == {<<CustomerOf[s], s>> : s \in {r \in Subs : life[r] = "active"}}

\* What an event does to the tracking table.
LEMMA TrackedStep ==
  ASSUME NEW t \in Tables, NEW e \in Event
  PROVE  /\ e.type \in {"created", "canceled"} => Handle(t, e).tracked = t.tracked
         /\ e.type = "activated" =>
              Handle(t, e).tracked = t.tracked \union {KeyOf(e)}
         /\ e.type = "churned" =>
              Handle(t, e).tracked = t.tracked \ {KeyOf(e)}
<1>1. e.cust \in AllCustomers /\ t.state[e.cust] \in Row \union {NoRow}
  BY DEF Event, Tables
<1>2. CASE e.type \in {"created", "canceled"}
  <2>1. WithEntry(t, e, "canceled").tracked = t.tracked
    BY EntryEffect DEF Kinds
  <2>2. Created(t, e).tracked = t.tracked
    BY <1>1, PutEffect, RowsTyped DEF Created
  <2>3. QED
    BY <1>2, <2>1, <2>2 DEF Handle
<1>3. CASE e.type = "activated"
  <2>1. CASE KeyOf(e) \notin t.tracked
    BY <1>3, <2>1, CountEffect DEF Handle, Activated, KeyOf
  <2>2. CASE KeyOf(e) \in t.tracked
    <3>1. t.state[e.cust] # NoRow =>
            [t.state[e.cust] EXCEPT !.churned = Null] \in Row
      BY <1>1 DEF Row
    <3>2. QED
      BY <1>1, <1>3, <2>2, <3>1, PutEffect DEF Handle, Activated, KeyOf, WithState
  <2>3. QED
    BY <2>1, <2>2
<1>4. CASE e.type = "churned"
  <2>1. Handle(t, e) = WithEntry(LogoLost(Uncount(t, e), e), e, "revenue")
    BY <1>4 DEF Handle, Churned
  <2> DEFINE a == Uncount(t, e)
             b == LogoLost(a, e)
  <2>2. a \in Tables /\ a.tracked = t.tracked \ {KeyOf(e)}
    BY UncountEffect
  <2> HIDE DEF a
  <2>3. b \in Tables /\ b.tracked = a.tracked
    BY <2>2, LogoEffect
  <2> HIDE DEF b
  <2>4. WithEntry(b, e, "revenue").tracked = b.tracked
    BY <2>3, EntryEffect DEF Kinds
  <2>5. QED
    BY <1>4, <2>1, <2>2, <2>3, <2>4 DEF a, b
<1>5. QED
  BY <1>2, <1>3, <1>4

FollowsInv == (parked # {} => faults > 0) /\ FollowsProvider

LEMMA FollowsStep == TypeOK /\ IInv /\ FollowsInv /\ [Next]_vars => FollowsInv'
<1> SUFFICES ASSUME TypeOK, IInv, FollowsInv, [Next]_vars PROVE FollowsInv'
  OBVIOUS
<1>0. faults \in Nat /\ (faults = 0 => tables.tracked = ActiveKeys)
  BY DEF TypeOK, FollowsInv, FollowsProvider, ActiveKeys
<1>1. ASSUME NEW s \in Subs, NEW type \in EventTypes, NEW to \in Lives,
             Deliver(s, type, to)
      PROVE  FollowsInv'
  <2>1. /\ tables' = Handle(tables, Emitted(s, type))
        /\ life' = [life EXCEPT ![s] = to] /\ Turns(s, type, to)
        /\ UNCHANGED <<parked, faults>>
    BY <1>1 DEF Deliver, Emit
  <2>2. /\ Emitted(s, type) \in Event
        /\ Emitted(s, type).type = type
        /\ KeyOf(Emitted(s, type)) = <<CustomerOf[s], s>>
    BY EmittedTyped DEF TypeOK, Emitted, KeyOf
  <2>3. tables \in Tables /\ life \in [Subs -> Lives]
    BY DEF TypeOK
  <2>4. ASSUME faults = 0 PROVE tables'.tracked = ActiveKeys'
    <3>1. CASE type \in {"created", "canceled"}
      <4>1. life'[s] = "active" <=> life[s] = "active"
        BY <2>1, <2>3, <3>1 DEF Turns
      <4>2. ActiveKeys' = ActiveKeys
        BY <2>1, <2>3, <4>1 DEF ActiveKeys
      <4>3. QED
        BY <1>0, <2>1, <2>2, <2>3, <2>4, <3>1, <4>2, TrackedStep
    <3>2. CASE type = "activated"
      <4>1. ActiveKeys' = ActiveKeys \union {<<CustomerOf[s], s>>}
        BY <2>1, <2>3, <3>2 DEF Turns, ActiveKeys
      <4>2. QED
        BY <1>0, <2>1, <2>2, <2>3, <2>4, <3>2, <4>1, TrackedStep
    <3>3. CASE type = "churned"
      <4>1. life'[s] # "active"
        BY <2>1, <2>3, <3>3 DEF Turns
      <4>2. ActiveKeys' = ActiveKeys \ {<<CustomerOf[s], s>>}
        BY <2>1, <2>3, <4>1 DEF ActiveKeys
      <4>3. QED
        BY <1>0, <2>1, <2>2, <2>3, <2>4, <3>3, <4>2, TrackedStep
    <3>4. QED
      BY <2>1, <3>1, <3>2, <3>3 DEF Turns
  <2>5. QED
    BY <2>1, <2>4 DEF FollowsInv, FollowsProvider, ActiveKeys
<1>2. ASSUME NEW s \in Subs, NEW type \in EventTypes, NEW to \in Lives,
             Park(s, type, to)
      PROVE  FollowsInv'
  BY <1>0, <1>2 DEF Park, FollowsInv, FollowsProvider
<1>3. CASE Redeliver
  BY <1>3 DEF Redeliver, IInv, FollowsInv, FollowsProvider
<1>4. ASSUME NEW e \in sent, Replay(e) PROVE FollowsInv'
  BY <1>0, <1>4 DEF Replay, FollowsInv, FollowsProvider
<1>5. ASSUME NEW e \in sent, Resend(e) PROVE FollowsInv'
  BY <1>0, <1>5 DEF Resend, FollowsInv, FollowsProvider
<1>6. CASE UNCHANGED vars
  BY <1>6 DEF vars, FollowsInv, FollowsProvider
<1>7. QED
  BY <1>1, <1>2, <1>3, <1>4, <1>5, <1>6 DEF Next

\* With every event delivered in order, and the last one possibly twice, the
\* tracking table holds exactly the subscriptions that are active.
THEOREM Follows == Spec => []FollowsProvider
<1>1. Init => FollowsInv
  BY DEF Init, FollowsInv, FollowsProvider, Empty
<1>2. FollowsInv => FollowsProvider
  BY DEF FollowsInv
<1>3. QED
  BY <1>1, <1>2, FollowsStep, TypeCorrect, InvAlways, PTL DEF Spec
=============================================================================
