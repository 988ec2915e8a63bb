---------------------------- MODULE ExpenseProofs ----------------------------
(***************************************************************************)
(* Proofs about the expense side, for any company's books, any number of   *)
(* changes, requests, backfills and faults: rates have no gaps but those   *)
(* that fx-sync --since left, what was voided stays out of the totals,     *)
(* lines add up to their header, and at rest the rows, and so the metric's  *)
(* figures, are the books.                                                *)
(***************************************************************************)
EXTENDS ExpensePipeline, DataLemmas

-----------------------------------------------------------------------------
(* Exchange rates *)

RateTable == [Currencies -> [Days -> Nat \union {NoRate}]]

\* What is stored is what the feed says, of days that have come.
FromFeed(r) ==
  \A c \in Currencies : \A d \in Stored(r, c) : r[c][d] = Quote[c][d] /\ d <= Today

\* A run of fx-sync --since, of those that began on the days S, jumped over d.
Jumped(r, S, c, d) == \E s \in S : d < s /\ \A x \in d..(s - 1) : r[c][x] = NoRate

\* Every missing day between stored ones was jumped over.
GapsJumped(r, S) ==
  \A c \in Currencies : \A a, b \in Stored(r, c) : \A d \in a..b :
    Quote[c][d] # NoRate /\ r[c][d] = NoRate => Jumped(r, S, c, d)

\* These runs fetched everything from their first day on.
Fetched(r, S) ==
  /\ \A s \in S : s \in Days /\ s <= Today
  /\ \A s \in S : \A c \in Currencies \intersect Targets(Detected) : \A d \in Days :
       s <= d /\ d < Today /\ Quote[c][d] # NoRate => r[c][d] # NoRate

\* The days are an interval of natural numbers.
LEMMA DaysAreFinite ==
  /\ IsFiniteSet(Days) /\ Days \subseteq Int /\ NoRate \notin Days
  /\ \A a, b \in Days : a..b \subseteq Days
<1>1. Days \subseteq Int /\ NoRate \notin Days
  <2>1. Days \subseteq Nat /\ NoRate \notin Nat
    BY RatesAssumption
  <2>2. NoRate \notin Days
    BY <2>1
  <2>3. Days \subseteq Int
    <3>1. Nat \subseteq Int
      OBVIOUS
    <3> QED
      BY Zenon, <2>1, <3>1
  <2> QED
    BY <2>2, <2>3
<1>2. \A a, b \in Days : a..b \subseteq Days
  BY RatesAssumption
<1>3. IsFiniteSet(Days)
  BY RatesAssumption
<1> QED
  BY Zenon, <1>1, <1>2, <1>3

\* The stored days are finitely many, so there is a last one.
LEMMA StoredDays ==
  ASSUME NEW r, NEW c
  PROVE  /\ IsFiniteSet(Stored(r, c)) /\ Stored(r, c) \subseteq Int
         /\ Stored(r, c) # {} =>
              /\ Max(Stored(r, c)) \in Stored(r, c)
              /\ \A d \in Stored(r, c) : d <= Max(Stored(r, c))
<1>1. Stored(r, c) \in SUBSET Days /\ IsFiniteSet(Days) /\ Days \subseteq Int
  BY DaysAreFinite DEF Stored
<1>2. IsFiniteSet(Stored(r, c)) /\ Stored(r, c) \subseteq Int
  BY <1>1, FS_Subset
<1>3. ASSUME Stored(r, c) # {}
      PROVE  /\ Max(Stored(r, c)) \in Stored(r, c)
             /\ \A d \in Stored(r, c) : d <= Max(Stored(r, c))
  <2>1. PICK m \in Stored(r, c) : \A d \in Stored(r, c) : d <= m
    BY <1>2, <1>3, Greatest
  <2>2. \A d \in Stored(r, c) : m >= d
    BY <1>2, <2>1
  <2>3. /\ Max(Stored(r, c)) \in Stored(r, c)
        /\ \A d \in Stored(r, c) : Max(Stored(r, c)) >= d
    BY <2>1, <2>2 DEF Max
  <2> QED
    BY <1>2, <2>3
<1> QED
  BY <1>2, <1>3

\* A synchronisation writes the quotes from its start on, and nothing else.
LEMMA SyncWrites ==
  ASSUME NEW r \in RateTable, NEW detected, NEW since, NEW until, NEW upTo, NEW failed,
         NEW s, s = Sync(r, detected, since, until, upTo, failed)
  PROVE  /\ s \in RateTable
         /\ \A c \in Currencies :
              \/ s[c] = r[c]
              \/ \A x \in Days :
                   s[c][x] = IF x \in SyncStart(r, c, since, until)..upTo /\ Quote[c][x] # NoRate
                             THEN Quote[c][x] ELSE r[c][x]
<1> DEFINE Fresh(c, d) == d \in SyncStart(r, c, since, until)..upTo /\ Quote[c][d] # NoRate
<1>1. ASSUME NEW c \in Currencies
      PROVE  \/ s[c] = r[c]
             \/ s[c] = [d \in Days |-> IF Fresh(c, d) THEN Quote[c][d] ELSE r[c][d]]
  BY DEF Sync
<1>2. s = [c \in Currencies |-> s[c]]
  BY DEF Sync
<1>3. ASSUME NEW c \in Currencies PROVE s[c] \in [Days -> Nat \union {NoRate}]
  <2>1. Quote \in [Currencies -> [Days -> Nat \union {NoRate}]]
    BY RatesAssumption
  <2>2. r[c] \in [Days -> Nat \union {NoRate}] /\ Quote[c] \in [Days -> Nat \union {NoRate}]
    BY <2>1 DEF RateTable
  <2>3. \A d \in Days : Quote[c][d] \in Nat \union {NoRate} /\ r[c][d] \in Nat \union {NoRate}
    BY <2>2
  <2> HIDE DEF Fresh
  <2> QED
    BY <1>1, <2>2, <2>3
<1>4. s \in RateTable
  BY <1>2, <1>3 DEF RateTable
<1>5. ASSUME NEW c \in Currencies, s[c] # r[c], NEW x \in Days
      PROVE  s[c][x] = IF Fresh(c, x) THEN Quote[c][x] ELSE r[c][x]
  <2> HIDE DEF Fresh
  <2> QED
    BY <1>1, <1>5
<1> QED
  BY <1>4, <1>5

\* From a feed that has published up to day upTo.
LEMMA SyncKeepsFeed ==
  ASSUME NEW r \in RateTable, FromFeed(r), NEW detected, NEW since, NEW until,
         NEW upTo \in Int, upTo <= Today, NEW failed,
         NEW s, s = Sync(r, detected, since, until, upTo, failed)
  PROVE  FromFeed(s)
<1> SUFFICES ASSUME NEW c \in Currencies, NEW d \in Stored(s, c)
             PROVE  s[c][d] = Quote[c][d] /\ d <= Today
  BY DEF FromFeed
<1>1. d \in Days /\ d \in Int /\ Today \in Int /\ s[c][d] # NoRate
  <2>1. d \in Days /\ s[c][d] # NoRate
    BY DEF Stored
  <2> QED
    BY <2>1, DaysAreFinite, BoundsAssumption
<1>2. CASE s[c][d] = r[c][d]
  BY <1>1, <1>2 DEF FromFeed, Stored
<1>3. CASE s[c][d] # r[c][d]
  <2>1. d \in SyncStart(r, c, since, until)..upTo /\ s[c][d] = Quote[c][d]
    BY <1>1, <1>3, SyncWrites
  <2>2. d <= upTo
    BY <2>1
  <2> QED
    BY <1>1, <2>1, <2>2
<1> QED
  BY <1>2, <1>3

\* Without --since, what is written begins where the stored days end, whichever
\* requests fail and however late the feed is.
LEMMA NextSyncLeavesNoGap ==
  ASSUME NEW r \in RateTable, NEW S, GapsJumped(r, S), \A x \in S : x \in Days,
         NEW detected, NEW until \in Int, NEW upTo \in Int, NEW failed,
         NEW s, s = Sync(r, detected, Null, until, upTo, failed)
  PROVE  GapsJumped(s, S)
<1> DEFINE Fresh(c, d) == d \in SyncStart(r, c, Null, until)..upTo /\ Quote[c][d] # NoRate
<1> SUFFICES ASSUME NEW c \in Currencies, NEW a \in Stored(s, c), NEW b \in Stored(s, c),
                    NEW d \in a..b, Quote[c][d] # NoRate, s[c][d] = NoRate
             PROVE  Jumped(s, S, c, d)
  BY DEF GapsJumped
<1>1. a \in Days /\ b \in Days /\ s[c][a] # NoRate /\ s[c][b] # NoRate
  BY DEF Stored
<1>2. d \in Days /\ a \in Int /\ b \in Int /\ d \in Int /\ a <= d /\ d <= b
  <2>1. a \in Int /\ b \in Int /\ a..b \subseteq Days
    BY <1>1, DaysAreFinite
  <2> QED
    BY <2>1
<1>3. CASE s[c] = r[c]
  BY <1>3 DEF GapsJumped, Stored, Jumped
<1>4. CASE s[c] # r[c]
  <2>1. \A x \in Days : s[c][x] = IF Fresh(c, x) THEN Quote[c][x] ELSE r[c][x]
    BY <1>4, SyncWrites
  <2>2. ~Fresh(c, d) /\ r[c][d] = NoRate
    BY <1>2, <2>1
  <2>3. CASE Stored(r, c) = {}
    <3>1. SyncStart(r, c, Null, until) \in Int
      BY <2>3, RatesAssumption DEF SyncStart, LastSynced
    <3>2. Fresh(c, a) /\ Fresh(c, b)
      BY <1>1, <2>1, <2>3 DEF Stored
    <3>3. Fresh(c, d)
      BY <1>2, <3>1, <3>2
    <3> QED
      BY <2>2, <3>3
  <2>4. CASE Stored(r, c) # {}
    <3> DEFINE last == Max(Stored(r, c))
    <3>1. last \in Stored(r, c) /\ last \in Int /\ last # NoRate
      <4>1. last \in Stored(r, c)
        BY <2>4, StoredDays
      <4> HIDE DEF last
      <4> QED
        BY <4>1, DaysAreFinite DEF Stored
    <3>2. SyncStart(r, c, Null, until) = last + 1
      BY <3>1, <2>4 DEF SyncStart, LastSynced
    <3>3. \A x \in Stored(r, c) : x <= last
      BY <2>4, StoredDays
    <3> HIDE DEF last
    <3>4. d <= last
      <4>1. SUFFICES ASSUME d > last PROVE FALSE
        BY <1>2, <3>1
      <4>2. b \notin Stored(r, c)
        BY <1>2, <3>1, <3>3, <4>1
      <4>3. Fresh(c, b)
        BY <1>1, <2>1, <4>2 DEF Stored
      <4>4. Fresh(c, d)
        BY <1>2, <3>1, <3>2, <4>1, <4>3
      <4> QED
        BY <2>2, <4>4
    <3>5. ~Fresh(c, a)
      BY <1>2, <3>1, <3>2, <3>4
    <3>6. a \in Stored(r, c) /\ d \in a..last
      BY <1>1, <1>2, <2>1, <3>1, <3>4, <3>5 DEF Stored
    <3>7. PICK y \in S : d < y /\ \A x \in d..(y - 1) : r[c][x] = NoRate
      BY <2>2, <3>1, <3>6 DEF GapsJumped, Jumped
    <3>8. y \in Int
      BY <3>7, DaysAreFinite
    <3>9. ASSUME NEW x \in d..(y - 1) PROVE s[c][x] = NoRate
      <4>1. x \in Int /\ d <= x /\ x < y /\ x \in Days
        <5>1. d..y \subseteq Days
          BY <1>2, <3>7, DaysAreFinite
        <5> QED
          BY <1>2, <3>8, <5>1
      <4>2. last >= y
        <5>1. SUFFICES ASSUME last < y PROVE FALSE
          BY <3>1, <3>8
        <5>2. last \in d..(y - 1)
          BY <1>2, <3>1, <3>4, <3>8, <5>1
        <5>3. r[c][last] # NoRate
          BY <3>1 DEF Stored
        <5> QED
          BY <3>7, <5>2, <5>3
      <4>3. ~Fresh(c, x)
        BY <3>1, <3>2, <3>8, <4>1, <4>2
      <4> QED
        BY <2>1, <3>7, <4>1, <4>3
    <3> QED
      BY <3>7, <3>9 DEF Jumped
  <2> QED
    BY <2>3, <2>4
<1> QED
  BY <1>3, <1>4

\* With --since, what is missing is missing from a gap's first day up to the
\* start of this run, or of an earlier one.
LEMMA SinceIsTheOnlyJump ==
  ASSUME NEW r \in RateTable, NEW S, FromFeed(r), GapsJumped(r, S), Fetched(r, S),
         NEW since \in Days, since # Null, NEW upTo \in {Today - 1, Today}, NEW failed,
         NEW s, s = Sync(r, Detected, since, Today, upTo, failed),
         NEW T, T = S \union ({since} \ ({Null} \union failed))
  PROVE  GapsJumped(s, T)
<1> DEFINE Fresh(c, d) == d \in since..upTo /\ Quote[c][d] # NoRate
<1> SUFFICES ASSUME NEW c \in Currencies, NEW a \in Stored(s, c), NEW b \in Stored(s, c),
                    NEW d \in a..b, Quote[c][d] # NoRate, s[c][d] = NoRate
             PROVE  Jumped(s, T, c, d)
  BY DEF GapsJumped
<1>0. \A x \in S : x \in Days
  BY DEF Fetched
<1>1. a \in Days /\ b \in Days /\ s[c][a] # NoRate /\ s[c][b] # NoRate
  BY DEF Stored
<1>2. d \in Days /\ a \in Int /\ b \in Int /\ d \in Int /\ a <= d /\ d <= b
  <2>1. a \in Int /\ b \in Int /\ a..b \subseteq Days
    BY <1>1, DaysAreFinite
  <2> QED
    BY <2>1
<1>3. since \in Int /\ upTo \in Int /\ Today \in Int
  BY DaysAreFinite, BoundsAssumption
<1>4. CASE s[c] = r[c]
  BY <1>4 DEF GapsJumped, Stored, Jumped
<1>5. CASE s[c] # r[c]
  <2>1. \A x \in Days : s[c][x] = IF Fresh(c, x) THEN Quote[c][x] ELSE r[c][x]
    BY <1>5, SyncWrites DEF SyncStart
  <2>2. ~Fresh(c, d) /\ r[c][d] = NoRate
    BY <1>2, <2>1
  <2>3. since \in T
    BY <1>5 DEF Sync, SyncStart
  <2>4. d < since
    <3>1. SUFFICES ASSUME d >= since PROVE FALSE
      BY <1>2, <1>3
    <3>2. d >= Today
      BY <1>2, <1>3, <2>2, <3>1
    <3>3. d # b
      BY <1>1
    <3>4. ~Fresh(c, b) 
      BY <1>2, <1>3, <3>2, <3>3
    <3>5. b \in Stored(r, c)
      BY <1>1, <2>1, <3>4 DEF Stored
    <3> QED
      BY <1>2, <1>3, <3>2, <3>3, <3>5 DEF FromFeed
  <2>5. a \in Stored(r, c)
    BY <1>1, <1>2, <1>3, <2>1, <2>4 DEF Stored
  <2>6. CASE \E y \in Stored(r, c) : d <= y /\ y < since
    <3>1. PICK y \in Stored(r, c) : d <= y /\ y < since
      BY <2>6
    <3>2. y \in Int
      BY DaysAreFinite DEF Stored
    <3>3. PICK z \in S : d < z /\ \A x \in d..(z - 1) : r[c][x] = NoRate
      BY <1>2, <2>2, <2>5, <3>1, <3>2 DEF GapsJumped, Jumped
    <3>4. z \in Int
      BY <1>0, <3>3, DaysAreFinite
    <3>5. z <= y
      <4>1. SUFFICES ASSUME y < z PROVE FALSE
        BY <3>2, <3>4
      <4>2. y \in d..(z - 1) /\ r[c][y] # NoRate
        BY <1>2, <3>1, <3>2, <3>4, <4>1 DEF Stored
      <4> QED
        BY <3>3, <4>2
    <3>6. ASSUME NEW x \in d..(z - 1) PROVE s[c][x] = NoRate
      <4>1. x \in Int /\ d <= x /\ x < z /\ x \in Days
        <5>1. d..z \subseteq Days
          BY <1>0, <1>2, <3>3, DaysAreFinite
        <5> QED
          BY <1>2, <3>4, <5>1
      <4>2. ~Fresh(c, x)
        BY <1>3, <3>1, <3>2, <3>4, <3>5, <4>1
      <4> QED
        BY <2>1, <3>3, <4>1, <4>2
    <3> QED
      BY <3>3, <3>6 DEF Jumped
  <2>7. CASE ~\E y \in Stored(r, c) : d <= y /\ y < since
    <3>1. ASSUME NEW x \in d..(since - 1) PROVE s[c][x] = NoRate
      <4>1. x \in Int /\ d <= x /\ x < since /\ x \in Days
        <5>1. d..since \subseteq Days
          BY <1>2, DaysAreFinite
        <5> QED
          BY <1>2, <1>3, <5>1
      <4>2. ~Fresh(c, x)
        BY <1>3, <4>1
      <4>3. r[c][x] = NoRate
        BY <2>7, <4>1 DEF Stored
      <4> QED
        BY <2>1, <4>1, <4>2, <4>3
    <3> QED
      BY <2>3, <2>4, <3>1 DEF Jumped
  <2> QED
    BY <2>6, <2>7
<1> QED
  BY <1>4, <1>5

\* What earlier runs with --since fetched stays, and this one's is there too.
LEMMA SinceFills ==
  ASSUME NEW r \in RateTable, NEW S, Fetched(r, S), NEW since, since # Null => since \in Days,
         since # Null => since <= Today, NEW upTo \in {Today - 1, Today}, NEW failed,
         NEW s, s = Sync(r, Detected, since, Today, upTo, failed),
         NEW T, T = S \union ({since} \ ({Null} \union failed))
  PROVE  Fetched(s, T)
<1>1. \A t \in T : t \in Days /\ t <= Today
  BY DEF Fetched
<1>2. ASSUME NEW t \in T, NEW c \in Currencies \intersect Targets(Detected), NEW d \in Days,
             t <= d, d < Today, Quote[c][d] # NoRate
      PROVE  s[c][d] # NoRate
  <2>1. t \in Int /\ d \in Int /\ upTo \in Int /\ Today \in Int
    <3>1. Days \subseteq Int /\ Today \in Int /\ t \in Days
      BY <1>1, DaysAreFinite, BoundsAssumption
    <3>2. upTo \in Int
      BY <3>1
    <3> QED
      BY <3>1, <3>2
  <2>2. CASE t \in S
    <3>1. r[c][d] # NoRate
      BY <1>2, <2>2 DEF Fetched
    <3> QED
      BY <1>2, <3>1, SyncWrites
  <2>3. CASE t \notin S
    <3>1. t = since /\ since # Null /\ since \notin failed
      BY <2>3
    <3>2. SyncStart(r, c, since, Today) = since
      BY <3>1 DEF SyncStart
    <3>3. ~(since > Today)
      BY <2>1, <3>1
    <3>4. s[c] = [x \in Days |-> IF x \in since..upTo /\ Quote[c][x] # NoRate
                                 THEN Quote[c][x] ELSE r[c][x]]
      BY <3>1, <3>2, <3>3 DEF Sync
    <3>5. d \in since..upTo
      BY <1>2, <2>1, <3>1
    <3> QED
      BY <1>2, <3>4, <3>5
  <2> QED
    BY <2>2, <2>3
<1> QED
  BY <1>1, <1>2 DEF Fetched

RatesInv ==
  rates \in RateTable /\ FromFeed(rates) /\ GapsJumped(rates, sinces) /\ Fetched(rates, sinces)

\* The company may be connected before any rate was stored, or later.
LEMMA RatesInit == Init => RatesInv
<1> SUFFICES ASSUME Init PROVE RatesInv
  OBVIOUS
<1>1. EmptyRates \in RateTable /\ FromFeed(EmptyRates) /\ GapsJumped(EmptyRates, {})
  BY DEF EmptyRates, RateTable, FromFeed, GapsJumped, Stored
<1>2. sinces = {} /\ Fetched(rates, {})
  BY DEF Init, Fetched
<1>3. CASE rates = EmptyRates
  BY <1>1, <1>2, <1>3 DEF RatesInv
<1>4. CASE rates # EmptyRates
  <2>1. PICK d \in Days : d < Today /\ rates = Sync(EmptyRates, Detected, Null, d, d, {})
    BY <1>4 DEF Init
  <2>2. d \in Int /\ d <= Today
    BY <2>1, DaysAreFinite, BoundsAssumption
  <2>3. PICK e, s : e = EmptyRates /\ s = rates
    OBVIOUS
  <2>4. s = Sync(e, Detected, Null, d, d, {})
    BY <2>1, <2>3
  <2>5. e \in RateTable /\ FromFeed(e) /\ GapsJumped(e, {})
    BY <1>1, <2>3
  <2>6. s \in RateTable
    BY <2>4, <2>5, SyncWrites
  <2>7. FromFeed(s)
    BY <2>2, <2>4, <2>5, SyncKeepsFeed
  <2>8. GapsJumped(s, {})
    BY <2>2, <2>4, <2>5, NextSyncLeavesNoGap
  <2> QED
    BY <1>2, <2>3, <2>6, <2>7, <2>8 DEF RatesInv
<1> QED
  BY <1>3, <1>4

\* A run of the synchronisation keeps it.
LEMMA RatesSync ==
  ASSUME RatesInv, SyncRates
  PROVE  RatesInv'
<1>0. PICK since \in {d \in Days : d <= Today} \union {Null}, upTo \in {Today - 1, Today} :
        \E failed \in SUBSET Buckets(rates, Detected, since, Today) :
          /\ rates' = Sync(rates, Detected, since, Today, upTo, failed)
          /\ sinces' = sinces \union ({since} \ ({Null} \union failed))
  BY DEF SyncRates
<1>1. PICK failed : /\ rates' = Sync(rates, Detected, since, Today, upTo, failed)
                    /\ sinces' = sinces \union ({since} \ ({Null} \union failed))
  BY <1>0
<1>2. PICK r, s, S, T : r = rates /\ s = rates' /\ S = sinces /\ T = sinces'
  OBVIOUS
<1>3. /\ s = Sync(r, Detected, since, Today, upTo, failed)
      /\ T = S \union ({since} \ ({Null} \union failed))
      /\ r \in RateTable /\ FromFeed(r) /\ GapsJumped(r, S) /\ Fetched(r, S)
  BY <1>1, <1>2 DEF RatesInv
<1>4. Today \in Int /\ upTo \in Int /\ upTo <= Today
  BY BoundsAssumption
<1>5. since # Null => since \in Days /\ since <= Today
  OBVIOUS
<1>6. s \in RateTable
  BY <1>3, SyncWrites
<1>7. FromFeed(s)
  BY <1>3, <1>4, SyncKeepsFeed
<1>8. Fetched(s, T)
  BY <1>3, <1>5, SinceFills
<1>9. \A x \in S : x \in Days
  BY <1>3 DEF Fetched
<1>10. GapsJumped(s, T)
  <2>1. CASE since = Null
    <3>1. T = S /\ s = Sync(r, Detected, Null, Today, upTo, failed)
      BY <1>3, <2>1
    <3> QED
      BY <1>3, <1>4, <1>9, <3>1, NextSyncLeavesNoGap
  <2>2. CASE since # Null
    <3>1. since \in Days
      BY <1>5, <2>2
    <3> QED
      BY <1>3, <2>2, <3>1, SinceIsTheOnlyJump
  <2> QED
    BY <2>1, <2>2
<1> QED
  BY <1>2, <1>6, <1>7, <1>8, <1>10 DEF RatesInv

\* Only the synchronisation writes rates.
LEMMA RatesStep == RatesInv /\ [Next]_vars => RatesInv'
<1> SUFFICES ASSUME RatesInv, [Next]_vars PROVE RatesInv'
  OBVIOUS
<1>1. CASE UNCHANGED <<rates, sinces>>
  BY <1>1 DEF RatesInv, RateTable, FromFeed, GapsJumped, Jumped, Fetched, Stored
<1>2. CASE SyncRates
  BY <1>2, RatesSync
<1>3. CASE Next /\ ~SyncRates
  <2>1. CASE Books
    <3>1. PICK xs : Notify(xs)
      <4>1. ASSUME NEW x \in Docs \union Vendors, Enter(x) \/ Edit(x) \/ Withdraw(x)
            PROVE  \E xs : Notify(xs)
        BY <4>1 DEF Enter, Edit, Withdraw
      <4>2. ASSUME NEW b, NEW m, Pay(b, m) PROVE \E xs : Notify(xs)
        BY <4>2 DEF Pay
      <4>3. ASSUME NEW m, ReversePayment(m) PROVE \E xs : Notify(xs)
        BY <4>3 DEF ReversePayment
      <4> QED
        BY <2>1, <4>1, <4>2, <4>3 DEF Books
    <3>2. UNCHANGED <<rates, sinces>>
      BY <3>1 DEF Notify
    <3> QED
      BY <1>1, <3>2
  <2>2. CASE \E i \in DOMAIN notices : Receive(i, FALSE) \/ Receive(i, TRUE)
    <3>1. UNCHANGED <<rates, sinces>>
      BY <2>2 DEF Receive
    <3> QED
      BY <1>1, <3>1
  <2>3. CASE StartBackfill \/ FetchType
    BY <1>1, <2>3 DEF StartBackfill, FetchType
  <2>4. CASE \E r \in DOMAIN requests : Publish(r)
    BY <1>1, <2>4 DEF Publish
  <2>5. CASE Consume \/ \E m \in parked : Replay(m)
    BY <1>1, <2>5 DEF Consume, Replay
  <2> QED
    BY <1>3, <2>1, <2>2, <2>3, <2>4, <2>5 DEF Next
<1> QED
  BY <1>1, <1>2, <1>3 DEF vars

\* A quoted day is missing between stored ones only where fx-sync --since jumped
\* over it, up to the day that run began with, and until such a run begins on the
\* day or before it: no failed request and no late feed leaves a gap.
THEOREM GapsComeFromSince == Spec => []OnlySinceLeavesGaps
<1>1. RatesInv => OnlySinceLeavesGaps
  <2> SUFFICES ASSUME RatesInv, NEW c \in Currencies \intersect Targets(Detected),
                      NEW d \in Gaps(c)
               PROVE  /\ \E s \in sinces : d < s /\ \A x \in d..(s - 1) : rates[c][x] = NoRate
                      /\ \A s \in sinces : d < s
    BY DEF OnlySinceLeavesGaps
  <2>1. PICK a, b \in Stored(rates, c) : a < d /\ d < b
    BY DEF Gaps
  <2>2. d \in Days /\ Quote[c][d] # NoRate /\ rates[c][d] = NoRate
    BY DEF Gaps
  <2>3. a \in Int /\ b \in Int /\ d \in Int /\ Today \in Int /\ \A s \in sinces : s \in Int
    <3>1. a \in Days /\ b \in Days /\ \A s \in sinces : s \in Days
      BY <2>1 DEF Stored, RatesInv, Fetched
    <3>2. Days \subseteq Int /\ Today \in Int
      BY DaysAreFinite, BoundsAssumption
    <3> QED
      BY <2>2, <3>1, <3>2
  <2>4. d \in a..b
    BY <2>1, <2>3
  <2>5. Jumped(rates, sinces, c, d)
    BY <2>1, <2>2, <2>4 DEF RatesInv, GapsJumped
  <2>6. d < Today
    BY <2>1, <2>3 DEF RatesInv, FromFeed
  <2>7. ASSUME NEW s \in sinces PROVE d < s
    <3>1. SUFFICES ASSUME s <= d PROVE FALSE
      BY <2>3
    <3> QED
      BY <2>2, <2>6, <3>1 DEF RatesInv, Fetched
  <2> QED
    BY <2>5, <2>7 DEF Jumped
<1> QED
  BY <1>1, RatesInit, RatesStep, PTL DEF Spec

-----------------------------------------------------------------------------
(* What the connector reports *)

DocTypes == Upserts \union {"bill.paid", "bill.voided", "expense.voided"}

AmountsOf(lines) == [i \in DOMAIN lines |-> lines[i].amount]
BasesOf(lines) == [i \in DOMAIN lines |-> lines[i].base]

\* Finitely many lines with whole cents, and what they come to.
Counts(lines) == Weighs(AmountsOf(lines), DOMAIN lines)
SumOf(lines) == SumOver(AmountsOf(lines), DOMAIN lines)

\* A payload whose lines add up to the amount before tax.
AddsUp(p) ==
  /\ p.cur \in Currencies \union {Base, Null} /\ p.day \in Days
  /\ Counts(p.lines) /\ p.sub = SumOf(p.lines)

\* An event about a document is of a type that its handler knows.
Sound(e) ==
  /\ e.obj \in Objects
  /\ e.type \in DocTypes <=> e.obj \in Docs
  /\ e.type \in Upserts => AddsUp(e.p)

Reports(s) == IsStream(s) /\ \A e \in Range(s) : Sound(e)

\* The sum of lines is a sum over a finite set.
LEMMA AmountsAre ==
  ASSUME NEW lines
  PROVE  MapThenSumSet(LAMBDA i : lines[i].amount, DOMAIN lines) = SumOf(lines)
<1> DEFINE S == DOMAIN lines
           Rec(h) == h = [T \in SUBSET S |-> IF T = {} THEN 0
                            ELSE lines[Chosen(T)].amount + h[T \ {Chosen(T)}]]
<1>1. MapThenSumSet(LAMBDA i : lines[i].amount, S) = (CHOOSE h : Rec(h))[S]
  BY Zenon DEF MapThenSumSet, MapThenFoldSet, Chosen
<1>2. ASSUME NEW h PROVE Rec(h) <=> Iterates(h, AmountsOf(lines), S)
  <2>1. \A T \in SUBSET S : T # {} => AmountsOf(lines)[Chosen(T)] = lines[Chosen(T)].amount
    BY DEF AmountsOf, Chosen
  <2> QED
    BY <2>1 DEF Iterates
<1>3. (CHOOSE h : Rec(h)) = (CHOOSE h : Iterates(h, AmountsOf(lines), S))
  <2> HIDE DEF Rec
  <2> QED
    BY <1>2
<1> QED
  BY <1>1, <1>3 DEF SumOver, SumOf

\* So is their worth.
LEMMA BasesAre ==
  ASSUME NEW lines
  PROVE  MapThenSumSet(LAMBDA i : lines[i].base, DOMAIN lines) =
           SumOver(BasesOf(lines), DOMAIN lines)
<1> DEFINE S == DOMAIN lines
           Rec(h) == h = [T \in SUBSET S |-> IF T = {} THEN 0
                            ELSE lines[Chosen(T)].base + h[T \ {Chosen(T)}]]
<1>1. MapThenSumSet(LAMBDA i : lines[i].base, S) = (CHOOSE h : Rec(h))[S]
  BY Zenon DEF MapThenSumSet, MapThenFoldSet, Chosen
<1>2. ASSUME NEW h PROVE Rec(h) <=> Iterates(h, BasesOf(lines), S)
  <2>1. \A T \in SUBSET S : T # {} => BasesOf(lines)[Chosen(T)] = lines[Chosen(T)].base
    BY DEF BasesOf, Chosen
  <2> QED
    BY <2>1 DEF Iterates
<1>3. (CHOOSE h : Rec(h)) = (CHOOSE h : Iterates(h, BasesOf(lines), S))
  <2> HIDE DEF Rec
  <2> QED
    BY <1>2
<1> QED
  BY <1>1, <1>3 DEF SumOver

\* IsDocument, with the sum of the lines as one over a finite set.
Documented(o, lines) ==
  /\ o = [f \in DOMAIN o |-> o[f]]
  /\ {"entity", "cur", "total", "tax", "balance", "day", "lines"} \subseteq DOMAIN o
  /\ o.cur \in Currencies \union {Base, Null} /\ o.day \in Days
  /\ o.total \in Int /\ o.tax \in Int /\ o.balance \in Int
  /\ IsFiniteSet(DOMAIN lines) /\ \A i \in DOMAIN lines : lines[i].amount \in Int
  /\ SumOf(lines) = IF o.total > o.tax THEN o.total - o.tax ELSE 0

\* They are the same.
LEMMA DocumentIs ==
  ASSUME NEW o
  PROVE  IsDocument(o) <=> Documented(o, Qbo!ExpenseLines(o))
<1>1. MapThenSumSet(LAMBDA i : Qbo!ExpenseLines(o)[i].amount, DOMAIN Qbo!ExpenseLines(o))
        = SumOf(Qbo!ExpenseLines(o))
  BY AmountsAre
<1> QED
  BY Zenon, <1>1 DEF IsDocument, Documented

\* The lines of a document with an account come to its amount before tax.
LEMMA DocumentAddsUp ==
  ASSUME NEW o, IsDocument(o), NEW vendor, NEW kind
  PROVE  AddsUp(Qbo!DocPayload(o, vendor, kind))
<1> DEFINE p == Qbo!DocPayload(o, vendor, kind)
           lines == Qbo!ExpenseLines(o)
           sub == IF o.total > o.tax THEN o.total - o.tax ELSE 0
<1>1. p.lines = lines /\ p.cur = o.cur /\ p.day = o.day /\ p.sub = sub
  BY DEF Qbo!DocPayload
<1> HIDE DEF p
<1>2. Documented(o, lines)
  BY DocumentIs
<1> HIDE DEF lines
<1>3. Counts(lines) /\ SumOf(lines) = sub
  BY <1>2 DEF Documented, Counts, Weighs, AmountsOf
<1> QED
  BY <1>1, <1>2, <1>3 DEF AddsUp, Documented, p

\* Every object has one name.
LEMMA NamesAre ==
  ASSUME NEW x \in Objects
  PROVE  \/ x \in Vendors /\ x \notin Docs /\ NameOf(x) = "Vendor"
         \/ x \in Accounts /\ x \notin Docs /\ NameOf(x) = "Account"
         \/ x \in Bills /\ x \in Docs /\ NameOf(x) = "Bill"
         \/ x \in Expenses /\ x \in Docs /\ NameOf(x) = "Purchase"
         \/ x \in Payments /\ x \notin Docs /\ NameOf(x) = "BillPayment"
<1>1. /\ x \in Vendors => x \notin Accounts /\ x \notin Docs /\ x \notin Payments
      /\ x \in Accounts => x \notin Docs /\ x \notin Payments
      /\ x \in Bills => x \notin Expenses
      /\ x \in Docs => x \notin Payments
      /\ x \in Docs <=> x \in Bills \/ x \in Expenses
      /\ x \in Vendors \/ x \in Accounts \/ x \in Docs \/ x \in Payments
  BY ObjectsAssumption DEF Objects, Docs
<1> QED
  BY Zenon, <1>1 DEF NameOf

\* A report of one event, or of two.
LEMMA ReportsOne ==
  ASSUME NEW e, Sound(e)
  PROVE  Reports(<<e>>)
BY OneEvent DEF Reports

\* What was fetched becomes events about it that its handler knows.
LEMMA TranslatedIsSound ==
  ASSUME NEW x \in Objects, NEW o, x \in Docs => IsDocument(o), NEW update
  PROVE  Reports(Qbo!TranslateEntity(NameOf(x), x, o, update))
<1> DEFINE s == Qbo!TranslateEntity(NameOf(x), x, o, update)
<1>1. CASE x \in Vendors /\ x \notin Docs /\ NameOf(x) = "Vendor"
  <2>1. s = Qbo!TranslateVendor(x, o, update)
    BY <1>1 DEF Qbo!TranslateEntity
  <2> DEFINE e == Qbo!Make(IF update THEN "vendor.updated" ELSE "vendor.created", x,
                           [active |-> o.active])
  <2>2. s = <<e>>
    BY <2>1 DEF Qbo!TranslateVendor
  <2>3. Sound(e)
    BY <1>1 DEF Sound, Qbo!Make, DocTypes, Upserts
  <2> HIDE DEF s, e
  <2> QED
    BY <2>2, <2>3, ReportsOne DEF s
<1>2. CASE x \in Accounts /\ x \notin Docs /\ NameOf(x) = "Account"
  <2>1. s = Qbo!TranslateAccount(x, o, update)
    BY <1>2 DEF Qbo!TranslateEntity
  <2> DEFINE e == Qbo!Make(IF update THEN "account.updated" ELSE "account.created", x,
                           [type |-> Qbo!NormalizeAccountType(o.type)])
  <2>2. s = <<e>>
    BY <2>1 DEF Qbo!TranslateAccount
  <2>3. Sound(e)
    BY <1>2 DEF Sound, Qbo!Make, DocTypes, Upserts
  <2> HIDE DEF s, e
  <2> QED
    BY <2>2, <2>3, ReportsOne DEF s
<1>3. CASE x \in Bills /\ x \in Docs /\ NameOf(x) = "Bill"
  <2>1. s = Qbo!TranslateBill(x, o, update)
    BY <1>3 DEF Qbo!TranslateEntity
  <2> DEFINE p == Qbo!DocPayload(o, o.entity.id, Qbo!BillStatus(o))
             e == Qbo!Make(IF update THEN "bill.updated" ELSE "bill.created", x, p)
             f == Qbo!Make("bill.paid", x, Null)
  <2>2. s = <<e>> \o IF Qbo!BillStatus(o) = "paid" THEN <<f>> ELSE <<>>
    BY <2>1 DEF Qbo!TranslateBill
  <2>3. AddsUp(p)
    BY <1>3, DocumentAddsUp
  <2> HIDE DEF p
  <2>4. Sound(e)
    BY <1>3, <2>3 DEF Sound, Qbo!Make, DocTypes, Upserts
  <2>5. Sound(f)
    BY <1>3 DEF Sound, Qbo!Make, DocTypes, Upserts
  <2> HIDE DEF s, e, f
  <2>6. Reports(<<e>>) /\ Reports(<<f>>) /\ Reports(<<>>)
    BY <2>4, <2>5, ReportsOne, NoEvents DEF Reports
  <2>7. Reports(IF Qbo!BillStatus(o) = "paid" THEN <<f>> ELSE <<>>)
    BY <2>6
  <2> DEFINE rest == IF Qbo!BillStatus(o) = "paid" THEN <<f>> ELSE <<>>
  <2>8. Reports(rest) /\ s = <<e>> \o rest
    BY <2>2, <2>7
  <2> HIDE DEF rest
  <2> QED
    BY <2>6, <2>8, Joined DEF Reports, s
<1>4. CASE x \in Expenses /\ x \in Docs /\ NameOf(x) = "Purchase"
  <2>1. s = Qbo!TranslatePurchase(x, o, update)
    BY <1>4 DEF Qbo!TranslateEntity
  <2> DEFINE p == Qbo!DocPayload(o, IF o.entity.type = "Vendor" THEN o.entity.id ELSE Null,
                                 Qbo!NormalizePaymentType(o.payment))
             e == Qbo!Make(IF update THEN "expense.updated" ELSE "expense.created", x, p)
  <2>2. s = <<e>>
    BY <2>1 DEF Qbo!TranslatePurchase
  <2>3. AddsUp(p)
    BY <1>4, DocumentAddsUp
  <2> HIDE DEF p
  <2>4. Sound(e)
    BY <1>4, <2>3 DEF Sound, Qbo!Make, DocTypes, Upserts
  <2> HIDE DEF s, e
  <2> QED
    BY <2>2, <2>4, ReportsOne DEF s
<1>5. CASE x \in Payments /\ x \notin Docs /\ NameOf(x) = "BillPayment"
  <2>1. s = Qbo!TranslateBillPayment(x, o)
    BY <1>5 DEF Qbo!TranslateEntity
  <2>2. PICK p : s = <<Qbo!Make("bill_payment.created", x, p)>>
    BY Zenon, <2>1 DEF Qbo!TranslateBillPayment
  <2> DEFINE e == Qbo!Make("bill_payment.created", x, p)
  <2>3. Sound(e)
    BY <1>5 DEF Sound, Qbo!Make, DocTypes, Upserts
  <2> HIDE DEF s, e
  <2> QED
    BY <2>2, <2>3, ReportsOne DEF s, e
<1> QED
  BY <1>1, <1>2, <1>3, <1>4, <1>5, NamesAre

\* So does what was deleted or voided.
LEMMA DeletedIsSound ==
  ASSUME NEW x \in Objects
  PROVE  Reports(Qbo!BuildDelete(NameOf(x), x))
<1>1. Reports(<<>>)
  BY NoEvents DEF Reports
<1>2. CASE x \in Vendors /\ x \notin Docs /\ NameOf(x) = "Vendor"
  <2>1. Sound(Qbo!Make("vendor.deleted", x, Null))
    BY <1>2 DEF Sound, Qbo!Make, DocTypes, Upserts
  <2> QED
    BY <1>2, <2>1, ReportsOne DEF Qbo!BuildDelete
<1>3. CASE x \in Accounts /\ NameOf(x) = "Account"
  BY <1>1, <1>3 DEF Qbo!BuildDelete
<1>4. CASE x \in Bills /\ x \in Docs /\ NameOf(x) = "Bill"
  <2>1. Sound(Qbo!Make("bill.voided", x, Null))
    BY <1>4 DEF Sound, Qbo!Make, DocTypes, Upserts
  <2> QED
    BY <1>4, <2>1, ReportsOne DEF Qbo!BuildDelete
<1>5. CASE x \in Expenses /\ x \in Docs /\ NameOf(x) = "Purchase"
  <2>1. Sound(Qbo!Make("expense.voided", x, Null))
    BY <1>5 DEF Sound, Qbo!Make, DocTypes, Upserts
  <2> QED
    BY <1>5, <2>1, ReportsOne DEF Qbo!BuildDelete
<1>6. CASE x \in Payments /\ x \notin Docs /\ NameOf(x) = "BillPayment"
  <2>1. Sound(Qbo!Make("bill_payment.deleted", x, Null))
    BY <1>6 DEF Sound, Qbo!Make, DocTypes, Upserts
  <2> QED
    BY <1>6, <2>1, ReportsOne DEF Qbo!BuildDelete
<1> QED
  BY <1>2, <1>3, <1>4, <1>5, <1>6, NamesAre

\* And so does a notification, whether or not the fetch succeeds.
LEMMA FetchedIsSound ==
  ASSUME NEW x \in Objects, NEW o, x \in Docs /\ o # NoObject => IsDocument(o), NEW op
  PROVE  Reports(Qbo!FetchAndTranslate(NameOf(x), x, op, o))
<1>1. CASE op \in {"Delete", "Void"}
  BY <1>1, DeletedIsSound DEF Qbo!FetchAndTranslate
<1>2. CASE op \notin {"Delete", "Void"} /\ o = NoObject
  BY <1>2, NoEvents DEF Qbo!FetchAndTranslate, Reports
<1>3. CASE op \notin {"Delete", "Void"} /\ o # NoObject
  <2> DEFINE update == op = "Update"
  <2>1. Qbo!FetchAndTranslate(NameOf(x), x, op, o) =
          Qbo!TranslateEntity(NameOf(x), x, o, op = "Update")
    BY <1>3 DEF Qbo!FetchAndTranslate
  <2> QED
    BY <1>3, <2>1, TranslatedIsSound
<1> QED
  BY <1>1, <1>2, <1>3

-----------------------------------------------------------------------------
(* The books *)

\* Documents add up, and a payment is of a bill that is there.
BooksOK ==
  /\ books = [x \in Objects |-> books[x]]
  /\ \A x \in Docs : books[x] # NoObject => IsDocument(books[x])
  /\ \A m \in Payments : books[m] # NoObject =>
       /\ books[m].total \in Int
       /\ \E b \in Bills : Head(books[m].linked).id = b /\ IsDocument(books[b])

\* A document stays one when its balance changes.
LEMMA Rebalanced ==
  ASSUME NEW o, IsDocument(o), NEW balance \in Int
  PROVE  IsDocument([o EXCEPT !.balance = balance])
<1> DEFINE q == [o EXCEPT !.balance = balance]
<1> DEFINE lines == Qbo!ExpenseLines(o)
<1>1. /\ Documented(o, lines)
      /\ {"entity", "cur", "total", "tax", "balance", "day", "lines"} \subseteq DOMAIN o
  BY DocumentIs DEF Documented
<1>2. DOMAIN q = DOMAIN o /\ q = [f \in DOMAIN q |-> q[f]]
  OBVIOUS
<1>3. /\ q.lines = o.lines /\ q.cur = o.cur /\ q.day = o.day
      /\ q.total = o.total /\ q.tax = o.tax /\ q.balance = balance
  BY <1>1
<1> HIDE DEF q
<1>4. Qbo!ExpenseLines(q) = lines
  BY <1>3 DEF Qbo!ExpenseLines
<1> HIDE DEF lines
<1>5. Documented(q, lines)
  BY <1>1, <1>2, <1>3 DEF Documented
<1> QED
  BY <1>4, <1>5, DocumentIs DEF q

\* Bills and other objects are objects, and payments are no documents.
LEMMA Kinds ==
  /\ Docs \subseteq Objects /\ Payments \subseteq Objects /\ Vendors \subseteq Objects
  /\ Bills \subseteq Docs
  /\ \A x \in Docs : x \notin Payments /\ x \notin Vendors
  /\ \A v \in Vendors : v \notin Payments
BY ObjectsAssumption DEF Objects, Docs

\* The books are in order when the company is connected ...
LEMMA BooksInit == Init => BooksOK
<1> SUFFICES ASSUME Init PROVE BooksOK
  OBVIOUS
<1>1. books = FirstBooks
  BY DEF Init
<1> QED
  BY <1>1, BooksAssumption, Kinds DEF BooksOK

\* ... and stay so when one document is entered, edited or withdrawn ...
LEMMA DocumentChanges ==
  ASSUME BooksOK, NEW x \in Docs \union Vendors, NEW o,
         x \in Docs /\ o # NoObject => IsDocument(o),
         x \in Bills => IsDocument(o) \/ PaymentsOf(x) = {},
         books' = [books EXCEPT ![x] = o]
  PROVE  BooksOK'
<1>1. x \in Objects /\ x \notin Payments
  BY Kinds
<1>2. books' = [y \in Objects |-> IF y = x THEN o ELSE books[y]]
  BY DEF BooksOK
<1>3. ASSUME NEW y \in Docs, books'[y] # NoObject PROVE IsDocument(books'[y])
  <2>1. y \in Objects
    BY Kinds
  <2> QED
    BY <1>2, <1>3, <2>1 DEF BooksOK
<1>4. ASSUME NEW m \in Payments, books'[m] # NoObject
      PROVE  /\ books'[m].total \in Int
             /\ \E b \in Bills : Head(books'[m].linked).id = b /\ IsDocument(books'[b])
  <2>1. m \in Objects /\ m # x
    BY <1>1, Kinds
  <2>2. books'[m] = books[m]
    BY <1>2, <2>1
  <2>3. /\ books[m].total \in Int
        /\ \E b \in Bills : Head(books[m].linked).id = b /\ IsDocument(books[b])
    BY <1>4, <2>2 DEF BooksOK
  <2>7. PICK b \in Bills : Head(books[m].linked).id = b /\ IsDocument(books[b])
    BY <2>3
  <2>4. b \in Objects
    BY Kinds
  <2>5. CASE b # x
    <3>1. books'[b] = books[b]
      BY <1>2, <2>4, <2>5
    <3> QED
      BY <2>2, <2>3, <2>7, <3>1
  <2>6. CASE b = x
    <3>1. m \in PaymentsOf(b)
      BY <1>4, <2>2, <2>7 DEF PaymentsOf
    <3>2. IsDocument(o)
      BY <2>6, <3>1
    <3>3. books'[b] = o
      BY <1>2, <2>4, <2>6
    <3> QED
      BY <2>2, <2>3, <2>7, <3>2, <3>3
  <2> QED
    BY <2>5, <2>6
<1> QED
  BY <1>2, <1>3, <1>4 DEF BooksOK

\* ... and when a payment changes, and with it the balance of its bill ...
LEMMA PaymentChanges ==
  ASSUME BooksOK, NEW m \in Payments, NEW b \in Bills, IsDocument(books[b]), NEW p,
         p # NoObject => p.total \in Int /\ Head(p.linked).id = b, NEW balance \in Int,
         books' = [books EXCEPT ![m] = p, ![b].balance = balance]
  PROVE  BooksOK'
<1> DEFINE o == [books[b] EXCEPT !.balance = balance]
<1>1. m \in Objects /\ b \in Objects /\ b \in Docs /\ m # b
  BY Kinds
<1>2. books' = [y \in Objects |-> IF y = b THEN o ELSE IF y = m THEN p ELSE books[y]]
  BY <1>1 DEF BooksOK
<1>3. IsDocument(o)
  BY Rebalanced
<1> HIDE DEF o
<1>4. ASSUME NEW y \in Docs, books'[y] # NoObject PROVE IsDocument(books'[y])
  <2>1. y \in Objects /\ y # m
    BY Kinds
  <2>2. books'[y] = IF y = b THEN o ELSE books[y]
    BY <1>2, <2>1
  <2> QED
    BY <1>3, <1>4, <2>2 DEF BooksOK
<1>5. ASSUME NEW n \in Payments, books'[n] # NoObject
      PROVE  /\ books'[n].total \in Int
             /\ \E c \in Bills : Head(books'[n].linked).id = c /\ IsDocument(books'[c])
  <2>1. n \in Objects /\ n # b
    BY <1>1, Kinds
  <2>2. books'[n] = IF n = m THEN p ELSE books[n]
    BY <1>2, <2>1
  <2>3. CASE n = m
    <3>1. books'[b] = o
      BY <1>1, <1>2
    <3> QED
      BY <1>3, <1>5, <2>2, <2>3, <3>1
  <2>4. CASE n # m
    <3>0. books[n].total \in Int
      BY <1>5, <2>2, <2>4 DEF BooksOK
    <3>1. PICK c \in Bills : Head(books[n].linked).id = c /\ IsDocument(books[c])
      BY <1>5, <2>2, <2>4 DEF BooksOK
    <3>2. c \in Objects /\ c # m
      BY Kinds
    <3>3. books'[c] = IF c = b THEN o ELSE books[c]
      BY <1>2, <3>2
    <3> QED
      BY <1>3, <2>2, <2>4, <3>0, <3>1, <3>3
  <2> QED
    BY <2>3, <2>4
<1> QED
  BY <1>2, <1>4, <1>5 DEF BooksOK

\* ... that is, always.
LEMMA BooksStep == BooksOK /\ [Next]_vars => BooksOK'
<1> SUFFICES ASSUME BooksOK, [Next]_vars PROVE BooksOK'
  OBVIOUS
<1>1. CASE UNCHANGED books
  BY <1>1 DEF BooksOK
<1>2. CASE Books
  <2>1. ASSUME NEW x \in Docs, Enter(x) PROVE BooksOK'
    <3>1. PICK c \in Contents[x] : books' = [books EXCEPT ![x] = c]
      BY <2>1 DEF Enter
    <3>2. IsDocument(c)
      BY BooksAssumption
    <3> QED
      BY <3>1, <3>2, DocumentChanges
  <2>2. ASSUME NEW x \in Docs, Edit(x) PROVE BooksOK'
    <3>1. PICK c \in Contents[x] : books' = [books EXCEPT ![x] = c]
      BY <2>2 DEF Edit
    <3>2. IsDocument(c)
      BY BooksAssumption
    <3> QED
      BY <3>1, <3>2, DocumentChanges
  <2>3. ASSUME NEW x \in Docs \union Vendors, Withdraw(x) PROVE BooksOK'
    <3>1. books' = [books EXCEPT ![x] = NoObject] /\ (x \in Bills => PaymentsOf(x) = {})
      BY <2>3 DEF Withdraw
    <3> QED
      BY <3>1, DocumentChanges
  <2>4. ASSUME NEW b \in Bills, NEW m \in Payments, Pay(b, m) PROVE BooksOK'
    <3>1. PICK amount \in {books[b].balance, books[b].balance \div 2} \ {0} : books' = [books EXCEPT
              ![m] = [linked |-> <<[type |-> "Bill", id |-> b]>>, total |-> amount,
                      cur |-> books[b].cur, day |-> Today],
              ![b].balance = @ - amount]
      BY <2>4 DEF Pay
    <3> DEFINE p == [linked |-> <<[type |-> "Bill", id |-> b]>>, total |-> amount,
                     cur |-> books[b].cur, day |-> Today]
    <3>2. b \in Docs /\ books[b] # NoObject /\ b # m
      BY <2>4, Kinds DEF Pay
    <3>3. IsDocument(books[b])
      BY <3>2 DEF BooksOK
    <3>4. Head(p.linked).id = b /\ p.total = amount
      OBVIOUS
    <3>6. books[b].balance \in Int /\ amount \in Int /\ books[b].balance - amount \in Int
      <4>1. books[b].balance \in Int
        BY <3>3, DocumentIs DEF Documented
      <4> HIDE DEF p
      <4> QED
        BY <4>1
    <3>5. books' = [books EXCEPT ![m] = p, ![b].balance = books[b].balance - amount]
      BY <3>1, <3>2
    <3> HIDE DEF p
    <3> QED
      BY <3>3, <3>4, <3>5, <3>6, PaymentChanges
  <2>5. ASSUME NEW m \in Payments, ReversePayment(m) PROVE BooksOK'
    <3>1. PICK b \in Bills : Head(books[m].linked).id = b /\ IsDocument(books[b])
      BY <2>5 DEF ReversePayment, BooksOK
    <3>2. b # m
      BY Kinds
    <3>3. books' = [books EXCEPT ![m] = NoObject, ![b].balance = @ + books[m].total]
      BY <2>5, <3>1 DEF ReversePayment
    <3>4. books' = [books EXCEPT ![m] = NoObject,
                                 ![b].balance = books[b].balance + books[m].total]
      BY <3>2, <3>3
    <3>5. books[b].balance + books[m].total \in Int
      <4>1. books[b].balance \in Int
        BY <3>1, DocumentIs DEF Documented
      <4>2. books[m].total \in Int
        BY <2>5 DEF BooksOK, ReversePayment
      <4> QED
        BY <4>1, <4>2
    <3> QED
      BY <3>1, <3>4, <3>5, PaymentChanges
  <2> QED
    BY <1>2, <2>1, <2>2, <2>3, <2>4, <2>5 DEF Books
<1>3. CASE Next /\ ~Books
  <2>1. UNCHANGED books
    BY <1>3 DEF Next, Receive, StartBackfill, FetchType, Publish, Consume, Replay,
                SyncRates, booksVars
  <2> QED
    BY <1>1, <2>1
<1> QED
  BY <1>1, <1>2, <1>3 DEF vars

-----------------------------------------------------------------------------
(* The messages on their way *)

\* Events with the version they were read at.
Batch(s) == IsStream(s) /\ \A m \in Range(s) : Sound(m.e)

\* A request is gone when its events are published.
IsRequest(q) == "left" \in DOMAIN q /\ Batch(q.left) /\ q.left # <<>>

Notices(s) == IsStream(s) /\ \A n \in Range(s) : n.obj \in Objects
Requests(s) == IsStream(s) /\ \A q \in Range(s) : IsRequest(q)

\* Whatever waits to be handled was read from books in order.
Messages ==
  /\ Notices(notices) /\ Requests(requests)
  /\ Batch(topic) /\ \A m \in parked : Sound(m.e)

\* What was read about an object is kept with its version.
LEMMA ReadIsBatch ==
  ASSUME NEW x, NEW events, Reports(events)
  PROVE  Batch(Read(x, events))
<1> DEFINE S == {[e |-> f, ver |-> version[x]] : f \in Range(events)}
<1>1. events \in Seq(Range(events)) /\ \A f \in Range(events) : Sound(f)
  BY DEF Reports, IsStream
<1>2. \A i \in DOMAIN events : events[i] \in Range(events)
  BY <1>1
<1>3. Read(x, events) \in Seq(S)
  BY <1>1, <1>2 DEF Read
<1>4. \A m \in S : Sound(m.e)
  BY <1>1
<1> HIDE DEF S
<1> QED
  BY <1>3, <1>4, Members DEF Batch

\* A request with nothing to publish is over at once.
LEMMA Served ==
  ASSUME NEW rs, Requests(rs), NEW from, NEW batch, Batch(batch)
  PROVE  Requests(IF batch = <<>> THEN rs
                  ELSE Append(rs, [from |-> from, left |-> batch]))
<1>1. CASE batch = <<>>
  BY <1>1
<1>2. CASE batch # <<>>
  <2> DEFINE q == [from |-> from, left |-> batch]
  <2>1. IsRequest(q)
    BY <1>2 DEF IsRequest
  <2> HIDE DEF q
  <2>2. Requests(Append(rs, q))
    BY <2>1, Appended DEF Requests
  <2> QED
    BY <1>2, <2>2 DEF q
<1> QED
  BY <1>1, <1>2

\* A publication takes the first event of a request.
LEMMA Published ==
  ASSUME NEW rs, Requests(rs), NEW r \in DOMAIN rs
  PROVE  /\ Sound(Head(rs[r].left).e)
         /\ Requests(IF Len(rs[r].left) = 1 THEN RemoveAt(rs, r)
                     ELSE [rs EXCEPT ![r].left = Tail(@)])
<1> DEFINE q == rs[r]
           rest == [q EXCEPT !.left = Tail(q.left)]
<1>1. q \in Range(rs)
  BY DEF Range
<1>2. IsRequest(q) /\ IsStream(rs)
  BY <1>1 DEF Requests
<1>3. IsStream(Tail(q.left)) /\ Range(q.left) = Range(Tail(q.left)) \union {Head(q.left)}
  BY <1>2, Consumed DEF IsRequest, Batch
<1>4. Sound(Head(q.left).e) /\ \A m \in Range(Tail(q.left)) : Sound(m.e)
  BY <1>2, <1>3 DEF IsRequest, Batch
<1>5. Requests(RemoveAt(rs, r))
  BY <1>2, Removed DEF Requests
<1>6. CASE Len(q.left) # 1
  <2>1. Tail(q.left) # <<>>
    <3>1. PICK s, S : s = q.left /\ s \in Seq(S)
      BY <1>2 DEF IsRequest, Batch, IsStream
    <3>2. s # <<>> /\ Len(s) # 1
      BY <1>2, <1>6, <3>1 DEF IsRequest
    <3>3. Len(Tail(s)) = Len(s) - 1 /\ Len(s) \in Nat /\ Len(s) # 0
      BY <3>1, <3>2
    <3>4. Len(Tail(s)) # Len(<<>>)
      BY <3>2, <3>3
    <3> QED
      BY <3>1, <3>4
  <2>2. DOMAIN rest = DOMAIN q /\ rest.left = Tail(q.left)
    BY <1>2 DEF IsRequest
  <2>3. IsRequest(rest)
    BY <1>2, <1>3, <1>4, <2>1, <2>2 DEF IsRequest, Batch
  <2> DEFINE later == IF Len(q.left) = 1 THEN RemoveAt(rs, r)
                      ELSE [rs EXCEPT ![r].left = Tail(@)]
  <2>4. later = [rs EXCEPT ![r] = rest]
    BY <1>6
  <2> HIDE DEF rest, later
  <2>5. Requests([rs EXCEPT ![r] = rest])
    <3>1. IsStream([rs EXCEPT ![r] = rest])
      BY Zenon, <1>2, Replaced
    <3>2. Range([rs EXCEPT ![r] = rest]) \subseteq Range(rs) \union {rest}
      BY Zenon, <1>2, Replaced
    <3> QED
      BY Zenon, <2>3, <3>1, <3>2 DEF Requests
  <2>6. Requests(later)
    BY <2>4, <2>5
  <2> QED
    BY Zenon, <1>4, <2>6 DEF later
<1>7. CASE Len(q.left) = 1
  BY <1>4, <1>5, <1>7
<1> QED
  BY <1>6, <1>7

\* A backfill lists the objects of one type and reads each of them.
LEMMA FetchedTogether ==
  ASSUME BooksOK, NEW name
  PROVE  LET there == SetToSeq({x \in Objects : NameOf(x) = name /\ books[x] # NoObject})
             events(x) == Qbo!TranslateEntity(name, x, books[x], FALSE)
         IN  Batch(FlattenSeq([i \in DOMAIN there |-> Read(there[i], events(there[i]))]))
<1> DEFINE S == {x \in Objects : NameOf(x) = name /\ books[x] # NoObject}
           there == SetToSeq(S)
           events(x) == Qbo!TranslateEntity(name, x, books[x], FALSE)
           each == [i \in DOMAIN there |-> Read(there[i], events(there[i]))]
           M == UNION {Range(Read(x, events(x))) : x \in S}
<1>1. there \in Seq(S)
  <2>1. IsFiniteSet(S)
    BY ObjectsAssumption, FS_Subset
  <2> HIDE DEF S
  <2> QED
    BY <2>1, Listed
<1>2. ASSUME NEW x \in S
      PROVE  Batch(Read(x, events(x))) /\ Read(x, events(x)) \in Seq(M)
  <2>1. x \in Objects /\ name = NameOf(x) /\ (x \in Docs => IsDocument(books[x]))
    BY DEF BooksOK
  <2>2. Reports(events(x))
    BY <2>1, TranslatedIsSound
  <2> HIDE DEF events
  <2>3. Batch(Read(x, events(x)))
    BY <2>2, ReadIsBatch
  <2>4. Range(Read(x, events(x))) \subseteq M
    OBVIOUS
  <2> HIDE DEF M
  <2> DEFINE s == Read(x, events(x))
  <2>5. s \in Seq(Range(s)) /\ Range(s) \subseteq M
    BY <2>3, <2>4 DEF Batch, IsStream
  <2>6. s \in Seq(M)
    <3> HIDE DEF s
    <3> QED
      BY <2>5
  <2> QED
    BY <2>3, <2>6
<1>3. \A m \in M : Sound(m.e)
  <2> HIDE DEF S, events
  <2> QED
    BY <1>2 DEF Batch
<1> HIDE DEF M, S, events
<1>4. each \in Seq(Seq(M))
  <2> HIDE DEF there
  <2>1. \A i \in DOMAIN there : there[i] \in S
    BY <1>1
  <2>2. \A i \in DOMAIN there : each[i] \in Seq(M)
    BY <1>2, <2>1
  <2>3. DOMAIN each = 1..Len(there) /\ Len(there) \in Nat
    BY <1>1
  <2>4. each = [i \in DOMAIN each |-> each[i]]
    OBVIOUS
  <2> HIDE DEF each
  <2> QED
    BY <2>2, <2>3, <2>4
<1>5. FlattenSeq(each) \in Seq(M)
  <2> HIDE DEF each
  <2> QED
    BY <1>4, Flattened
<1>6. Batch(FlattenSeq(each))
  <2> HIDE DEF each
  <2> QED
    BY <1>3, <1>5, Members DEF Batch
<1> QED
  BY Zenon, <1>6 DEF S, events

\* Nothing is on its way at first.
LEMMA MessagesInit == Init => Messages
<1> SUFFICES ASSUME Init PROVE Messages
  OBVIOUS
<1>1. notices = <<>> /\ requests = <<>> /\ topic = <<>> /\ parked = {}
  BY DEF Init
<1> QED
  BY Zenon, <1>1, NoEvents DEF Messages, Notices, Requests, Batch

\* The webhooks of a change name objects.
LEMMA Notified ==
  ASSUME Messages, NEW x \in Objects, NEW y \in Objects, NEW op, NEW oq, NEW xs,
         xs = <<Notice(x, op)>> \/ xs = <<Notice(x, op), Notice(y, oq)>>, Notify(xs)
  PROVE  Messages'
<1>1. Notice(x, op).obj \in Objects /\ Notice(y, oq).obj \in Objects
  BY DEF Notice
<1>2. Notices(xs)
  <2>1. IsStream(xs) /\ \A n \in Range(xs) : n = Notice(x, op) \/ n = Notice(y, oq)
    BY OneEvent, TwoEvents
  <2> QED
    BY <1>1, <2>1 DEF Notices
<1>3. Notices(notices \o xs)
  BY <1>2, Joined DEF Notices, Messages
<1>4. notices' = notices \o xs /\ UNCHANGED <<requests, topic, parked>>
  BY DEF Notify, consumed
<1> QED
  BY Zenon, <1>3, <1>4 DEF Messages, Notices, Requests, Batch

\* Every step keeps what is on its way in order.
LEMMA MessagesStep == BooksOK /\ Messages /\ [Next]_vars => Messages'
<1> SUFFICES ASSUME BooksOK, Messages, [Next]_vars PROVE Messages'
  OBVIOUS
<1>0. ASSUME notices' = notices, requests' = requests, topic' = topic, parked' = parked
      PROVE  Messages'
  BY Zenon, <1>0 DEF Messages, Notices, Requests, Batch
<1>1. CASE Books
  <2>1. ASSUME NEW x \in Docs, Enter(x) \/ Edit(x) PROVE Messages'
    <3>1. x \in Objects
      BY Kinds
    <3>2. Notify(<<Notice(x, "Create")>>) \/ Notify(<<Notice(x, "Update")>>)
      BY <2>1 DEF Enter, Edit
    <3> QED
      BY <3>1, <3>2, Notified
  <2>2. ASSUME NEW x \in Docs \union Vendors, Withdraw(x) PROVE Messages'
    <3>1. x \in Objects
      BY Kinds
    <3>2. PICK op : Notify(<<Notice(x, op)>>)
      BY <2>2 DEF Withdraw
    <3> QED
      BY <3>1, <3>2, Notified
  <2>3. ASSUME NEW b \in Bills, NEW m \in Payments, Pay(b, m) PROVE Messages'
    <3>1. b \in Objects /\ m \in Objects
      BY Kinds
    <3>2. Notify(<<Notice(m, "Create"), Notice(b, "Update")>>)
      BY <2>3 DEF Pay
    <3> QED
      BY <3>1, <3>2, Notified
  <2>4. ASSUME NEW m \in Payments, ReversePayment(m) PROVE Messages'
    <3>1. PICK b : b = Head(books[m].linked).id /\ books[m] # NoObject
      BY <2>4 DEF ReversePayment
    <3>2. b \in Objects /\ m \in Objects
      BY <3>1, Kinds DEF BooksOK
    <3>3. Notify(<<Notice(m, "Void"), Notice(b, "Update")>>)
      BY <2>4, <3>1 DEF ReversePayment
    <3> QED
      BY <3>2, <3>3, Notified
  <2> QED
    BY <1>1, <2>1, <2>2, <2>3, <2>4 DEF Books
<1>2. ASSUME NEW i \in DOMAIN notices, NEW failed, Receive(i, failed) PROVE Messages'
  <2> DEFINE n == notices[i]
             object == IF failed THEN NoObject ELSE books[n.obj]
             events == Qbo!FetchAndTranslate(NameOf(n.obj), n.obj, n.op, object)
             batch == Read(n.obj, events)
  <2>1. n \in Range(notices)
    BY DEF Range
  <2>2. n.obj \in Objects /\ IsStream(notices)
    BY <2>1 DEF Messages, Notices
  <2>3. n.obj \in Docs /\ object # NoObject => IsDocument(object)
    BY <2>2 DEF BooksOK
  <2>4. requests' = IF batch = <<>> THEN requests
                    ELSE Append(requests, [from |-> "webhook", left |-> batch])
    BY Zenon, <1>2 DEF Receive, Serve
  <2>5. notices' = RemoveAt(notices, i) /\ UNCHANGED <<topic, parked>>
    BY Zenon, <1>2 DEF Receive, consumed
  <2> HIDE DEF object
  <2>6. Reports(events)
    BY <2>2, <2>3, FetchedIsSound
  <2> HIDE DEF events
  <2>7. Batch(batch)
    BY <2>6, ReadIsBatch
  <2> HIDE DEF n, batch
  <2>8. Notices(RemoveAt(notices, i))
    BY Removed DEF Messages, Notices
  <2>9. Requests(IF batch = <<>> THEN requests
                 ELSE Append(requests, [from |-> "webhook", left |-> batch]))
    BY <2>7, Served DEF Messages
  <2> QED
    BY Zenon, <2>4, <2>5, <2>8, <2>9 DEF Messages, Notices, Requests, Batch
<1>3. CASE FetchType
  <2> DEFINE there == SetToSeq({x \in Objects : /\ NameOf(x) = Head(backfill)
                                                /\ books[x] # NoObject})
             events(x) == Qbo!TranslateEntity(Head(backfill), x, books[x], FALSE)
             batch == FlattenSeq([i \in DOMAIN there |-> Read(there[i], events(there[i]))])
  <2>1. Batch(batch)
    BY FetchedTogether
  <2>2. requests' = IF batch = <<>> THEN requests
                    ELSE Append(requests, [from |-> "backfill", left |-> batch])
    BY Zenon, <1>3 DEF FetchType, Serve
  <2> HIDE DEF batch
  <2>3. Requests(IF batch = <<>> THEN requests
                 ELSE Append(requests, [from |-> "backfill", left |-> batch]))
    BY <2>1, Served DEF Messages
  <2>4. UNCHANGED <<notices, topic, parked>>
    BY <1>3 DEF FetchType, consumed
  <2> QED
    BY Zenon, <2>2, <2>3, <2>4 DEF Messages, Notices, Requests, Batch
<1>4. ASSUME NEW r \in DOMAIN requests, Publish(r) PROVE Messages'
  <2> DEFINE m == Head(requests[r].left)
             later == IF Len(requests[r].left) = 1 THEN RemoveAt(requests, r)
                      ELSE [requests EXCEPT ![r].left = Tail(@)]
  <2>1. Sound(m.e) /\ Requests(later)
    BY Zenon, Published DEF Messages
  <2>2. topic' = Append(topic, m) /\ requests' = later /\ UNCHANGED <<notices, parked>>
    BY Zenon, <1>4 DEF Publish, consumed
  <2> HIDE DEF m, later
  <2>3. Batch(Append(topic, m))
    BY <2>1, Appended DEF Messages, Batch
  <2> QED
    BY Zenon, <2>1, <2>2, <2>3 DEF Messages, Notices, Requests, Batch
<1>5. CASE Consume
  <2> DEFINE m == Head(topic)
  <2>1. topic # <<>> /\ topic' = Tail(topic) /\ UNCHANGED <<notices, requests>>
        /\ parked' \subseteq parked \union {m}
    BY <1>5 DEF Consume
  <2>2. Batch(Tail(topic)) /\ Sound(m.e)
    BY <2>1, Consumed DEF Messages, Batch
  <2> QED
    BY Zenon, <2>1, <2>2 DEF Messages, Notices, Requests, Batch
<1>6. ASSUME NEW m \in parked, Replay(m) PROVE Messages'
  <2>1. parked' \subseteq parked /\ UNCHANGED <<notices, requests, topic>>
    BY <1>6 DEF Replay
  <2> QED
    BY Zenon, <2>1 DEF Messages, Notices, Requests, Batch
<1>7. CASE StartBackfill \/ SyncRates \/ UNCHANGED vars
  BY <1>0, <1>7 DEF StartBackfill, SyncRates, vars, consumed
<1> QED
  BY <1>1, <1>2, <1>3, <1>4, <1>5, <1>6, <1>7 DEF Next

-----------------------------------------------------------------------------
(* The rows of bills and expenses *)

\* NoRow, the value of a missing row, is not a record.
NoRowIsNoRecord == NoRow # [f \in DOMAIN NoRow |-> NoRow[f]]

RowFields == {"vendor", "kind", "amount", "base", "cur", "day", "lines", "paid", "voided"}

\* a is within less than one unit for each of n members of b, if any.
Near(a, b, n) == a = b \/ a - b \in (1 - n)..(n - 1)

\* LinesAddUp, for one row.
Tallies(row) ==
  /\ RowFields \subseteq DOMAIN row
  /\ row.amount.sub = SumOf(row.lines)
  /\ Near(row.base.sub, SumOver(BasesOf(row.lines), DOMAIN row.lines),
          Cardinality(DOMAIN row.lines))

HasDocs(t) == "doc" \in DOMAIN t /\ t.doc = [x \in Docs |-> t.doc[x]]

\* The row of a document that is there already, with another state.
Marked(type, old, new) ==
  IF old = NoRow THEN new = NoRow
  ELSE IF type = "bill.paid" THEN new = [old EXCEPT !.kind = "paid", !.paid = TRUE]
  ELSE \/ new = [old EXCEPT !.kind = "voided", !.voided = TRUE]
       \/ new = [old EXCEPT !.voided = TRUE]

\* An event changes the row of its own document at most: an upsert writes it,
\* the others mark it.
LEMMA OneRowChanges ==
  ASSUME NEW t, HasDocs(t), NEW rs, NEW e, Sound(e)
  PROVE  /\ HasDocs(Handle(t, rs, e))
         /\ \A x \in Docs : x # e.obj => Handle(t, rs, e).doc[x] = t.doc[x]
         /\ e.obj \in Docs =>
              IF e.type \in Upserts
              THEN Handle(t, rs, e).doc[e.obj] = UpsertHeader(t, rs, e.p, t.doc[e.obj])
              ELSE Marked(e.type, t.doc[e.obj], Handle(t, rs, e).doc[e.obj])
<1> DEFINE u == Handle(t, rs, e)
<1>1. CASE e.obj \notin Docs
  <2>1. u.doc = t.doc /\ "doc" \in DOMAIN u
    <3>1. CASE e.obj \in Vendors
      <4>1. u = HandleVendor(t, e)
        BY Zenon, <3>1, ObjectsAssumption DEF Handle, Objects
      <4> QED
        BY <4>1 DEF HandleVendor, HasDocs
    <3>2. CASE e.obj \in Accounts /\ e.obj \notin Vendors
      <4>1. u = HandleAccount(t, e)
        BY Zenon, <3>2, <1>1, ObjectsAssumption DEF Handle, Objects
      <4> QED
        BY <4>1 DEF HandleAccount, HasDocs
    <3>3. CASE e.obj \in Payments /\ e.obj \notin Vendors /\ e.obj \notin Accounts
      <4>1. u = HandlePayment(t, rs, e)
        BY Zenon, <3>3, <1>1, ObjectsAssumption DEF Handle, Objects
      <4>2. \E p : u = [t EXCEPT !.payment[e.obj] = p]
        BY Zenon, <4>1 DEF HandlePayment
      <4> HIDE DEF u
      <4> QED
        BY <4>2 DEF HasDocs
    <3> QED
      BY <1>1, <3>1, <3>2, <3>3 DEF Sound, Objects
  <2> QED
    BY <1>1, <2>1 DEF HasDocs
<1>2. CASE e.obj \in Docs
  <2>1. u = HandleDoc(t, rs, e)
    <3>1. e.obj \notin Vendors /\ e.obj \notin Accounts /\ e.obj \notin Payments
      BY <1>2, ObjectsAssumption
    <3> QED
      BY Zenon, <1>2, <3>1 DEF Handle
  <2> DEFINE old == t.doc[e.obj]
  <2>2. ASSUME NEW row, u = [t EXCEPT !.doc[e.obj] = row]
        PROVE  /\ HasDocs(u) /\ u.doc[e.obj] = row
               /\ \A x \in Docs : x # e.obj => u.doc[x] = t.doc[x]
    <3> HIDE DEF u
    <3>1. u.doc = [t.doc EXCEPT ![e.obj] = row] /\ "doc" \in DOMAIN u
      BY <2>2 DEF HasDocs
    <3>2. DOMAIN t.doc = Docs
      BY DEF HasDocs
    <3>3. u.doc = [x \in Docs |-> IF x = e.obj THEN row ELSE t.doc[x]]
      BY <3>1, <3>2
    <3> QED
      BY <1>2, <3>1, <3>3 DEF HasDocs
  <2>3. CASE e.type \in Upserts
    <3>1. u = [t EXCEPT !.doc[e.obj] = UpsertHeader(t, rs, e.p, old)]
      BY <2>1, <2>3 DEF HandleDoc, Upserts
    <3> HIDE DEF u
    <3> QED
      BY Zenon, <2>2, <2>3, <3>1 DEF u
  <2>4. CASE e.type \notin Upserts
    <3>1. PICK row : u = [t EXCEPT !.doc[e.obj] = row] /\ Marked(e.type, old, row)
      <4>1. CASE e.type = "bill.paid"
        <5>1. u = BillPaid(t, e)
          BY <2>1, <2>4, <4>1 DEF HandleDoc
        <5> DEFINE row == IF old = NoRow THEN NoRow
                          ELSE [old EXCEPT !.kind = "paid", !.paid = TRUE]
        <5>2. u = [t EXCEPT !.doc[e.obj] = row]
          BY Zenon, <5>1 DEF BillPaid
        <5>3. Marked(e.type, old, row)
          BY <4>1 DEF Marked
        <5> QED
          BY Zenon, <5>2, <5>3
      <4>2. CASE e.type = "bill.voided"
        <5>1. u = BillVoided(t, e)
          BY <2>1, <2>4, <4>2 DEF HandleDoc
        <5> DEFINE row == IF old = NoRow THEN NoRow
                          ELSE [old EXCEPT !.kind = "voided", !.voided = TRUE]
        <5>2. u = [t EXCEPT !.doc[e.obj] = row]
          BY Zenon, <5>1 DEF BillVoided
        <5>3. Marked(e.type, old, row)
          BY <4>2 DEF Marked
        <5> QED
          BY Zenon, <5>2, <5>3
      <4>3. CASE e.type = "expense.voided"
        <5>1. u = ExpenseVoided(t, e)
          BY <2>1, <2>4, <4>3 DEF HandleDoc
        <5> DEFINE row == IF old = NoRow THEN NoRow
                          ELSE [old EXCEPT !.voided = TRUE]
        <5>2. u = [t EXCEPT !.doc[e.obj] = row]
          BY Zenon, <5>1 DEF ExpenseVoided
        <5>3. Marked(e.type, old, row)
          BY <4>3 DEF Marked
        <5> QED
          BY Zenon, <5>2, <5>3
      <4> QED
        BY <1>2, <2>4, <4>1, <4>2, <4>3 DEF Sound, DocTypes
    <3> QED
      BY Zenon, <2>2, <2>4, <3>1
  <2> QED
    BY <1>2, <2>3, <2>4
<1> QED
  BY <1>1, <1>2

-----------------------------------------------------------------------------
(* Voided documents stay out *)

\* The table of documents, and voided rows for those whose voiding found one.
TableOK ==
  /\ HasDocs(db) /\ \A x \in Docs : db.doc[x] # NoRow => Tallies(db.doc[x])
  /\ voids \subseteq Docs
  /\ \A x \in voids : db.doc[x] # NoRow /\ db.doc[x].voided = TRUE

\* An upsert keeps the marks of a row ...
LEMMA UpsertKeepsMarks ==
  ASSUME NoRowIsNoRecord, NEW t, NEW rs, NEW p, NEW old, old # NoRow
  PROVE  /\ UpsertHeader(t, rs, p, old) # NoRow
         /\ UpsertHeader(t, rs, p, old).voided = old.voided
<1> DEFINE row == UpsertHeader(t, rs, p, old)
<1>1. row = [f \in DOMAIN row |-> row[f]]
  BY DEF UpsertHeader
<1>2. row.voided = Kept(old).voided
  BY DEF UpsertHeader
<1>3. Kept(old).voided = old.voided
  BY DEF Kept
<1> HIDE DEF row
<1>4. row # NoRow
  BY <1>1 DEF NoRowIsNoRecord
<1> QED
  BY Zenon, <1>2, <1>3, <1>4 DEF row

\* ... and the others set one, and no more.
LEMMA MarkSets ==
  ASSUME NoRowIsNoRecord, NEW old, old # NoRow, RowFields \subseteq DOMAIN old,
         NEW type, NEW new, Marked(type, old, new)
  PROVE  /\ new # NoRow /\ DOMAIN new = DOMAIN old
         /\ type = "bill.paid" => new.voided = old.voided
         /\ type # "bill.paid" => new.voided = TRUE
         /\ new.amount = old.amount /\ new.base = old.base /\ new.lines = old.lines
         /\ new.cur = old.cur /\ new.day = old.day
<1>1. CASE type = "bill.paid"
  <2>1. new = [old EXCEPT !.kind = "paid", !.paid = TRUE]
    BY <1>1 DEF Marked
  <2>2. new = [f \in DOMAIN new |-> new[f]]
    BY <2>1
  <2>3. new # NoRow
    BY <2>2 DEF NoRowIsNoRecord
  <2> QED
    BY <1>1, <2>1, <2>3 DEF RowFields
<1>2. CASE type # "bill.paid"
  <2>1. \/ new = [old EXCEPT !.kind = "voided", !.voided = TRUE]
        \/ new = [old EXCEPT !.voided = TRUE]
    BY <1>2 DEF Marked
  <2>2. new = [f \in DOMAIN new |-> new[f]]
    BY <2>1
  <2>3. new # NoRow
    BY <2>2 DEF NoRowIsNoRecord
  <2> QED
    BY <1>2, <2>1, <2>3 DEF RowFields
<1> QED
  BY <1>1, <1>2

-----------------------------------------------------------------------------
(* Lines add up *)

\* X units of 1/Unit in whole cents, truncated towards zero as int() does.
Cut(X) == IF X >= 0 THEN X \div Unit ELSE -((-X) \div Unit)

\* What is cut off is less than a cent, on the side of zero.
LEMMA CutOff ==
  ASSUME NEW X \in Int
  PROVE  /\ Cut(X) \in Int /\ Unit * Cut(X) \in Int
         /\ IF X >= 0 THEN 0 <= X - Unit * Cut(X) /\ X - Unit * Cut(X) < Unit
                      ELSE -Unit < X - Unit * Cut(X) /\ X - Unit * Cut(X) <= 0
<1>1. Unit \in Int /\ Unit > 0
  BY RatesAssumption
<1>2. ASSUME NEW Y \in Int, NEW U \in Int, U > 0
      PROVE  /\ Y \div U \in Int /\ U * (Y \div U) <= Y /\ Y < U * (Y \div U) + U
             /\ U * (-(Y \div U)) = -(U * (Y \div U)) /\ U * (Y \div U) \in Int
  BY <1>2
<1>3. CASE X >= 0
  BY <1>1, <1>2, <1>3 DEF Cut
<1>4. CASE X < 0
  <2>1. -X \in Int /\ Cut(X) = -((-X) \div Unit)
    BY <1>4 DEF Cut
  <2> DEFINE q == (-X) \div Unit
  <2>2. /\ q \in Int /\ Unit * q <= -X /\ -X < Unit * q + Unit
        /\ Unit * (-q) = -(Unit * q) /\ Unit * q \in Int
    BY <1>1, <1>2, <2>1
  <2>3. Unit * Cut(X) = -(Unit * q)
    BY <2>1, <2>2
  <2> HIDE DEF q
  <2> QED
    BY <1>1, <1>4, <2>1, <2>2, <2>3 DEF q
<1> QED
  BY <1>3, <1>4

\* Cutting two amounts apart or together differs by a cent at most.
LEMMA CutApart ==
  ASSUME NEW X \in Int, NEW Y \in Int
  PROVE  Cut(X + Y) - Cut(X) - Cut(Y) \in {-1, 0, 1}
<1> DEFINE k == Cut(X + Y) - Cut(X) - Cut(Y)
           rest(Z) == Z - Unit * Cut(Z)
<1>1. Unit \in Int /\ Unit > 0
  BY RatesAssumption
<1>2. X + Y \in Int
  OBVIOUS
<1>3. Cut(X) \in Int /\ Cut(Y) \in Int /\ Cut(X + Y) \in Int
  BY <1>2, CutOff
<1>4. Unit * k = rest(X) + rest(Y) - rest(X + Y)
  BY <1>1, <1>3
<1>5. rest(X) \in Int /\ rest(Y) \in Int /\ rest(X + Y) \in Int
  BY <1>2, CutOff
<1>6. /\ IF X >= 0 THEN 0 <= rest(X) /\ rest(X) < Unit ELSE -Unit < rest(X) /\ rest(X) <= 0
      /\ IF Y >= 0 THEN 0 <= rest(Y) /\ rest(Y) < Unit ELSE -Unit < rest(Y) /\ rest(Y) <= 0
      /\ IF X + Y >= 0 THEN 0 <= rest(X + Y) /\ rest(X + Y) < Unit
         ELSE -Unit < rest(X + Y) /\ rest(X + Y) <= 0
  BY <1>2, CutOff
<1>7. k \in Int
  BY <1>3
<1> HIDE DEF k, rest
<1>8. -2 * Unit < Unit * k /\ Unit * k < 2 * Unit
  BY <1>1, <1>4, <1>5, <1>6
<1>9. ASSUME NEW U \in Int, U > 0, NEW j \in Int, -2 * U < U * j, U * j < 2 * U
      PROVE  j \in {-1, 0, 1}
  <2>1. CASE j >= 2
    <3>1. U * j >= U * 2
      BY <1>9, <2>1
    <3> QED
      BY <1>9, <3>1
  <2>2. CASE j <= -2
    <3>1. U * j <= U * (-2)
      BY <1>9, <2>2
    <3> QED
      BY <1>9, <3>1
  <2> QED
    BY <2>1, <2>2
<1> QED
  BY <1>1, <1>7, <1>8, <1>9 DEF k

\* The lines, cut one by one, miss their sum by less than a cent each.
LEMMA CutLines ==
  ASSUME NEW S, NEW a, Weighs(a, S), NEW r \in Nat, NEW b,
         \A x \in S : b[x] = Cut(a[x] * r)
  PROVE  Near(Cut(SumOver(a, S) * r), SumOver(b, S), Cardinality(S))
<1> DEFINE D(T) == Cut(SumOver(a, T) * r) - SumOver(b, T)
           P == {T \in SUBSET S : /\ T = {} => D(T) = 0
                                  /\ T # {} => D(T) \in (1 - Cardinality(T))..(Cardinality(T) - 1)}
<1>1. \A x \in S : a[x] \in Int /\ a[x] * r \in Int /\ b[x] \in Int
  BY CutOff DEF Weighs
<1>2. ASSUME NEW T \in SUBSET S
      PROVE  /\ IsFiniteSet(T) /\ Cardinality(T) \in Nat /\ Weighs(a, T) /\ Weighs(b, T)
             /\ SumOver(a, T) \in Int /\ SumOver(b, T) \in Int
             /\ Cut(SumOver(a, T) * r) \in Int
  <2>1. IsFiniteSet(T) /\ Cardinality(T) \in Nat
    BY FS_Subset, FS_CardinalityType DEF Weighs
  <2>2. Weighs(a, T) /\ Weighs(b, T)
    BY <1>1, <2>1 DEF Weighs
  <2>3. SumOver(a, T) \in Int /\ SumOver(b, T) \in Int
    BY <2>2, SumType
  <2>4. SumOver(a, T) * r \in Int
    BY <2>3
  <2> QED
    BY <2>1, <2>2, <2>3, <2>4, CutOff
<1>3. {} \in P
  <2>1. SumOver(a, {}) = 0 /\ SumOver(b, {}) = 0
    BY SumEmpty
  <2>2. Cut(0) = 0
    BY RatesAssumption DEF Cut
  <2> QED
    BY <2>1, <2>2
<1>4. ASSUME NEW T \in SUBSET S, NEW x \in S, T \in P, x \notin T
      PROVE  T \union {x} \in P
  <2> DEFINE M == T \union {x}
             A == SumOver(a, T)
             n == Cardinality(T)
  <2>1. SumOver(a, M) = a[x] + A /\ SumOver(b, M) = b[x] + SumOver(b, T)
    BY <1>1, <1>2, <1>4, SumWith
  <2>2. Cardinality(M) = n + 1
    BY <1>2, <1>4, FS_AddElement
  <2>3. /\ A \in Int /\ A * r \in Int /\ n \in Nat /\ a[x] \in Int /\ a[x] * r \in Int
        /\ SumOver(b, T) \in Int
    BY <1>1, <1>2
  <2>4. (a[x] + A) * r = a[x] * r + A * r
    BY <2>3
  <2>5. Cut(a[x] * r + A * r) - Cut(a[x] * r) - Cut(A * r) \in {-1, 0, 1}
    BY <2>3, CutApart
  <2>6. /\ Cut(a[x] * r) \in Int /\ Cut(A * r) \in Int
        /\ Cut(a[x] * r + A * r) \in Int
    BY <2>3, CutOff
  <2>7. D(M) = Cut(a[x] * r + A * r) - (Cut(a[x] * r) + SumOver(b, T))
    BY <2>1, <2>4
  <2>8. D(T) = Cut(A * r) - SumOver(b, T)
    OBVIOUS
  <2> HIDE DEF D, A, n
  <2>9. CASE T = {}
    <3>1. A = 0 /\ SumOver(b, T) = 0 /\ n = 0
      BY <2>9, SumEmpty, FS_EmptySet DEF A, n
    <3>2. a[x] * r + A * r = a[x] * r
      BY <2>3, <3>1
    <3>3. D(M) = 0
      BY <2>6, <2>7, <3>1, <3>2
    <3> QED
      BY <2>2, <3>1, <3>3
  <2>10. CASE T # {}
    <3>1. D(T) \in (1 - n)..(n - 1)
      BY <1>4, <2>10 DEF n
    <3>2. D(M) - D(T) \in {-1, 0, 1} /\ D(M) \in Int /\ D(T) \in Int
      BY <2>3, <2>5, <2>6, <2>7, <2>8
    <3>3. D(M) \in (1 - (n + 1))..((n + 1) - 1)
      BY <2>3, <3>1, <3>2
    <3> QED
      BY <2>2, <3>3
  <2> QED
    BY <2>9, <2>10
<1>5. S \in P
  <2> HIDE DEF P
  <2> QED
    BY <1>3, <1>4, FiniteInduction DEF Weighs
<1>6. CASE S = {}
  <2>1. D(S) = 0
    BY <1>5, <1>6
  <2> QED
    BY <1>2, <2>1 DEF Near
<1>7. CASE S # {}
  BY <1>5, <1>7 DEF Near
<1> QED
  BY <1>6, <1>7

\* A document whose conversion does not fail is converted at one rate, be it that
\* of the base currency, or any if all of its amounts are zero.
LEMMA OneRate ==
  ASSUME NEW rs \in RateTable, NEW c \in Currencies \union {Base, Null}, NEW d,
         NEW A \in SUBSET Int, \A x \in A : ~RateMissing(rs, x, c, d)
  PROVE  \E r \in Nat : \A x \in A : ToBase(rs, x, c, d) = Cut(x * r)
<1>1. Unit \in Int /\ Unit > 0 /\ Unit \in Nat
  BY RatesAssumption
<1>2. Cut(0) = 0
  BY <1>1 DEF Cut
<1>3. CASE c \in {Base, Null}
  <2>1. ASSUME NEW x \in Int PROVE Cut(x * Unit) = x
    <3>1. /\ x * Unit \in Int /\ -(x * Unit) = (-x) * Unit
          /\ x >= 0 => x * Unit >= 0
          /\ x < 0 => x * Unit < 0
      BY <1>1
    <3>2. ASSUME NEW y \in Nat PROVE (y * Unit) \div Unit = y
      BY <1>1
    <3>3. CASE x >= 0
      BY <3>1, <3>2, <3>3 DEF Cut
    <3>4. CASE x < 0
      <4>1. -x \in Nat /\ ((-x) * Unit) \div Unit = -x
        BY <3>2, <3>4
      <4>2. Cut(x * Unit) = -((-(x * Unit)) \div Unit)
        BY <3>1, <3>4 DEF Cut
      <4> QED
        BY <3>1, <4>1, <4>2
    <3> QED
      BY <3>3, <3>4
  <2>2. \A x \in A : ToBase(rs, x, c, d) = x
    BY <1>3 DEF ToBase
  <2> QED
    BY <1>1, <2>1, <2>2
<1>4. CASE c \notin {Base, Null} /\ RateOn(rs, c, d) = NoRate
  <2>1. \A x \in A : x = 0
    BY <1>4 DEF RateMissing
  <2>2. \A x \in A : ToBase(rs, x, c, d) = Cut(x * 0)
    BY <1>2, <2>1 DEF ToBase
  <2> QED
    BY <2>2
<1>5. CASE c \notin {Base, Null} /\ RateOn(rs, c, d) # NoRate
  <2> DEFINE r == RateOn(rs, c, d)
             known == {x \in Stored(rs, c) : x <= d}
  <2>1. known # {} /\ r = rs[c][Max(known)]
    BY <1>5 DEF RateOn
  <2>2. Max(known) \in known
    <3>1. known \in SUBSET Stored(rs, c) /\ IsFiniteSet(Stored(rs, c))
          /\ Stored(rs, c) \subseteq Int
      BY StoredDays
    <3>2. IsFiniteSet(known) /\ known \subseteq Int
      BY <3>1, FS_Subset
    <3> HIDE DEF known
    <3>3. PICK m \in known : \A n \in known : n <= m
      BY <2>1, <3>2, Greatest
    <3>4. \A n \in known : m >= n
      BY <3>2, <3>3
    <3> QED
      BY <3>3, <3>4 DEF Max
  <2>3. Max(known) \in Stored(rs, c)
    BY <2>2
  <2> HIDE DEF known
  <2>4. r \in Nat
    <3>1. Max(known) \in Days /\ rs[c][Max(known)] # NoRate
      BY <2>3 DEF Stored
    <3>2. rs[c] \in [Days -> Nat \union {NoRate}]
      BY <1>5 DEF RateTable
    <3>3. rs[c][Max(known)] \in Nat \union {NoRate}
      BY <3>1, <3>2
    <3> QED
      BY <2>1, <3>1, <3>3
  <2> HIDE DEF r
  <2>5. ASSUME NEW x \in A PROVE ToBase(rs, x, c, d) = Cut(x * r)
    <3>1. /\ x \in Int /\ r \in Int /\ x * r \in Int
          /\ (-x) * r = -(x * r) /\ 0 * r = 0
      <4>1. x \in Int /\ r \in Int
        BY <2>4
      <4>2. ASSUME NEW y \in Int, NEW z \in Int PROVE y * z \in Int
        OBVIOUS
      <4>4. ASSUME NEW z \in Int PROVE 0 * z = 0
        OBVIOUS
      <4>3. ASSUME NEW y \in Int, NEW z \in Int PROVE (-y) * z = -(y * z)
        <5>1. z * (-y) = -(z * y)
          OBVIOUS
        <5>2. (-y) * z = z * (-y) /\ y * z = z * y
          OBVIOUS
        <5> QED
          BY <5>1, <5>2
      <4> QED
        BY <4>1, <4>2, <4>3, <4>4
    <3>2. (x >= 0 => x * r >= 0) /\ (x < 0 => x * r <= 0)
      BY <2>4, <3>1
    <3>3. CASE x = 0
      BY <1>2, <3>1, <3>3 DEF ToBase
    <3>4. CASE x > 0
      BY <1>5, <3>1, <3>2, <3>4 DEF ToBase, Cut, r
    <3>5. CASE x < 0
      <4>1. ToBase(rs, x, c, d) = -((-x * r) \div Unit)
        BY <1>5, <3>1, <3>5 DEF ToBase, r
      <4>2. CASE x * r < 0
        BY <3>1, <4>1, <4>2 DEF Cut
      <4>3. CASE x * r = 0
        <5>1. ASSUME NEW z \in Int, z = 0 PROVE -z = 0 /\ z \div Unit = 0
          <6>1. -z = 0
            <7>1. -z \in Int /\ (-z) + z = 0
              BY <5>1
            <7>2. ASSUME NEW y \in Int, y + z = 0 PROVE y = 0
              BY <5>1, <7>2
            <7> QED
              BY <7>1, <7>2
          <6>2. z \div Unit = 0
            BY <1>1, <5>1
          <6> QED
            BY <6>1, <6>2
        <5>2. -(x * r) = 0
          BY <3>1, <4>3, <5>1
        <5>3. -x * r \in Int /\ -x * r = 0
          BY <3>1, <5>2
        <5>4. -((-x * r) \div Unit) = 0
          BY <5>1, <5>3
        <5> QED
          BY <1>2, <4>1, <4>3, <5>4
      <4> QED
        BY <3>1, <3>2, <3>5, <4>2, <4>3
    <3> QED
      BY <3>1, <3>3, <3>4, <3>5
  <2> QED
    BY <2>4, <2>5
<1> QED
  BY <1>3, <1>4, <1>5

\* What an upsert writes adds up, whatever was there before.
LEMMA UpsertTallies ==
  ASSUME NEW t, NEW rs \in RateTable, NEW e, e.type \in Upserts, AddsUp(e.p),
         ~Raises(rs, e), NEW old
  PROVE  Tallies(UpsertHeader(t, rs, e.p, old))
<1> DEFINE p == e.p
           row == UpsertHeader(t, rs, p, old)
           S == DOMAIN p.lines
           a == AmountsOf(p.lines)
           A == {x \in Amounts(p) : x \in Int}
           b == BasesOf(row.lines)
<1>1. /\ RowFields \subseteq DOMAIN row /\ row.amount.sub = p.sub
      /\ row.base.sub = ToBase(rs, p.sub, p.cur, p.day)
      /\ row.lines = UpsertLines(t, rs, p, old)
  BY DEF UpsertHeader, RowFields
<1>2. row.lines = [i \in S |-> Line(t, rs, p, p.lines[i])]
  BY <1>1 DEF UpsertLines
<1>3. /\ p.cur \in Currencies \union {Base, Null} /\ Weighs(a, S) /\ p.sub = SumOver(a, S)
      /\ p.sub \in Int
  BY SumType DEF AddsUp, Counts, SumOf
<1>4. \A x \in A : ~RateMissing(rs, x, p.cur, p.day)
  BY DEF Raises
<1>5. p.sub \in A
  BY <1>3 DEF Amounts
<1>6. \A i \in S : p.lines[i].amount \in A
  BY <1>3 DEF Amounts, Weighs, AmountsOf
<1> HIDE DEF row, p, A
<1>7. DOMAIN row.lines = S /\ AmountsOf(row.lines) = a
  BY <1>2 DEF AmountsOf, Line
<1>8. row.amount.sub = SumOf(row.lines)
  BY <1>1, <1>3, <1>7 DEF SumOf
<1>9. \A i \in S : a[i] = p.lines[i].amount /\ b[i] = ToBase(rs, p.lines[i].amount, p.cur, p.day)
  BY <1>2 DEF AmountsOf, BasesOf, Line
<1>10. PICK r \in Nat : \A x \in A : ToBase(rs, x, p.cur, p.day) = Cut(x * r)
  <2>1. A \in SUBSET Int
    BY DEF A
  <2> QED
    BY <1>3, <1>4, <2>1, OneRate
<1> HIDE DEF a, b, S
<1>11. row.base.sub = Cut(SumOver(a, S) * r) /\ \A i \in S : b[i] = Cut(a[i] * r)
  BY <1>1, <1>3, <1>5, <1>6, <1>9, <1>10
<1>12. Near(Cut(SumOver(a, S) * r), SumOver(b, S), Cardinality(S))
  BY <1>3, <1>11, CutLines
<1>13. Near(row.base.sub, SumOver(BasesOf(row.lines), DOMAIN row.lines),
            Cardinality(DOMAIN row.lines))
  BY <1>7, <1>11, <1>12 DEF b
<1> QED
  BY <1>1, <1>8, <1>13 DEF Tallies, row, p

\* No row, no voided document at first.
LEMMA TableInit == Init => TableOK
<1> SUFFICES ASSUME Init PROVE TableOK
  OBVIOUS
<1>1. db.doc = [x \in Docs |-> NoRow] /\ "doc" \in DOMAIN db /\ voids = {}
  BY DEF Init, NoTables
<1> QED
  BY <1>1 DEF TableOK, HasDocs

\* Handling an event keeps the table in order, the first time and in a replay.
LEMMA StoreKeeps ==
  ASSUME NoRowIsNoRecord, RatesInv, TableOK, NEW m, Sound(m.e), ~Raises(rates, m.e),
         Store(m)
  PROVE  TableOK'
<1> DEFINE e == m.e
           u == Handle(db, rates, e)
           old == db.doc[e.obj]
           new == u.doc[e.obj]
<1>1. db' = u
  BY DEF Store
<1>2. /\ voids' \subseteq voids \union {e.obj}
      /\ e.obj \in voids' => \/ e.obj \in voids
                             \/ /\ e.type \in {"bill.voided", "expense.voided"}
                                /\ old # NoRow
  BY DEF Store
<1>3. /\ HasDocs(u) /\ \A x \in Docs : x # e.obj => u.doc[x] = db.doc[x]
      /\ e.obj \in Docs => IF e.type \in Upserts
                           THEN new = UpsertHeader(db, rates, e.p, old)
                           ELSE Marked(e.type, old, new)
  BY OneRowChanges DEF TableOK
<1>4. ASSUME e.obj \in Docs, new # NoRow PROVE Tallies(new)
  <2>1. CASE e.type \in Upserts
    <3>1. AddsUp(e.p)
      BY <2>1 DEF Sound
    <3>2. Tallies(UpsertHeader(db, rates, e.p, old))
      BY <2>1, <3>1, UpsertTallies DEF RatesInv
    <3> QED
      BY <1>3, <1>4, <2>1, <3>2
  <2>2. CASE e.type \notin Upserts
    <3>1. Marked(e.type, old, new)
      BY <1>3, <1>4, <2>2
    <3>2. old # NoRow
      BY <1>4, <3>1 DEF Marked
    <3>3. Tallies(old)
      BY <1>4, <3>2 DEF TableOK
    <3> HIDE DEF u, e
    <3>4. /\ DOMAIN new = DOMAIN old /\ new.amount = old.amount
          /\ new.base = old.base /\ new.lines = old.lines
      <4>1. RowFields \subseteq DOMAIN old
        BY <3>3 DEF Tallies
      <4>2. PICK type, a, b : type = e.type /\ a = old /\ b = new
        OBVIOUS
      <4> HIDE DEF old, new
      <4>3. DOMAIN b = DOMAIN a /\ b.amount = a.amount /\ b.base = a.base /\ b.lines = a.lines
        BY ZenonT(40), <3>1, <3>2, <4>1, <4>2, MarkSets
      <4> QED
        BY <4>2, <4>3
    <3> QED
      BY <3>3, <3>4 DEF Tallies
  <2> QED
    BY <2>1, <2>2
<1>5. ASSUME e.obj \in Docs, old # NoRow
      PROVE  /\ new # NoRow
             /\ old.voided = TRUE \/ e.type \in {"bill.voided", "expense.voided"} =>
                  new.voided = TRUE
  <2>1. RowFields \subseteq DOMAIN old
    BY <1>5 DEF TableOK, Tallies
  <2>2. CASE e.type \in Upserts
    <3>1. new = UpsertHeader(db, rates, e.p, old)
      BY <1>3, <1>5, <2>2
    <3>2. /\ UpsertHeader(db, rates, e.p, old) # NoRow
          /\ UpsertHeader(db, rates, e.p, old).voided = old.voided
      <4> HIDE DEF old, u, e
      <4> QED
        BY <1>5, UpsertKeepsMarks
    <3>3. e.type \notin {"bill.voided", "expense.voided"}
      BY <2>2 DEF Upserts
    <3> HIDE DEF old, u, e
    <3> QED
      BY Zenon, <3>1, <3>2, <3>3
  <2>3. CASE e.type \notin Upserts
    <3>1. Marked(e.type, old, new)
      BY <1>3, <1>5, <2>3
    <3>2. /\ new # NoRow
          /\ e.type = "bill.paid" => new.voided = old.voided
          /\ e.type # "bill.paid" => new.voided = TRUE
      BY Zenon, <1>5, <2>1, <3>1, MarkSets
    <3> HIDE DEF old, u, e
    <3>3. e.type \in {"bill.voided", "expense.voided"} => e.type # "bill.paid"
      OBVIOUS
    <3> QED
      BY Zenon, <3>2, <3>3
  <2> QED
    BY Zenon, <2>2, <2>3
<1> HIDE DEF u, e
<1>6. \A x \in Docs : u.doc[x] # NoRow => Tallies(u.doc[x])
  BY Zenon, <1>3, <1>4 DEF TableOK
<1>7. ASSUME NEW x \in voids'
      PROVE  x \in Docs /\ db'.doc[x] # NoRow /\ db'.doc[x].voided = TRUE
  <2>1. CASE x # e.obj
    <3>1. x \in voids
      BY <1>2, <2>1
    <3> QED
      BY Zenon, <1>1, <1>3, <2>1, <3>1 DEF TableOK
  <2>2. CASE x = e.obj
    <3>1. e.obj \in Docs
      <4>1. CASE e.obj \in voids
        BY <4>1 DEF TableOK
      <4>2. CASE e.type \in {"bill.voided", "expense.voided"}
        BY <4>2 DEF Sound, DocTypes, e
      <4> QED
        BY Zenon, <1>2, <2>2, <4>1, <4>2
    <3>2. old # NoRow /\ (old.voided = TRUE \/ e.type \in {"bill.voided", "expense.voided"})
      BY Zenon, <1>2, <2>2 DEF TableOK
    <3> QED
      BY Zenon, <1>1, <1>5, <2>2, <3>1, <3>2
  <2> QED
    BY <2>1, <2>2
<1>8. voids' \subseteq Docs
  BY Zenon, <1>7
<1> QED
  BY Zenon, <1>1, <1>3, <1>6, <1>7, <1>8 DEF TableOK, HasDocs

\* Every step keeps the table in order.
LEMMA TableStep ==
  ASSUME NoRowIsNoRecord, RatesInv, Messages, TableOK, [Next]_vars
  PROVE  TableOK'
<1>1. CASE UNCHANGED <<db, voids>>
  BY Zenon, <1>1 DEF TableOK, HasDocs
<1>2. ASSUME NEW m, Sound(m.e), ~Raises(rates, m.e), Store(m) PROVE TableOK'
  BY <1>2, StoreKeeps
<1>3. CASE Consume
  <2> DEFINE m == Head(topic)
  <2>1. Sound(m.e)
    BY <1>3, Consumed DEF Consume, Messages, Batch
  <2>2. CASE Raises(rates, m.e)
    BY <1>1, <1>3, <2>2 DEF Consume
  <2>3. CASE ~Raises(rates, m.e)
    <3>1. Store(m)
      BY <1>3, <2>3 DEF Consume
    <3> HIDE DEF m
    <3> QED
      BY <1>2, <2>1, <2>3, <3>1
  <2> QED
    BY <2>2, <2>3
<1>4. ASSUME NEW m \in parked, Replay(m) PROVE TableOK'
  <2>1. Sound(m.e) /\ ~Raises(rates, m.e) /\ Store(m)
    BY <1>4 DEF Replay, Messages
  <2> QED
    BY <1>2, <2>1
<1>5. CASE Books
  <2>1. UNCHANGED <<db, voids>>
    BY <1>5 DEF Books, Enter, Edit, Withdraw, Pay, ReversePayment, Notify, consumed
  <2> QED
    BY <1>1, <2>1
<1>6. CASE (\E i \in DOMAIN notices : Receive(i, FALSE) \/ Receive(i, TRUE))
           \/ (\E r \in DOMAIN requests : Publish(r))
  <2>1. UNCHANGED <<db, voids>>
    BY <1>6 DEF Receive, Publish, consumed
  <2> QED
    BY <1>1, <2>1
<1>7. CASE StartBackfill \/ FetchType \/ SyncRates \/ UNCHANGED vars
  <2>1. UNCHANGED <<db, voids>>
    BY <1>7 DEF StartBackfill, FetchType, SyncRates, consumed, vars
  <2> QED
    BY <1>1, <2>1
<1> QED
  BY <1>3, <1>4, <1>5, <1>6, <1>7 DEF Next

\* The inductive invariant of the expense side: the rates have no gaps, the books
\* and what was read of them are in order, and so is the table.
ExpenseInv == RatesInv /\ BooksOK /\ Messages /\ TableOK

\* It holds throughout, in particular every stored row is of a document that the
\* company had and adds up, and every row marked by a voiding still bears the mark.
THEOREM ExpenseInductive ==
  ASSUME NoRowIsNoRecord
  PROVE  Spec => []ExpenseInv
<1>1. Init => ExpenseInv
  BY RatesInit, BooksInit, MessagesInit, TableInit DEF ExpenseInv
<1>2. ExpenseInv /\ [Next]_vars => ExpenseInv'
  BY RatesStep, BooksStep, MessagesStep, TableStep DEF ExpenseInv
<1> QED
  BY <1>1, <1>2, PTL DEF Spec

\* A bill or purchase whose voiding found its row never counts again: every later
\* event, whatever it was read from and however late, keeps the mark of the row.
THEOREM VoidedNeverCounts ==
  ASSUME NoRowIsNoRecord
  PROVE  Spec => []VoidedStaysOut
<1>1. ExpenseInv => VoidedStaysOut
  <2> SUFFICES ASSUME ExpenseInv, NEW x \in voids,
                      NEW l \in ExpenseLines(Min(Days), Max(Days))
               PROVE  l[1] # x
    BY DEF VoidedStaysOut
  <2>1. PICK y \in Docs : ~db.doc[y].voided /\ l \in {<<y, i>> : i \in DOMAIN db.doc[y].lines}
    BY Zenon DEF ExpenseLines
  <2>2. l[1] = y
    BY <2>1
  <2>3. db.doc[x].voided = TRUE
    BY DEF ExpenseInv, TableOK
  <2> QED
    BY <2>1, <2>2, <2>3
<1> QED
  BY <1>1, ExpenseInductive, PTL

\* The lines of every stored bill and purchase add up to its amount before tax;
\* converted one by one, they miss it by less than a cent for each line.  Header and
\* lines are written from one payload and with one rate, or not at all.
THEOREM StoredLinesAddUp ==
  ASSUME NoRowIsNoRecord
  PROVE  Spec => []LinesAddUp
<1>1. ExpenseInv => LinesAddUp
  <2> SUFFICES ASSUME ExpenseInv, NEW x \in Docs, db.doc[x] # NoRow
               PROVE  LET row == db.doc[x]
                          sum == MapThenSumSet(LAMBDA i : row.lines[i].amount, DOMAIN row.lines)
                          worth == MapThenSumSet(LAMBDA i : row.lines[i].base, DOMAIN row.lines)
                          n == Cardinality(DOMAIN row.lines)
                      IN  /\ row.amount.sub = sum
                          /\ row.base.sub = worth \/ row.base.sub - worth \in (1 - n)..(n - 1)
    BY Zenon DEF LinesAddUp
  <2> DEFINE row == db.doc[x]
  <2>1. Tallies(row)
    BY DEF ExpenseInv, TableOK
  <2>2. MapThenSumSet(LAMBDA i : row.lines[i].amount, DOMAIN row.lines) = SumOf(row.lines)
    BY AmountsAre
  <2>3. MapThenSumSet(LAMBDA i : row.lines[i].base, DOMAIN row.lines) =
          SumOver(BasesOf(row.lines), DOMAIN row.lines)
    BY BasesAre
  <2> QED
    BY Zenon, <2>1, <2>2, <2>3 DEF Tallies, Near
<1> QED
  BY <1>1, ExpenseInductive, PTL

-----------------------------------------------------------------------------
(* What is on its way, in the order in which it will be handled *)

\* As long as nothing overtakes: the topic, then what each request has left.
LeftsOf(rs) == [r \in DOMAIN rs |-> rs[r].left]
FlightOf(t, rs) == t \o FlattenSeq(LeftsOf(rs))
Flight == FlightOf(topic, requests)

\* All of it are sequences of messages.
LEMMA FlightSet ==
  ASSUME NEW t, Batch(t), NEW rs, Requests(rs), NEW b, Batch(b)
  PROVE  \E S : /\ t \in Seq(S) /\ b \in Seq(S) /\ LeftsOf(rs) \in Seq(Seq(S))
                /\ \A m \in S : Sound(m.e)
<1> DEFINE L == UNION {Range(q.left) : q \in Range(rs)}
           S == Range(t) \union Range(b) \union L
<1>1. t \in Seq(Range(t)) /\ b \in Seq(Range(b)) /\ rs \in Seq(Range(rs))
  BY DEF Batch, Requests, IsStream
<1>2. t \in Seq(S) /\ b \in Seq(S)
  BY <1>1, SeqMonotonic
<1>3. ASSUME NEW q \in Range(rs)
      PROVE  q.left \in Seq(S) /\ \A m \in Range(q.left) : Sound(m.e)
  <2>1. q.left \in Seq(Range(q.left)) /\ \A m \in Range(q.left) : Sound(m.e)
    BY DEF Requests, IsRequest, Batch, IsStream
  <2>2. Range(q.left) \subseteq S
    OBVIOUS
  <2> QED
    BY <2>1, <2>2, SeqMonotonic
<1>4. \A m \in S : Sound(m.e)
  BY <1>3 DEF Batch
<1> HIDE DEF S, L
<1>5. LeftsOf(rs) \in Seq(Seq(S))
  <2>1. DOMAIN rs = 1..Len(rs) /\ Len(rs) \in Nat /\ \A r \in DOMAIN rs : rs[r] \in Range(rs)
    BY <1>1
  <2>2. \A r \in DOMAIN rs : rs[r].left \in Seq(S)
    BY <1>3, <2>1
  <2> QED
    BY <2>1, <2>2 DEF LeftsOf
<1> QED
  BY <1>2, <1>4, <1>5

\* So it is one.
LEMMA FlightIs ==
  ASSUME NEW t, Batch(t), NEW rs, Requests(rs)
  PROVE  Batch(FlightOf(t, rs))
<1>1. PICK S : t \in Seq(S) /\ LeftsOf(rs) \in Seq(Seq(S)) /\ \A m \in S : Sound(m.e)
  BY FlightSet
<1>2. FlattenSeq(LeftsOf(rs)) \in Seq(S)
  BY <1>1, Flattened
<1>3. FlightOf(t, rs) \in Seq(S)
  BY <1>1, <1>2, ConcatProperties DEF FlightOf
<1> QED
  BY <1>1, <1>3, Members DEF Batch

\* The next message is the first of the topic ...
LEMMA FlightNext ==
  ASSUME NEW t, Batch(t), t # <<>>, NEW rs, Requests(rs)
  PROVE  /\ FlightOf(t, rs) = <<Head(t)>> \o FlightOf(Tail(t), rs)
         /\ Batch(Tail(t)) /\ Sound(Head(t).e)
<1>1. PICK S : t \in Seq(S) /\ LeftsOf(rs) \in Seq(Seq(S)) /\ \A m \in S : Sound(m.e)
  BY FlightSet
<1>2. FlattenSeq(LeftsOf(rs)) \in Seq(S)
  BY <1>1, Flattened
<1>3. Head(t) \in S /\ Tail(t) \in Seq(S) /\ <<Head(t)>> \in Seq(S)
  BY <1>1, HeadTailProperties
<1>4. t = <<Head(t)>> \o Tail(t)
  BY <1>1, HeadTailProperties, ConcatProperties, SeqEqual
<1>5. PICK h \in Seq(S), u \in Seq(S), f \in Seq(S) :
        h = <<Head(t)>> /\ u = Tail(t) /\ f = FlattenSeq(LeftsOf(rs))
  BY <1>2, <1>3
<1>6. (h \o u) \o f = h \o (u \o f)
  BY ConcatAssociative
<1> QED
  BY <1>1, <1>3, <1>4, <1>5, <1>6, Members DEF FlightOf, Batch

\* The requests when one more has read b.
Joins(new, rs, from, b) ==
  new = IF b = <<>> THEN rs ELSE Append(rs, [from |-> from, left |-> b])

\* ... a request adds its messages at the end ...
LEMMA FlightServed ==
  ASSUME NEW t, Batch(t), NEW rs, Requests(rs), NEW b, Batch(b), NEW from, NEW new,
         Joins(new, rs, from, b)
  PROVE  FlightOf(t, new) = FlightOf(t, rs) \o b
<1>1. PICK S : t \in Seq(S) /\ b \in Seq(S) /\ LeftsOf(rs) \in Seq(Seq(S))
  BY FlightSet
<1>2. PICK f \in Seq(S) : f = FlattenSeq(LeftsOf(rs))
  BY <1>1, Flattened
<1>3. (t \o f) \o b = t \o (f \o b) /\ t \o f \in Seq(S)
  BY <1>1, ConcatAssociative, ConcatProperties
<1>4. CASE b = <<>>
  <2>1. (t \o f) \o b = t \o f
    BY <1>3, <1>4, ConcatEmptySeq
  <2> QED
    BY <1>2, <1>4, <2>1 DEF FlightOf, Joins
<1>5. CASE b # <<>>
  <2> DEFINE q == [from |-> from, left |-> b]
             more == Append(rs, q)
  <2>1. rs \in Seq(Range(rs) \union {q})
    BY SeqMonotonic DEF Requests, IsStream
  <2>2. /\ DOMAIN more = 1..(Len(rs) + 1) /\ Len(rs) \in Nat
        /\ \A i \in 1..Len(rs) : more[i] = rs[i]
        /\ more[Len(rs) + 1] = q /\ DOMAIN rs = 1..Len(rs)
    BY <2>1, AppendProperties
  <2>3. q.left = b
    OBVIOUS
  <2> HIDE DEF more, q
  <2>4. LeftsOf(more) = Append(LeftsOf(rs), b)
    <3>1. /\ DOMAIN LeftsOf(rs) = 1..Len(rs) /\ LeftsOf(more) = [i \in 1..(Len(rs) + 1) |-> more[i].left]
      BY <2>2 DEF LeftsOf
    <3>2. /\ Len(LeftsOf(rs)) = Len(rs)
          /\ \A i \in 1..Len(rs) : LeftsOf(rs)[i] = rs[i].left
      BY <1>1, <2>2, <3>1 DEF LeftsOf
    <3>3. Append(LeftsOf(rs), b) \in Seq(Seq(S))
      BY <1>1, AppendProperties
    <3>4. /\ Len(Append(LeftsOf(rs), b)) = Len(rs) + 1
          /\ \A i \in 1..Len(rs) : Append(LeftsOf(rs), b)[i] = rs[i].left
          /\ Append(LeftsOf(rs), b)[Len(rs) + 1] = b
      BY <1>1, <3>2, AppendProperties
    <3>5. PICK a \in Seq(Seq(S)) : a = Append(LeftsOf(rs), b)
      BY <3>3
    <3>6. a = [i \in 1..(Len(rs) + 1) |-> a[i]]
      <4>1. DOMAIN a = 1..(Len(rs) + 1) /\ a \in [1..Len(a) -> Seq(S)]
        BY <3>4, <3>5, LenProperties
      <4> QED
        BY <4>1
    <3>7. \A i \in 1..(Len(rs) + 1) : more[i].left = a[i]
      BY <2>2, <2>3, <3>4, <3>5
    <3> QED
      BY <3>1, <3>5, <3>6, <3>7
  <2>5. FlattenSeq(LeftsOf(more)) = f \o b
    BY <1>1, <1>2, <2>4, FlatLast
  <2> QED
    BY <1>2, <1>3, <1>5, <2>5 DEF FlightOf, more, q, Joins
<1> QED
  BY <1>4, <1>5

\* ... and a publication of the oldest request moves its first message from the
\* request to the topic.
LEMMA FlightMoved ==
  ASSUME NEW t, Batch(t), NEW rs, Requests(rs), 1 \in DOMAIN rs
  PROVE  FlightOf(Append(t, Head(rs[1].left)),
                  IF Len(rs[1].left) = 1 THEN RemoveAt(rs, 1)
                  ELSE [rs EXCEPT ![1].left = Tail(@)])
           = FlightOf(t, rs)
<1> DEFINE q == rs[1]
           h == Head(q.left)
           rest == Tail(q.left)
           ls == LeftsOf(rs)
<1>1. PICK S : t \in Seq(S) /\ ls \in Seq(Seq(S))
  BY FlightSet
<1>2. IsRequest(q) /\ rs \in Seq(Range(rs))
  <2>1. q \in Range(rs)
    BY DEF Range
  <2> QED
    BY <2>1 DEF Requests, IsStream
<1>3. ls # <<>> /\ ls[1] = q.left /\ Len(ls) = Len(rs) /\ Len(rs) \in Nat
      /\ DOMAIN rs = 1..Len(rs) /\ DOMAIN ls = DOMAIN rs
      /\ \A i \in DOMAIN rs : ls[i] = rs[i].left
  BY <1>1, <1>2 DEF LeftsOf
<1>4. q.left \in Seq(S) /\ q.left # <<>>
  <2>1. ls[1] \in Seq(S)
    BY <1>1, <1>3
  <2> QED
    BY <1>2, <1>3, <2>1 DEF IsRequest
<1>5. h \in S /\ rest \in Seq(S) /\ q.left = <<h>> \o rest /\ <<h>> \in Seq(S)
  <2>1. PICK s \in Seq(S) : s = q.left
    BY <1>4
  <2>2. Head(s) \in S /\ Tail(s) \in Seq(S) /\ s = <<Head(s)>> \o Tail(s)
    BY <1>4, <2>1, HeadTailProperties, ConcatProperties, SeqEqual
  <2> QED
    BY <2>1, <2>2
<1>6. FlattenSeq(ls) = q.left \o FlattenSeq(Tail(ls)) /\ Tail(ls) \in Seq(Seq(S))
      /\ FlattenSeq(Tail(ls)) \in Seq(S)
  BY <1>1, <1>3, FlatFirst, Flattened, HeadTailProperties
<1> DEFINE f == FlattenSeq(Tail(ls))
           later == IF Len(q.left) = 1 THEN RemoveAt(rs, 1)
                    ELSE [rs EXCEPT ![1].left = Tail(@)]
<1>7. FlattenSeq(LeftsOf(later)) = rest \o f
  <2>1. CASE Len(q.left) = 1
    <3>1. later = Tail(rs)
      <4>1. PICK u, T : u = rs /\ u \in Seq(T) /\ u # <<>>
        BY <1>2, <1>3
      <4>2. SubSeq(u, 1, 0) = <<>> /\ SubSeq(u, 2, Len(u)) \in Seq(T)
            /\ Tail(u) = SubSeq(u, 2, Len(u))
        <5>1. \A i \in 2..Len(u) : u[i] \in T
          BY <4>1
        <5> QED
          BY <4>1, <5>1, TailIsSubSeq, SubSeqEmpty, SubSeqProperties
      <4>3. RemoveAt(u, 1) = Tail(u)
        BY <4>1, <4>2, ConcatEmptySeq DEF RemoveAt
      <4> QED
        BY <2>1, <4>1, <4>3
    <3>2. LeftsOf(Tail(rs)) = Tail(ls)
      <4>1. /\ DOMAIN Tail(rs) = 1..(Len(rs) - 1)
            /\ \A i \in 1..(Len(rs) - 1) : Tail(rs)[i] = rs[i + 1]
        <5>1. rs # <<>>
          BY <1>2, <1>3
        <5> QED
          BY <1>2, <5>1, HeadTailProperties
      <4>2. PICK u \in Seq(Seq(S)) : u = Tail(ls)
        BY <1>6
      <4>3. Len(u) = Len(rs) - 1 /\ \A i \in 1..(Len(rs) - 1) : u[i] = ls[i + 1]
        BY <1>1, <1>3, <4>2, HeadTailProperties
      <4>4. u = [i \in 1..(Len(rs) - 1) |-> u[i]]
        <5>1. DOMAIN u = 1..(Len(rs) - 1) /\ u \in [1..Len(u) -> Seq(S)]
          BY <4>3, LenProperties
        <5> QED
          BY <5>1
      <4>5. \A i \in 1..(Len(rs) - 1) : Tail(rs)[i].left = u[i]
        <5> TAKE i \in 1..(Len(rs) - 1)
        <5>1. i + 1 \in DOMAIN rs
          BY <1>3
        <5> QED
          BY <1>3, <4>1, <4>3, <5>1
      <4> HIDE DEF ls
      <4> QED
        BY <4>1, <4>2, <4>4, <4>5 DEF LeftsOf
    <3>3. rest = <<>>
      <4>1. PICK s \in Seq(S) : s = q.left
        BY <1>4
      <4>2. Len(Tail(s)) = 0 /\ Tail(s) \in Seq(S)
        BY <1>4, <2>1, <4>1, HeadTailProperties
      <4> QED
        BY <4>1, <4>2, EmptySeq
    <3>4. <<>> \o f = f
      BY <1>6, ConcatEmptySeq
    <3> HIDE DEF f, ls, rest, later
    <3>5. FlattenSeq(LeftsOf(later)) = f
      BY <3>1, <3>2 DEF f
    <3> QED
      BY <3>3, <3>4, <3>5
  <2>2. CASE Len(q.left) # 1
    <3>1. later = [rs EXCEPT ![1] = [q EXCEPT !.left = rest]]
      BY <2>2
    <3>2. [q EXCEPT !.left = rest].left = rest
      BY <1>2 DEF IsRequest
    <3>3. /\ DOMAIN later = DOMAIN rs
          /\ later[1].left = rest
          /\ \A i \in DOMAIN rs : i # 1 => later[i] = rs[i]
      <4> DEFINE n == [q EXCEPT !.left = rest]
      <4>1. later = [rs EXCEPT ![1] = n] /\ n.left = rest
        BY <3>1, <3>2
      <4> HIDE DEF n, later
      <4> QED
        BY <4>1
    <3> HIDE DEF later
    <3> DEFINE more == LeftsOf(later)
    <3>4. /\ DOMAIN more = 1..Len(rs) /\ more[1] = rest
          /\ \A i \in 1..Len(rs) : i # 1 => more[i] = ls[i]
      BY <1>3, <3>3 DEF LeftsOf
    <3>5. more \in Seq(Seq(S))
      <4>1. \A i \in 1..Len(rs) : more[i] \in Seq(S)
        <5> HIDE DEF more, ls, rest
        <5>1. \A i \in 1..Len(ls) : ls[i] \in Seq(S)
          BY <1>1
        <5> QED
          BY <1>3, <1>5, <3>4, <5>1
      <4>2. more = [i \in 1..Len(rs) |-> more[i]]
        BY <1>3, <3>3 DEF LeftsOf
      <4> HIDE DEF more
      <4> QED
        BY <1>3, <4>1, <4>2
    <3>6. Tail(more) = Tail(ls)
      <4>1. PICK u \in Seq(Seq(S)) : u = more
        BY <3>5
      <4> HIDE DEF more, ls
      <4>2. Len(u) = Len(ls) /\ u # <<>> /\ \A i \in 2..Len(ls) : u[i] = ls[i]
        BY <1>1, <1>3, <3>4, <4>1
      <4>3. /\ Tail(u) \in Seq(Seq(S)) /\ Tail(ls) \in Seq(Seq(S))
            /\ Len(Tail(u)) = Len(ls) - 1 /\ Len(Tail(ls)) = Len(ls) - 1
            /\ \A i \in 1..(Len(ls) - 1) : Tail(u)[i] = u[i + 1] /\ Tail(ls)[i] = ls[i + 1]
        BY <1>1, <1>3, <4>2, HeadTailProperties
      <4>4. \A i \in 1..(Len(ls) - 1) : Tail(u)[i] = Tail(ls)[i]
        BY <1>1, <4>2, <4>3
      <4>5. PICK a \in Seq(Seq(S)), b \in Seq(Seq(S)) : a = Tail(u) /\ b = Tail(ls)
        BY <4>3
      <4>6. Len(a) = Len(b) /\ \A i \in 1..Len(a) : a[i] = b[i]
        BY <4>3, <4>4, <4>5
      <4>7. a = b
        BY <4>6, SeqEqual
      <4> QED
        BY <4>1, <4>5, <4>7
    <3>7. more # <<>>
      BY <1>3, <3>4
    <3>8. FlattenSeq(more) = more[1] \o FlattenSeq(Tail(more))
      <4> HIDE DEF more
      <4> QED
        BY <3>5, <3>7, FlatFirst
    <3> QED
      BY <3>4, <3>6, <3>8
  <2> QED
    BY <2>1, <2>2
<1>8. Append(t, h) = t \o <<h>>
  BY <1>1, <1>5, AppendIsConcat
<1> HIDE DEF f, later, ls, rest, h, q
<1>9. PICK x \in Seq(S), y \in Seq(S), z \in Seq(S) : x = <<h>> /\ y = rest /\ z = f
  BY <1>5, <1>6 DEF f
<1>10. (t \o x) \o (y \o z) = t \o ((x \o y) \o z)
  <2>1. y \o z \in Seq(S) /\ (x \o y) \o z = x \o (y \o z)
    BY ConcatAssociative, ConcatProperties
  <2> QED
    BY <1>1, <2>1, ConcatAssociative, SMTT(30)
<1>11. FlightOf(Append(t, h), later) = (t \o x) \o (y \o z)
  BY <1>7, <1>8, <1>9 DEF FlightOf
<1>12. FlightOf(t, rs) = t \o ((x \o y) \o z)
  BY <1>5, <1>6, <1>9 DEF FlightOf, f, ls
<1> QED
  BY <1>10, <1>11, <1>12 DEF later, h, q

\* One message is to be handled before another.
Before(s, a, b) == \E i, j \in DOMAIN s : i < j /\ s[i] = a /\ s[j] = b

\* It is in one of two streams that follow each other, or across both.
LEMMA JoinedBefore ==
  ASSUME NEW s, IsStream(s), NEW t, IsStream(t), NEW a, NEW b
  PROVE  Before(s \o t, a, b) <=> \/ Before(s, a, b) \/ Before(t, a, b)
                                  \/ a \in Range(s) /\ b \in Range(t)
<1> DEFINE S == Range(s) \union Range(t)
           u == s \o t
<1>1. s \in Seq(S) /\ t \in Seq(S)
  BY SeqMonotonic DEF IsStream
<1>2. /\ DOMAIN s = 1..Len(s) /\ DOMAIN t = 1..Len(t) /\ Len(s) \in Nat /\ Len(t) \in Nat
      /\ DOMAIN u = 1..(Len(s) + Len(t))
      /\ \A i \in 1..(Len(s) + Len(t)) : u[i] = IF i <= Len(s) THEN s[i] ELSE t[i - Len(s)]
  BY <1>1, ConcatProperties
<1>3. /\ \A i \in 1..Len(s) : s[i] \in Range(s) /\ u[i] = s[i] /\ i \in DOMAIN u
      /\ \A i \in 1..Len(t) : /\ t[i] \in Range(t) /\ u[Len(s) + i] = t[i]
                              /\ Len(s) + i \in DOMAIN u
  <2>1. \A i \in 1..Len(s) : s[i] \in Range(s)
    BY <1>2 DEF Range
  <2>2. \A i \in 1..Len(t) : t[i] \in Range(t)
    BY <1>2 DEF Range
  <2> HIDE DEF u
  <2>3. ASSUME NEW i \in 1..Len(t) PROVE u[Len(s) + i] = t[i] /\ Len(s) + i \in DOMAIN u
    <3>1. Len(s) + i \in 1..(Len(s) + Len(t)) /\ ~(Len(s) + i <= Len(s))
          /\ (Len(s) + i) - Len(s) = i
      BY <1>2
    <3> QED
      BY <1>2, <3>1
  <2>4. \A i \in 1..Len(s) : u[i] = s[i] /\ i \in DOMAIN u
    BY <1>2
  <2> QED
    BY <2>1, <2>2, <2>3, <2>4
<1> HIDE DEF u, S
<1>4. ASSUME Before(s, a, b) PROVE Before(u, a, b)
  BY <1>2, <1>3, <1>4 DEF Before
<1>5. ASSUME Before(t, a, b) PROVE Before(u, a, b)
  <2>1. PICK i \in 1..Len(t), j \in 1..Len(t) : i < j /\ t[i] = a /\ t[j] = b
    BY <1>2, <1>5 DEF Before
  <2>2. Len(s) + i < Len(s) + j
    BY <1>2, <2>1
  <2> QED
    BY <1>3, <2>1, <2>2 DEF Before
<1>6. ASSUME a \in Range(s), b \in Range(t) PROVE Before(u, a, b)
  <2>1. PICK i \in 1..Len(s) : s[i] = a
    BY <1>2, <1>6 DEF Range
  <2>2. PICK j \in 1..Len(t) : t[j] = b
    BY <1>2, <1>6 DEF Range
  <2>3. i < Len(s) + j
    BY <1>2
  <2> QED
    BY <1>3, <2>1, <2>2, <2>3 DEF Before
<1>7. ASSUME Before(u, a, b)
      PROVE  Before(s, a, b) \/ Before(t, a, b) \/ (a \in Range(s) /\ b \in Range(t))
  <2>1. PICK i \in DOMAIN u, j \in DOMAIN u : i < j /\ u[i] = a /\ u[j] = b
    BY <1>7 DEF Before
  <2>2. CASE j <= Len(s)
    <3>1. i \in 1..Len(s) /\ j \in 1..Len(s)
      BY <1>2, <2>1, <2>2
    <3> QED
      BY <1>2, <1>3, <2>1, <3>1 DEF Before
  <2>3. CASE Len(s) < i
    <3>1. /\ i - Len(s) \in 1..Len(t) /\ j - Len(s) \in 1..Len(t)
          /\ i - Len(s) < j - Len(s) /\ ~(i <= Len(s)) /\ ~(j <= Len(s))
      BY <1>2, <2>1, <2>3
    <3>2. t[i - Len(s)] = a /\ t[j - Len(s)] = b
      BY <1>2, <2>1, <3>1
    <3> QED
      BY <1>2, <3>1, <3>2 DEF Before
  <2>4. CASE i <= Len(s) /\ Len(s) < j
    <3>1. i \in 1..Len(s) /\ j - Len(s) \in 1..Len(t) /\ ~(j <= Len(s))
      BY <1>2, <2>1, <2>4
    <3>2. s[i] = a /\ t[j - Len(s)] = b
      BY <1>2, <2>1, <2>4, <3>1
    <3> QED
      BY <1>3, <3>1, <3>2
  <2> QED
    BY <1>2, <2>1, <2>2, <2>3, <2>4
<1> QED
  BY <1>4, <1>5, <1>6, <1>7 DEF u

\* One message is before none.
LEMMA OneBefore ==
  ASSUME NEW m, NEW a, NEW b
  PROVE  ~Before(<<m>>, a, b)
BY DEF Before

\* Two are one before the other.
LEMMA TwoBefore ==
  ASSUME NEW a, NEW b
  PROVE  Before(<<a, b>>, a, b)
<1>1. 1 \in DOMAIN <<a, b>> /\ 2 \in DOMAIN <<a, b>> /\ 1 < 2
  OBVIOUS
<1> QED
  BY <1>1 DEF Before

\* What is before another in one of the parts is so in the whole.
LEMMA WithinBefore ==
  ASSUME NEW S, NEW s \in Seq(S), NEW u, Within(s, u, S), NEW a, NEW b
  PROVE  /\ Before(s, a, b) => Before(u, a, b)
         /\ Range(s) \subseteq Range(u)
<1>1. PICK x \in Seq(S), y \in Seq(S) : u = (x \o s) \o y
  BY DEF Within
<1>2. IsStream(s) /\ IsStream(x) /\ IsStream(y)
  BY Members
<1>3. IsStream(x \o s) /\ Range(x \o s) = Range(x) \union Range(s)
  BY <1>2, Joined
<1>4. Range(u) = Range(x \o s) \union Range(y)
  BY <1>1, <1>2, <1>3, Joined
<1>5. Before(s, a, b) => Before(x \o s, a, b)
  BY <1>2, JoinedBefore
<1>6. Before(x \o s, a, b) => Before(u, a, b)
  BY <1>1, <1>2, <1>3, JoinedBefore
<1> QED
  BY <1>3, <1>4, <1>5, <1>6

\* What is before another is there, and so is the other.
LEMMA BeforeIn ==
  ASSUME NEW s, NEW a, NEW b, Before(s, a, b)
  PROVE  a \in Range(s) /\ b \in Range(s)
BY DEF Before, Range

\* In the order in which they were read.
Ordered(s) ==
  \A a, b \in Range(s) : Before(s, a, b) /\ a.e.obj = b.e.obj => a.ver <= b.ver

\* Without the first, the others are in order, and none is older than it.
LEMMA OrderedNext ==
  ASSUME NEW m, NEW s, IsStream(s), Ordered(<<m>> \o s)
  PROVE  Ordered(s) /\ \A b \in Range(s) : m.e.obj = b.e.obj => m.ver <= b.ver
<1>1. IsStream(<<m>>) /\ Range(<<m>>) = {m}
  BY OneEvent
<1>2. Range(<<m>> \o s) = {m} \union Range(s)
  BY <1>1, Joined
<1>3. \A a, b : Before(s, a, b) \/ (a = m /\ b \in Range(s)) => Before(<<m>> \o s, a, b)
  BY <1>1, JoinedBefore
<1> QED
  BY <1>2, <1>3 DEF Ordered

\* More messages are in order after those that are no newer.
LEMMA OrderedJoined ==
  ASSUME NEW s, IsStream(s), Ordered(s), NEW t, IsStream(t), Ordered(t),
         \A a \in Range(s), b \in Range(t) : a.e.obj = b.e.obj => a.ver <= b.ver
  PROVE  Ordered(s \o t)
<1>1. \A a, b : Before(s \o t, a, b) => \/ Before(s, a, b) \/ Before(t, a, b)
                                        \/ a \in Range(s) /\ b \in Range(t)
  BY JoinedBefore
<1>2. \A a, b : /\ Before(s, a, b) => a \in Range(s) /\ b \in Range(s)
                /\ Before(t, a, b) => a \in Range(t) /\ b \in Range(t)
  BY BeforeIn
<1> QED
  BY <1>1, <1>2 DEF Ordered

-----------------------------------------------------------------------------
(* What a read says *)

\* Bills, expenses and payments: what the rows should mirror.
Traced == Docs \union Payments

Ups == Upserts \union {"bill_payment.created"}
Drops == {"bill.voided", "expense.voided", "bill_payment.deleted"}

\* The payload p of an event about x has what object o of the books holds.
Brings(p, x, o) ==
  IF x \in Docs
  THEN /\ p.total = o.total /\ p.cur = o.cur /\ p.day = o.day
       /\ p.lines = Qbo!ExpenseLines(o)
       /\ x \in Bills => p.kind = Qbo!BillStatus(o)
  ELSE p.amount = o.total

\* What an event about o, or about an object that is no more, may be.
Tells(e, o) ==
  IF o = NoObject THEN e.type \in Drops
  ELSE \/ e.type \in Ups /\ Brings(e.p, e.obj, o)
       \/ e.type = "bill.paid" /\ o.balance <= 0

\* The events s about x bring it, and a paid bill's payment after that.
Covers(s, x, o) ==
  \E u \in Range(s) :
    /\ u.obj = x /\ u.type \in Ups
    /\ x \in Bills /\ o.balance <= 0 =>
         \E p \in Range(s) : p.obj = x /\ p.type = "bill.paid" /\ Before(s, u, p)

\* What a fetched object becomes.
LEMMA FetchTells ==
  ASSUME NEW x \in Objects, NEW o, x \in Docs => IsDocument(o), NEW update, NEW s,
         s = Qbo!TranslateEntity(NameOf(x), x, o, update)
  PROVE  /\ \A e \in Range(s) : e.obj = x
         /\ x \in Traced /\ o # NoObject => /\ \A e \in Range(s) : Tells(e, o)
                                           /\ Covers(s, x, o)
<1>1. CASE x \in Vendors /\ x \notin Docs /\ NameOf(x) = "Vendor"
  <2>1. PICK e : s = <<e>> /\ e.obj = x
    BY <1>1 DEF Qbo!TranslateEntity, Qbo!TranslateVendor, Qbo!Make
  <2>2. x \notin Traced
    BY <1>1, Kinds DEF Traced
  <2> QED
    BY <2>1, <2>2, OneEvent
<1>2. CASE x \in Accounts /\ x \notin Docs /\ NameOf(x) = "Account"
  <2>1. PICK e : s = <<e>> /\ e.obj = x
    BY <1>2 DEF Qbo!TranslateEntity, Qbo!TranslateAccount, Qbo!Make
  <2>2. x \notin Traced
    BY <1>2, ObjectsAssumption DEF Traced
  <2> QED
    BY <2>1, <2>2, OneEvent
<1>3. CASE x \in Bills /\ x \in Docs /\ NameOf(x) = "Bill"
  <2> DEFINE p == Qbo!DocPayload(o, o.entity.id, Qbo!BillStatus(o))
             e == Qbo!Make(IF update THEN "bill.updated" ELSE "bill.created", x, p)
             f == Qbo!Make("bill.paid", x, Null)
  <2>1. s = <<e>> \o IF Qbo!BillStatus(o) = "paid" THEN <<f>> ELSE <<>>
    BY <1>3 DEF Qbo!TranslateEntity, Qbo!TranslateBill
  <2>2. Brings(p, x, o)
    BY <1>3 DEF Brings, Qbo!DocPayload
  <2> HIDE DEF p
  <2>3. e.obj = x /\ e.type \in Ups /\ e.p = p
    BY DEF Qbo!Make, Ups, Upserts
  <2>4. f.obj = x /\ f.type = "bill.paid"
    BY DEF Qbo!Make
  <2> HIDE DEF e, f
  <2>5. Qbo!BillStatus(o) = "paid" <=> o.balance <= 0
    BY DEF Qbo!BillStatus
  <2>6. CASE o.balance <= 0
    <3>1. s = <<e>> \o <<f>>
      BY <2>1, <2>5, <2>6
    <3>0. /\ IsStream(<<e>>) /\ Range(<<e>>) = {e}
          /\ IsStream(<<f>>) /\ Range(<<f>>) = {f}
      BY OneEvent
    <3>2. Range(s) = {e, f} /\ Before(s, e, f)
      <4>1. Range(s) = {e, f}
        BY <3>0, <3>1, Joined
      <4>2. Before(s, e, f)
        BY <3>0, <3>1, JoinedBefore
      <4> QED
        BY <4>1, <4>2
    <3>3. o # NoObject => Tells(e, o) /\ Tells(f, o)
      BY <2>2, <2>3, <2>4, <2>6 DEF Tells
    <3>4. Covers(s, x, o)
      BY <2>3, <2>4, <3>2 DEF Covers
    <3> QED
      BY <2>3, <2>4, <3>2, <3>3, <3>4
  <2>7. CASE ~(o.balance <= 0)
    <3>1. s = <<e>> \o <<>>
      BY <2>1, <2>5, <2>7
    <3>2. Range(s) = {e}
      BY <3>1, OneEvent, NoEvents, Joined
    <3>3. o # NoObject => Tells(e, o)
      BY <2>2, <2>3 DEF Tells
    <3>4. Covers(s, x, o)
      BY <2>3, <2>7, <3>2 DEF Covers
    <3> QED
      BY <2>3, <3>2, <3>3, <3>4
  <2> QED
    BY <2>6, <2>7
<1>4. CASE x \in Expenses /\ x \in Docs /\ NameOf(x) = "Purchase"
  <2> DEFINE p == Qbo!DocPayload(o, IF o.entity.type = "Vendor" THEN o.entity.id ELSE Null,
                                 Qbo!NormalizePaymentType(o.payment))
             e == Qbo!Make(IF update THEN "expense.updated" ELSE "expense.created", x, p)
  <2>1. s = <<e>>
    BY <1>4 DEF Qbo!TranslateEntity, Qbo!TranslatePurchase
  <2>0. x \notin Bills
    BY <1>4, ObjectsAssumption
  <2>2. Brings(p, x, o)
    BY <1>4, <2>0 DEF Brings, Qbo!DocPayload
  <2> HIDE DEF p
  <2>3. e.obj = x /\ e.type \in Ups /\ e.p = p
    BY DEF Qbo!Make, Ups, Upserts
  <2> HIDE DEF e
  <2>4. Range(s) = {e}
    BY <2>1, OneEvent
  <2>5. o # NoObject => Tells(e, o)
    BY <2>2, <2>3 DEF Tells
  <2>6. Covers(s, x, o)
    BY <2>0, <2>3, <2>4 DEF Covers
  <2> QED
    BY <2>3, <2>4, <2>5, <2>6
<1>5. CASE x \in Payments /\ x \notin Docs /\ NameOf(x) = "BillPayment"
  <2>1. PICK p : s = <<Qbo!Make("bill_payment.created", x, p)>> /\ p.amount = o.total
    <3> DEFINE bills == SelectSeq(o.linked, LAMBDA l : l.type = "Bill")
               p == [bill |-> IF bills = <<>> THEN Null ELSE Head(bills).id,
                     amount |-> o.total, cur |-> o.cur, day |-> o.day]
    <3>1. s = <<Qbo!Make("bill_payment.created", x, p)>>
      BY <1>5 DEF Qbo!TranslateEntity, Qbo!TranslateBillPayment
    <3>2. p.amount = o.total
      OBVIOUS
    <3> HIDE DEF p
    <3> QED
      BY <3>1, <3>2
  <2> DEFINE e == Qbo!Make("bill_payment.created", x, p)
  <2>2. e.obj = x /\ e.type \in Ups /\ e.p = p
    BY DEF Qbo!Make, Ups
  <2> HIDE DEF e
  <2>3. Range(s) = {e} /\ x \notin Bills
    BY <1>5, <2>1, OneEvent DEF e, Docs
  <2>4. Brings(e.p, x, o)
    BY <1>5, <2>1, <2>2 DEF Brings
  <2> QED
    BY <2>2, <2>3, <2>4 DEF Tells, Covers
<1> QED
  BY <1>1, <1>2, <1>3, <1>4, <1>5, NamesAre

\* What a deleted or voided one becomes.
LEMMA DeleteTells ==
  ASSUME NEW x \in Objects, NEW s, s = Qbo!BuildDelete(NameOf(x), x)
  PROVE  /\ \A e \in Range(s) : e.obj = x /\ (x \in Traced => e.type \in Drops)
         /\ x \in Traced => \E e \in Range(s) : e.obj = x /\ e.type \in Drops
<1>1. CASE x \in Vendors /\ x \notin Docs /\ NameOf(x) = "Vendor"
  <2>1. PICK e : s = <<e>> /\ e.obj = x
    BY <1>1 DEF Qbo!BuildDelete, Qbo!Make
  <2>2. x \notin Traced
    BY <1>1, Kinds DEF Traced
  <2> QED
    BY <2>1, <2>2, OneEvent
<1>2. CASE x \in Accounts /\ x \notin Docs /\ NameOf(x) = "Account"
  <2>1. s = <<>>
    BY <1>2 DEF Qbo!BuildDelete
  <2>2. x \notin Traced
    BY <1>2, ObjectsAssumption DEF Traced
  <2> QED
    BY <2>1, <2>2, NoEvents
<1>3. CASE x \in Traced /\ NameOf(x) \in {"Bill", "Purchase", "BillPayment"}
  <2>1. PICK e : s = <<e>> /\ e.obj = x /\ e.type \in Drops
    BY <1>3 DEF Qbo!BuildDelete, Qbo!Make, Drops
  <2> QED
    BY <2>1, OneEvent
<1> QED
  BY <1>1, <1>2, <1>3, NamesAre DEF Traced

\* Its messages have the version of the read, and are in the same order.
LEMMA ReadIs ==
  ASSUME NEW x, NEW events, IsStream(events), NEW s, s = Read(x, events)
  PROVE  /\ \A m \in Range(s) : m.e \in Range(events) /\ m.ver = version[x]
         /\ \A f \in Range(events) : [e |-> f, ver |-> version[x]] \in Range(s)
         /\ \A f, g : Before(events, f, g) =>
              Before(s, [e |-> f, ver |-> version[x]], [e |-> g, ver |-> version[x]])
<1>1. DOMAIN s = DOMAIN events /\ \A i \in DOMAIN events : s[i] = [e |-> events[i], ver |-> version[x]]
  BY DEF Read
<1>2. \A m \in Range(s) : \E i \in DOMAIN events : m = [e |-> events[i], ver |-> version[x]]
  BY <1>1 DEF Range
<1>3. \A i \in DOMAIN events : events[i] \in Range(events)
  BY DEF Range
<1>4. \A m \in Range(s) : m.e \in Range(events) /\ m.ver = version[x]
  BY <1>2, <1>3
<1>5. \A f \in Range(events) : [e |-> f, ver |-> version[x]] \in Range(s)
  BY <1>1 DEF Range
<1>6. ASSUME NEW f, NEW g, Before(events, f, g)
      PROVE  Before(s, [e |-> f, ver |-> version[x]], [e |-> g, ver |-> version[x]])
  BY <1>1, <1>6 DEF Before
<1> QED
  BY <1>4, <1>5, <1>6

-----------------------------------------------------------------------------
(* What a handler leaves *)

RowIn(t, x) == IF x \in Docs THEN t.doc[x] ELSE t.payment[x]

HasPayments(t) == "payment" \in DOMAIN t /\ t.payment = [x \in Payments |-> t.payment[x]]

\* The row of x has what object o of the books holds.
Mirrors(row, x, o) ==
  /\ row # NoRow
  /\ x \in Docs => /\ row.amount.total = o.total /\ row.cur = o.cur /\ row.day = o.day
                   /\ AmountsOf(row.lines) = AmountsOf(Qbo!ExpenseLines(o))
  /\ x \in Bills => row.kind = Qbo!BillStatus(o)
  /\ x \in Payments => row.amount = o.total

\* Every document has a row that was written in full, or none.
Filled(t) == \A x \in Docs : t.doc[x] # NoRow => RowFields \subseteq DOMAIN t.doc[x]

\* An upsert mirrors what it brings and keeps the dates of payment and voiding,
\* if there are any.
LEMMA UpsertMirrors ==
  ASSUME NoRowIsNoRecord, NEW t, NEW rs, NEW x \in Docs, NEW p, NEW old
  PROVE  LET new == UpsertHeader(t, rs, p, old)
         IN  /\ new # NoRow
             /\ old = NoRow => new.paid = FALSE /\ new.voided = FALSE
             /\ old # NoRow => new.paid = old.paid /\ new.voided = old.voided
             /\ \A o : Brings(p, x, o) => Mirrors(new, x, o)
<1> DEFINE new == UpsertHeader(t, rs, p, old)
<1>1. new # NoRow
  BY DEF UpsertHeader, NoRowIsNoRecord
<1>2. /\ new.paid = Kept(old).paid /\ new.voided = Kept(old).voided
      /\ new.amount.total = p.total /\ new.cur = p.cur /\ new.day = p.day
      /\ new.kind = p.kind /\ new.lines = UpsertLines(t, rs, p, old)
  BY DEF UpsertHeader
<1>3. /\ old = NoRow => Kept(old).paid = FALSE /\ Kept(old).voided = FALSE
      /\ old # NoRow => Kept(old).paid = old.paid /\ Kept(old).voided = old.voided
  BY DEF Kept
<1>4. AmountsOf(new.lines) = AmountsOf(p.lines)
  BY <1>2 DEF AmountsOf, UpsertLines, Line
<1>5. ASSUME NEW o, Brings(p, x, o) PROVE Mirrors(new, x, o)
  <2>1. x \notin Payments
    BY Kinds
  <2>2. /\ p.total = o.total /\ p.cur = o.cur /\ p.day = o.day
        /\ p.lines = Qbo!ExpenseLines(o)
        /\ x \in Bills => p.kind = Qbo!BillStatus(o)
    BY <1>5 DEF Brings
  <2>3. AmountsOf(new.lines) = AmountsOf(Qbo!ExpenseLines(o))
    BY <1>4, <2>2
  <2> QED
    BY <1>1, <1>2, <2>1, <2>2, <2>3 DEF Mirrors
<1> QED
  BY <1>1, <1>2, <1>3, <1>5, Zenon

\* Only the row of the event's object changes.
LEMMA RowsElsewhere ==
  ASSUME NEW t, HasDocs(t), HasPayments(t), NEW rs, NEW e, Sound(e)
  PROVE  /\ HasPayments(Handle(t, rs, e))
         /\ \A x \in Traced : x # e.obj => RowIn(Handle(t, rs, e), x) = RowIn(t, x)
<1> DEFINE new == Handle(t, rs, e)
<1>1. \A x \in Docs : x # e.obj => new.doc[x] = t.doc[x]
  BY OneRowChanges
<1>2. CASE e.obj \in Vendors
  <2>1. new = HandleVendor(t, e)
    BY <1>2, ObjectsAssumption DEF Handle
  <2>2. new.payment = t.payment /\ DOMAIN new = DOMAIN t
    BY <2>1 DEF HandleVendor, HasPayments
  <2> QED
    BY <1>1, <2>2 DEF HasPayments, RowIn
<1>3. CASE e.obj \in Accounts
  <2>1. new = HandleAccount(t, e)
    BY <1>3, ObjectsAssumption DEF Handle
  <2>2. new.payment = t.payment /\ DOMAIN new = DOMAIN t
    BY <2>1 DEF HandleAccount, HasPayments
  <2> QED
    BY <1>1, <2>2 DEF HasPayments, RowIn
<1>4. CASE e.obj \in Docs
  <2>1. new = HandleDoc(t, rs, e)
    BY <1>4, ObjectsAssumption DEF Handle
  <2>2. e.type \in Upserts \union {"bill.paid", "bill.voided", "expense.voided"}
    BY <1>4 DEF Sound, DocTypes
  <2>3. new.payment = t.payment /\ DOMAIN new = DOMAIN t
    <3>1. CASE e.type \in Upserts
      <4>1. new = [t EXCEPT !.doc[e.obj] = UpsertHeader(t, rs, e.p, @)]
        BY <2>1, <3>1 DEF HandleDoc, Upserts
      <4> QED
        BY <4>1 DEF HasPayments
    <3>2. CASE e.type = "bill.paid"
      <4>1. new = BillPaid(t, e)
        BY <2>1, <3>2 DEF HandleDoc, Upserts
      <4> QED
        BY <4>1 DEF HasPayments, BillPaid
    <3>3. CASE e.type = "bill.voided"
      <4>1. new = BillVoided(t, e)
        BY <2>1, <3>3 DEF HandleDoc, Upserts
      <4> QED
        BY <4>1 DEF HasPayments, BillVoided
    <3>4. CASE e.type = "expense.voided"
      <4>1. new = ExpenseVoided(t, e)
        BY <2>1, <3>4 DEF HandleDoc, Upserts
      <4> QED
        BY <4>1 DEF HasPayments, ExpenseVoided
    <3> QED
      BY <2>2, <3>1, <3>2, <3>3, <3>4
  <2> QED
    BY <1>1, <2>3 DEF HasPayments, RowIn
<1>5. CASE e.obj \in Payments
  <2>1. new = HandlePayment(t, rs, e)
    BY <1>5, ObjectsAssumption DEF Handle
  <2>2. \E v : new = [t EXCEPT !.payment[e.obj] = v]
    BY <2>1 DEF HandlePayment
  <2>3. /\ HasPayments(new) /\ \A x \in Payments : x # e.obj => new.payment[x] = t.payment[x]
    BY <2>2 DEF HasPayments
  <2> QED
    BY <1>1, <2>3 DEF RowIn, Traced
<1> QED
  BY <1>2, <1>3, <1>4, <1>5 DEF Sound, Objects

\* The row of the event's object: what the event says, or a mark, or no row.
Becomes(e, old, new) ==
  /\ e.type \in Ups =>
       /\ new # NoRow
       /\ e.obj \in Docs => /\ old = NoRow => new.paid = FALSE /\ new.voided = FALSE
                            /\ old # NoRow => new.paid = old.paid /\ new.voided = old.voided
       /\ \A o : Brings(e.p, e.obj, o) => Mirrors(new, e.obj, o)
  /\ e.type = "bill.paid" =>
       /\ e.obj \in Docs
       /\ old = NoRow => new = NoRow
       /\ old # NoRow => /\ new # NoRow /\ new.kind = "paid" /\ new.paid = TRUE
                         /\ new.voided = old.voided /\ new.amount = old.amount
                         /\ new.cur = old.cur /\ new.day = old.day /\ new.lines = old.lines
  /\ e.type \in Drops => new = NoRow \/ (e.obj \in Docs /\ new.voided = TRUE)

\* So it is, for a document ...
LEMMA DocBecomes ==
  ASSUME NoRowIsNoRecord, NEW t, HasDocs(t), Filled(t), NEW rs, NEW e, Sound(e),
         e.obj \in Docs
  PROVE  Becomes(e, t.doc[e.obj], Handle(t, rs, e).doc[e.obj])
<1> DEFINE old == t.doc[e.obj]
           new == Handle(t, rs, e).doc[e.obj]
<1>1. e.type \in DocTypes
  BY DEF Sound
<1>2. IF e.type \in Upserts THEN new = UpsertHeader(t, rs, e.p, old)
      ELSE Marked(e.type, old, new)
  BY OneRowChanges
<1>3. old # NoRow => RowFields \subseteq DOMAIN old
  BY DEF Filled
<1> HIDE DEF old, new
<1>4. CASE e.type \in Upserts
  <2>1. new = UpsertHeader(t, rs, e.p, old)
    BY <1>2, <1>4
  <2>2. e.type # "bill.paid" /\ e.type \notin Drops
    BY <1>4 DEF Upserts, Drops
  <2>3. /\ new # NoRow
        /\ old = NoRow => new.paid = FALSE /\ new.voided = FALSE
        /\ old # NoRow => new.paid = old.paid /\ new.voided = old.voided
        /\ \A o : Brings(e.p, e.obj, o) => Mirrors(new, e.obj, o)
    <3>1. PICK p : p = e.p
      OBVIOUS
    <3>2. PICK x \in Docs : x = e.obj
      OBVIOUS
    <3>3. new = UpsertHeader(t, rs, p, old)
      BY <2>1, <3>1
    <3> DEFINE u == UpsertHeader(t, rs, p, old)
    <3>4. /\ u # NoRow
          /\ old = NoRow => u.paid = FALSE /\ u.voided = FALSE
          /\ old # NoRow => u.paid = old.paid /\ u.voided = old.voided
          /\ \A o : Brings(p, x, o) => Mirrors(u, x, o)
      BY UpsertMirrors
    <3> HIDE DEF u
    <3>5. new = u
      BY <3>3 DEF u
    <3> QED
      BY <3>1, <3>2, <3>4, <3>5
  <2> QED
    BY <2>2, <2>3 DEF Becomes, old, new
<1>5. CASE e.type = "bill.paid"
  <2>1. Marked(e.type, old, new) /\ e.type \notin Ups /\ e.type \notin Drops
    BY <1>2, <1>5 DEF Upserts, Ups, Drops
  <2>2. CASE old = NoRow
    <3>1. new = NoRow
      BY <2>1, <2>2 DEF Marked
    <3> QED
      BY <1>5, <2>1, <2>2, <3>1 DEF Becomes, old, new
  <2>3. CASE old # NoRow
    <3>1. new = [old EXCEPT !.kind = "paid", !.paid = TRUE]
      BY <1>5, <2>1, <2>3 DEF Marked
    <3>2. /\ new.kind = "paid" /\ new.paid = TRUE
          /\ new.voided = old.voided /\ new.amount = old.amount
          /\ new.cur = old.cur /\ new.day = old.day /\ new.lines = old.lines
      BY <1>3, <2>3, <3>1 DEF RowFields
    <3>3. new # NoRow
      BY <3>1 DEF NoRowIsNoRecord
    <3> QED
      BY <1>5, <2>1, <2>3, <3>2, <3>3 DEF Becomes, old, new
  <2> QED
    BY <2>2, <2>3
<1>6. CASE e.type \in {"bill.voided", "expense.voided"}
  <2>1. Marked(e.type, old, new) /\ e.type \notin Ups /\ e.type # "bill.paid"
    BY <1>2, <1>6 DEF Upserts, Ups
  <2>2. new = NoRow \/ new.voided = TRUE
    <3>1. CASE old = NoRow
      BY <2>1, <3>1 DEF Marked
    <3>2. CASE old # NoRow
      BY ZenonT(40), <1>3, <2>1, <3>2, MarkSets
    <3> QED
      BY <3>1, <3>2
  <2> QED
    BY <2>1, <2>2 DEF Becomes, old, new
<1> QED
  BY <1>1, <1>4, <1>5, <1>6 DEF DocTypes

\* ... and for a payment.
LEMMA PaymentBecomes ==
  ASSUME NoRowIsNoRecord, NEW t, HasPayments(t), NEW rs, NEW e, Sound(e),
         e.obj \in Payments
  PROVE  Becomes(e, t.payment[e.obj], Handle(t, rs, e).payment[e.obj])
<1> DEFINE new == Handle(t, rs, e).payment[e.obj]
<1>1. e.obj \notin Docs /\ e.type \notin DocTypes /\ e.obj \notin Bills
  BY Kinds DEF Sound, Docs
<1>2. Handle(t, rs, e) = HandlePayment(t, rs, e)
  BY ObjectsAssumption DEF Handle
<1>3. CASE e.type = "bill_payment.deleted"
  <2>1. new = NoRow
    BY <1>2, <1>3 DEF HandlePayment, HasPayments
  <2>2. e.type \notin Ups /\ e.type # "bill.paid"
    BY <1>3 DEF Ups, Upserts
  <2> QED
    BY <2>1, <2>2 DEF Becomes
<1>4. CASE e.type # "bill_payment.deleted"
  <2>1. \E b, w : new = [bill |-> b, amount |-> e.p.amount, base |-> w]
    <3> DEFINE to == IF e.p.bill \in Bills THEN Lookup(t.doc, e.p.bill) ELSE Null
               old == t.payment[e.obj]
               b == IF old = NoRow THEN to ELSE Coalesce(to, old.bill)
               w == ToBase(rs, e.p.amount, e.p.cur, e.p.day)
               row == [bill |-> b, amount |-> e.p.amount, base |-> w]
    <3>1. Handle(t, rs, e) = [t EXCEPT !.payment[e.obj] = row]
      BY <1>2, <1>4 DEF HandlePayment
    <3> HIDE DEF row
    <3>2. new = row
      BY <3>1 DEF HasPayments
    <3> USE DEF row
    <3> HIDE DEF new, b, w
    <3> QED
      BY <3>2
  <2>2. new # NoRow /\ new.amount = e.p.amount
    BY <2>1 DEF NoRowIsNoRecord
  <2>3. e.type \notin Drops /\ e.type # "bill.paid"
    BY <1>1, <1>4 DEF Drops, DocTypes
  <2> HIDE DEF new
  <2>4. ASSUME NEW o, Brings(e.p, e.obj, o) PROVE Mirrors(new, e.obj, o)
    BY <1>1, <2>2, <2>4 DEF Brings, Mirrors
  <2> QED
    BY <1>1, <2>2, <2>3, <2>4 DEF Becomes, new
<1> QED
  BY <1>3, <1>4

-----------------------------------------------------------------------------
(* The rows follow the books *)

Waiting == Range(Flight) \union parked
Row(x) == RowIn(db, x)

DropOps == {"Delete", "Void"}
Noticed(x) == \E n \in Range(notices) : n.obj = x
GoneNoticed(x) == \E n \in Range(notices) : n.obj = x /\ n.op \in DropOps

\* x is still to be fetched, or nothing has made anyone fetch it.
Untold(x) == version[x] = 1 /\ spent.backfills = 0
Pending(x) == Noticed(x) \/ NameOf(x) \in Range(backfill) \/ Untold(x)

\* A message about x as it is now.
IsNow(m, x, types) == m.e.obj = x /\ m.ver = version[x] /\ m.e.type \in types

\* What x is now is on its way or in its row.
Shown(x) ==
  \/ \E m \in Waiting : IsNow(m, x, Ups)
  \/ seen[x] = version[x] /\ Mirrors(Row(x), x, books[x])

\* So is that it is no more.
Dropped(x) ==
  \/ \E m \in Range(Flight) : IsNow(m, x, Drops)
  \/ seen[x] = version[x] /\ (Row(x) = NoRow \/ (x \in Docs /\ Row(x).voided = TRUE))

\* So is the payment of a bill: its event finds the row, or what writes the row
\* comes before it, or waits for a rate and is not overtaken.
UpThenPaid(s, x) ==
  \E u, p \in Range(s) : /\ IsNow(u, x, Ups) /\ IsNow(p, x, {"bill.paid"})
                         /\ Before(s, u, p)
Paid(x) ==
  \/ UpThenPaid(Flight, x)
  \/ /\ \E p \in Range(Flight) : IsNow(p, x, {"bill.paid"})
     /\ Row(x) # NoRow \/ \E q \in parked : IsNow(q, x, Ups)
  \/ Row(x) # NoRow /\ Row(x).paid = TRUE
  \/ seen[x] = version[x] /\ \E q \in parked : IsNow(q, x, Ups)

\* Nothing was read or handled before it was in the books.
Versions ==
  /\ \A x \in Objects : /\ version[x] \in Nat \ {0} /\ seen[x] \in Nat
                        /\ seen[x] <= version[x]
  /\ \A m \in Waiting : /\ m.e.obj \in Objects /\ m.ver \in Nat
                        /\ m.ver <= version[m.e.obj]

\* No message is older than what was handled, or set aside, before it.
Sequenced ==
  /\ Ordered(Flight)
  /\ \A m \in Range(Flight) :
       /\ seen[m.e.obj] <= m.ver
       /\ \A q \in parked : q.e.obj = m.e.obj => q.ver <= m.ver

\* A message of the present version says what is in the books.
Present ==
  \A m \in Waiting :
    m.e.obj \in Traced /\ m.ver = version[m.e.obj] => Tells(m.e, books[m.e.obj])

\* What was never deleted or voided is nowhere said to be.
NeverGone ==
  \A x \in Traced : books[x] # NoObject \/ version[x] = 1 =>
    /\ ~GoneNoticed(x)
    /\ \A m \in Waiting : m.e.obj = x => m.e.type \notin Drops
    /\ x \in Docs /\ Row(x) # NoRow => Row(x).voided = FALSE

\* What was never there is not mentioned.
NeverThere ==
  \A x \in Traced : books[x] = NoObject /\ version[x] = 1 =>
    /\ ~Noticed(x)
    /\ \A m \in Waiting : m.e.obj # x
    /\ Row(x) = NoRow

Arriving ==
  \A x \in Traced :
    /\ books[x] # NoObject => Pending(x) \/ Shown(x)
    /\ books[x] = NoObject => version[x] = 1 \/ GoneNoticed(x) \/ Dropped(x)
    /\ x \in Bills /\ books[x] # NoObject /\ books[x].balance <= 0 => Pending(x) \/ Paid(x)

Following == Versions /\ Sequenced /\ Present /\ NeverGone /\ NeverThere /\ Arriving

\* A step that touches nothing of this keeps it.
LEMMA FollowStill ==
  ASSUME Following, Flight' = Flight, spent'.backfills = spent.backfills,
         UNCHANGED <<books, version, notices, backfill, parked, db, seen>>
  PROVE  Following'
<1>1. \A x : Row(x)' = Row(x)
  BY DEF Row, RowIn
<1>2. \A x : /\ Noticed(x)' <=> Noticed(x)
             /\ GoneNoticed(x)' <=> GoneNoticed(x)
             /\ Pending(x)' <=> Pending(x)
  BY DEF Noticed, GoneNoticed, Pending, Untold, NameOf
<1>3. Waiting' = Waiting /\ \A m, x, ts : IsNow(m, x, ts)' <=> IsNow(m, x, ts)
  BY DEF Waiting, IsNow
<1>4. \A x : Shown(x)' <=> Shown(x)
  BY <1>1, <1>3 DEF Shown
<1>5. \A x : Dropped(x)' <=> Dropped(x)
  BY <1>1, <1>3 DEF Dropped
<1>6. \A x : Paid(x)' <=> Paid(x)
  BY <1>1, <1>3 DEF Paid, UpThenPaid
<1>7. Versions'
  BY <1>3 DEF Versions, Following
<1>8. Sequenced'
  BY DEF Sequenced, Following, Ordered
<1>9. Present'
  BY <1>3 DEF Present, Following
<1>10. NeverGone' /\ NeverThere'
  BY <1>1, <1>2, <1>3 DEF NeverGone, NeverThere, Following
<1>11. Arriving'
  BY <1>2, <1>4, <1>5, <1>6 DEF Arriving, Following
<1> QED
  BY <1>7, <1>8, <1>9, <1>10, <1>11 DEF Following

\* xs announce what a change of the books changes, what is deleted or voided as such.
Turn(xs) ==
  /\ Range(notices') = Range(notices) \union Range(xs)
  /\ \A x \in Objects :
       IF \E n \in Range(xs) : n.obj = x THEN version'[x] = version[x] + 1
       ELSE version'[x] = version[x] /\ books'[x] = books[x]
  /\ \A n \in Range(xs) : n.obj \in Traced =>
       /\ books[n.obj] # NoObject \/ version[n.obj] = 1
       /\ n.op \in DropOps <=> books'[n.obj] = NoObject
  /\ Flight' = Flight /\ spent'.backfills = spent.backfills
  /\ UNCHANGED <<backfill, parked, db, seen>>

\* Whatever changed is announced, and all that was read of it before is old.
LEMMA FollowBooks ==
  ASSUME Following, NEW xs, Turn(xs)
  PROVE  Following'
<1> DEFINE Changed(x) == \E n \in Range(xs) : n.obj = x
<1>1. /\ Range(notices') = Range(notices) \union Range(xs)
      /\ Flight' = Flight /\ spent'.backfills = spent.backfills
      /\ backfill' = backfill /\ parked' = parked /\ db' = db /\ seen' = seen
      /\ Waiting' = Waiting /\ \A x : Row(x)' = Row(x)
  BY DEF Turn, Waiting, Row, RowIn
<1>2. \A x \in Objects :
        /\ Changed(x) => version'[x] = version[x] + 1
        /\ ~Changed(x) => version'[x] = version[x] /\ books'[x] = books[x]
  BY DEF Turn
<1>3. \A n \in Range(xs) : n.obj \in Traced =>
        /\ books[n.obj] # NoObject \/ version[n.obj] = 1
        /\ n.op \in DropOps <=> books'[n.obj] = NoObject
  BY DEF Turn
<1>4. /\ \A x \in Objects : /\ version[x] \in Nat \ {0} /\ seen[x] \in Nat
                            /\ seen[x] <= version[x]
      /\ \A m \in Waiting : /\ m.e.obj \in Objects /\ m.ver \in Nat
                            /\ m.ver <= version[m.e.obj]
  BY DEF Following, Versions
<1>5. \A x \in Objects : version'[x] \in Nat \ {0} /\ version[x] <= version'[x]
  BY <1>2, <1>4
<1>6. Traced \subseteq Objects
  BY Kinds DEF Traced
<1>7. \A x : /\ Noticed(x)' <=> Noticed(x) \/ Changed(x)
             /\ GoneNoticed(x)' <=> \/ GoneNoticed(x)
                                    \/ \E n \in Range(xs) : n.obj = x /\ n.op \in DropOps
  BY <1>1 DEF Noticed, GoneNoticed
<1> HIDE DEF Changed
<1>8. Versions'
  BY <1>1, <1>4, <1>5 DEF Versions
<1>9. Sequenced'
  BY <1>1 DEF Sequenced, Following, Ordered
<1>10. \A m \in Waiting : m.ver = version'[m.e.obj] => ~Changed(m.e.obj)
  BY <1>2, <1>4
<1>11. Present'
  <2>1. ASSUME NEW m \in Waiting, m.e.obj \in Traced, m.ver = version'[m.e.obj]
        PROVE  Tells(m.e, books'[m.e.obj])
    <3>1. version'[m.e.obj] = version[m.e.obj] /\ books'[m.e.obj] = books[m.e.obj]
      BY <1>2, <1>4, <1>10, <2>1
    <3> QED
      BY <2>1, <3>1 DEF Present, Following
  <2> QED
    BY <1>1, <2>1 DEF Present
<1>12. \A x \in Traced : Changed(x) =>
         /\ books[x] # NoObject \/ version[x] = 1
         /\ version'[x] # 1
         /\ books'[x] = NoObject <=> \E n \in Range(xs) : n.obj = x /\ n.op \in DropOps
  BY <1>2, <1>3, <1>4, <1>6 DEF Changed
<1>13. NeverGone'
  <2>1. ASSUME NEW x \in Traced, books'[x] # NoObject \/ version'[x] = 1
        PROVE  /\ ~GoneNoticed(x)'
               /\ \A m \in Waiting : m.e.obj = x => m.e.type \notin Drops
               /\ x \in Docs /\ Row(x) # NoRow => Row(x).voided = FALSE
    <3>1. books[x] # NoObject \/ version[x] = 1
      BY <1>2, <1>6, <1>12, <2>1
    <3>2. ~\E n \in Range(xs) : n.obj = x /\ n.op \in DropOps
      <4>1. CASE Changed(x)
        BY <1>12, <2>1, <4>1
      <4>2. CASE ~Changed(x)
        BY <4>2 DEF Changed
      <4> QED
        BY <4>1, <4>2
    <3> QED
      BY <1>7, <3>1, <3>2 DEF NeverGone, Following
  <2> QED
    BY <1>1, <2>1 DEF NeverGone
<1>14. NeverThere'
  <2>1. ASSUME NEW x \in Traced, books'[x] = NoObject, version'[x] = 1
        PROVE  ~Noticed(x)' /\ (\A m \in Waiting : m.e.obj # x) /\ Row(x) = NoRow
    <3>1. ~Changed(x)
      BY <1>12, <2>1
    <3>2. books[x] = NoObject /\ version[x] = 1
      BY <1>2, <1>6, <2>1, <3>1
    <3> QED
      BY <1>7, <3>1, <3>2 DEF NeverThere, Following
  <2> QED
    BY <1>1, <2>1 DEF NeverThere
<1>15. Arriving'
  <2>1. ASSUME NEW x \in Traced, Changed(x)
        PROVE  /\ Pending(x)'
               /\ books'[x] = NoObject => GoneNoticed(x)'
    BY <1>7, <1>12, <2>1 DEF Pending
  <2>2. ASSUME NEW x \in Traced, ~Changed(x)
        PROVE  /\ books'[x] = books[x] /\ version'[x] = version[x]
               /\ Pending(x) => Pending(x)'
               /\ GoneNoticed(x) => GoneNoticed(x)'
               /\ Shown(x)' <=> Shown(x)
               /\ Dropped(x)' <=> Dropped(x)
               /\ Paid(x)' <=> Paid(x)
    <3>1. books'[x] = books[x] /\ version'[x] = version[x]
      BY <1>2, <1>6, <2>2
    <3>2. \A m, ts : IsNow(m, x, ts)' <=> IsNow(m, x, ts)
      BY <3>1 DEF IsNow
    <3>3. Pending(x) => Pending(x)'
      BY <1>1, <1>7, <3>1 DEF Pending, Untold, NameOf
    <3>4. GoneNoticed(x) => GoneNoticed(x)'
      BY <1>7
    <3>5. Shown(x)' <=> Shown(x)
      BY <1>1, <3>1, <3>2 DEF Shown
    <3>6. Dropped(x)' <=> Dropped(x)
      BY <1>1, <3>1, <3>2 DEF Dropped
    <3>7. Paid(x)' <=> Paid(x)
      BY <1>1, <3>1, <3>2 DEF Paid, UpThenPaid
    <3> QED
      BY <3>1, <3>3, <3>4, <3>5, <3>6, <3>7
  <2>3. Arriving
    BY DEF Following
  <2>4. ASSUME NEW x \in Traced
        PROVE  /\ books'[x] # NoObject => Pending(x)' \/ Shown(x)'
               /\ books'[x] = NoObject => version'[x] = 1 \/ GoneNoticed(x)' \/ Dropped(x)'
               /\ x \in Bills /\ books'[x] # NoObject /\ books'[x].balance <= 0 =>
                    Pending(x)' \/ Paid(x)'
    <3>1. CASE Changed(x)
      BY <2>1, <3>1
    <3>2. CASE ~Changed(x)
      BY <2>2, <2>3, <3>2 DEF Arriving
    <3> QED
      BY <3>1, <3>2
  <2> QED
    BY <2>4 DEF Arriving
<1> QED
  BY <1>8, <1>9, <1>11, <1>13, <1>14, <1>15 DEF Following

\* s has what x is now, and the payment of a bill after that.
Brought(s, x) ==
  \E u \in Range(s) :
    /\ u.e.obj = x /\ u.e.type \in Ups
    /\ x \in Bills /\ books[x].balance <= 0 =>
         \E p \in Range(s) : /\ p.e.obj = x /\ p.e.type = "bill.paid"
                             /\ Before(s, u, p)

\* s is read: notices it answers are gone, and what they announce is in s.
Reading(s) ==
  /\ Batch(s) /\ Batch(Flight) /\ Flight' = Flight \o s
  /\ \A m \in Range(s) :
       /\ m.ver = version[m.e.obj]
       /\ m.e.obj \in Traced =>
            /\ Tells(m.e, books[m.e.obj])
            /\ books[m.e.obj] # NoObject \/ version[m.e.obj] # 1
  /\ Range(notices') \subseteq Range(notices)
  /\ \A x \in Traced :
       /\ books[x] # NoObject /\ Pending(x) => Pending(x)' \/ Brought(s, x)
       /\ GoneNoticed(x) => \/ GoneNoticed(x)'
                            \/ \E m \in Range(s) : m.e.obj = x /\ m.e.type \in Drops
  /\ spent'.backfills = spent.backfills
  /\ UNCHANGED <<books, version, parked, db, seen>>

\* What is read is the newest, and true of the books.
LEMMA FollowReading ==
  ASSUME Following, NEW s, Reading(s)
  PROVE  Following'
<1>1. /\ Flight' = Flight \o s /\ spent'.backfills = spent.backfills
      /\ books' = books /\ version' = version
      /\ parked' = parked /\ db' = db /\ seen' = seen
      /\ \A x : Row(x)' = Row(x)
  BY DEF Reading, Row, RowIn
<1>2. /\ IsStream(s) /\ IsStream(Flight)
      /\ \A m \in Range(s) : m.e.obj \in Objects
  BY DEF Reading, Batch, Sound
<1>3. Range(Flight') = Range(Flight) \union Range(s)
  BY <1>1, <1>2, Joined
<1>4. Waiting' = Waiting \union Range(s)
  BY <1>1, <1>3 DEF Waiting
<1>5. \A m \in Range(s) :
        /\ m.ver = version[m.e.obj]
        /\ m.e.obj \in Traced => /\ Tells(m.e, books[m.e.obj])
                                 /\ books[m.e.obj] # NoObject \/ version[m.e.obj] # 1
  BY DEF Reading
<1>6. /\ \A x \in Objects : /\ version[x] \in Nat \ {0} /\ seen[x] \in Nat
                            /\ seen[x] <= version[x]
      /\ \A m \in Waiting : /\ m.e.obj \in Objects /\ m.ver \in Nat
                            /\ m.ver <= version[m.e.obj]
  BY DEF Following, Versions
<1>7. Range(notices') \subseteq Range(notices)
  BY DEF Reading
<1>8. Versions'
  BY <1>1, <1>2, <1>4, <1>5, <1>6 DEF Versions
<1>9. Sequenced'
  <2>1. Ordered(s)
    BY <1>2, <1>5, <1>6 DEF Ordered
  <2>2. \A a \in Range(Flight), b \in Range(s) : a.e.obj = b.e.obj => a.ver <= b.ver
    BY <1>5, <1>6 DEF Waiting
  <2>3. Ordered(Flight')
    BY <1>1, <1>2, <2>1, <2>2, OrderedJoined DEF Following, Sequenced
  <2>4. ASSUME NEW m \in Range(Flight')
        PROVE  /\ seen[m.e.obj] <= m.ver
               /\ \A q \in parked : q.e.obj = m.e.obj => q.ver <= m.ver
    <3>1. CASE m \in Range(Flight)
      BY <3>1 DEF Following, Sequenced
    <3>2. CASE m \in Range(s)
      BY <1>2, <1>5, <1>6, <3>2 DEF Waiting
    <3> QED
      BY <1>3, <3>1, <3>2
  <2> QED
    BY <1>1, <2>3, <2>4 DEF Sequenced
<1>10. Present'
  BY <1>1, <1>4, <1>5 DEF Present, Following
<1>11. \A x : /\ Noticed(x)' => Noticed(x)
              /\ GoneNoticed(x)' => GoneNoticed(x)
  BY <1>7 DEF Noticed, GoneNoticed
<1>12. NeverGone'
  <2>1. ASSUME NEW x \in Traced, books[x] # NoObject \/ version[x] = 1,
               NEW m \in Range(s), m.e.obj = x
        PROVE  m.e.type \notin Drops
    <3>1. Tells(m.e, books[x]) /\ books[x] # NoObject
      BY <1>5, <2>1
    <3> QED
      BY <3>1 DEF Tells, Ups, Drops, Upserts
  <2>2. NeverGone
    BY DEF Following
  <2> QED
    BY <1>1, <1>4, <1>11, <2>1, <2>2 DEF NeverGone
<1>13. NeverThere'
  <2>1. NeverThere
    BY DEF Following
  <2> QED
    BY <1>1, <1>4, <1>5, <1>11, <2>1 DEF NeverThere
<1>14. \A m, x, ts : IsNow(m, x, ts)' <=> IsNow(m, x, ts)
  BY <1>1 DEF IsNow
<1>15. \A x : Shown(x) => Shown(x)'
  BY <1>1, <1>4, <1>14 DEF Shown
<1>16. \A x : Dropped(x) => Dropped(x)'
  BY <1>1, <1>3, <1>14 DEF Dropped
<1>17. \A a, b : /\ Before(Flight, a, b) => Before(Flight', a, b)
                 /\ Before(s, a, b) => Before(Flight', a, b)
  BY <1>1, <1>2, JoinedBefore
<1>18. \A x : Paid(x) => Paid(x)'
  BY <1>1, <1>3, <1>14, <1>17 DEF Paid, UpThenPaid
<1>19. ASSUME NEW x \in Traced, books[x] # NoObject, Pending(x), ~Pending(x)'
       PROVE  /\ Shown(x)'
              /\ x \in Bills /\ books[x].balance <= 0 => Paid(x)'
  <2>1. PICK u \in Range(s) :
          /\ u.e.obj = x /\ u.e.type \in Ups
          /\ x \in Bills /\ books[x].balance <= 0 =>
               \E p \in Range(s) : /\ p.e.obj = x /\ p.e.type = "bill.paid"
                                   /\ Before(s, u, p)
    BY <1>19 DEF Reading, Brought
  <2>2. IsNow(u, x, Ups)'
    BY <1>1, <1>5, <2>1 DEF IsNow
  <2>3. Shown(x)'
    BY <1>4, <2>1, <2>2 DEF Shown
  <2>4. ASSUME x \in Bills, books[x].balance <= 0
        PROVE  Paid(x)'
    <3>1. PICK p \in Range(s) : /\ p.e.obj = x /\ p.e.type = "bill.paid"
                                /\ Before(s, u, p)
      BY <2>1, <2>4
    <3>2. IsNow(p, x, {"bill.paid"})'
      BY <1>1, <1>5, <3>1 DEF IsNow
    <3>3. Before(Flight', u, p) /\ u \in Range(Flight') /\ p \in Range(Flight')
      BY <1>3, <1>17, <3>1
    <3> QED
      BY <2>2, <3>2, <3>3 DEF Paid, UpThenPaid
  <2> QED
    BY <2>3, <2>4
<1>20. ASSUME NEW x \in Traced, GoneNoticed(x), ~GoneNoticed(x)'
       PROVE  Dropped(x)'
  <2>1. PICK m \in Range(s) : m.e.obj = x /\ m.e.type \in Drops
    BY <1>20 DEF Reading
  <2>2. IsNow(m, x, Drops)'
    BY <1>1, <1>5, <2>1 DEF IsNow
  <2> QED
    BY <1>3, <2>1, <2>2 DEF Dropped
<1>21. Arriving'
  <2>1. Arriving
    BY DEF Following
  <2>2. ASSUME NEW x \in Traced
        PROVE  /\ books[x] # NoObject => Pending(x)' \/ Shown(x)'
               /\ books[x] = NoObject => version[x] = 1 \/ GoneNoticed(x)' \/ Dropped(x)'
               /\ x \in Bills /\ books[x] # NoObject /\ books[x].balance <= 0 =>
                    Pending(x)' \/ Paid(x)'
    <3>1. books[x] # NoObject => Pending(x)' \/ Shown(x)'
      BY <1>15, <1>19, <2>1 DEF Arriving
    <3>2. books[x] = NoObject => version[x] = 1 \/ GoneNoticed(x)' \/ Dropped(x)'
      BY <1>16, <1>20, <2>1 DEF Arriving
    <3>3. x \in Bills /\ books[x] # NoObject /\ books[x].balance <= 0 =>
            Pending(x)' \/ Paid(x)'
      BY <1>18, <1>19, <2>1 DEF Arriving
    <3> QED
      BY <3>1, <3>2, <3>3
  <2> QED
    BY <1>1, <2>2 DEF Arriving
<1> QED
  BY <1>8, <1>9, <1>10, <1>12, <1>13, <1>21 DEF Following

\* A backfill fetches everything.
LEMMA FollowBackfill ==
  ASSUME Following, NEW names, Range(backfill') = names,
         \A x \in Traced : NameOf(x) \in names,
         UNCHANGED <<books, version, notices, parked, db, seen>>, Flight' = Flight
  PROVE  Following'
<1>1. /\ \A x : Row(x)' = Row(x)
      /\ Waiting' = Waiting
      /\ \A x : Noticed(x)' <=> Noticed(x)
      /\ \A x : GoneNoticed(x)' <=> GoneNoticed(x)
      /\ \A m, x, ts : IsNow(m, x, ts)' <=> IsNow(m, x, ts)
  BY DEF Row, RowIn, Waiting, Noticed, GoneNoticed, IsNow
<1>2. \A x \in Traced : Pending(x)'
  BY DEF Pending, NameOf
<1>3. \A x : Dropped(x)' <=> Dropped(x)
  BY <1>1 DEF Dropped
<1>4. Versions' /\ Sequenced' /\ Present'
  <2>1. Versions'
    BY <1>1 DEF Versions, Following
  <2>2. Sequenced'
    BY DEF Sequenced, Following, Ordered
  <2>3. Present'
    BY <1>1 DEF Present, Following
  <2> QED
    BY <2>1, <2>2, <2>3
<1>5. NeverGone' /\ NeverThere'
  BY <1>1 DEF NeverGone, NeverThere, Following
<1>6. Arriving'
  BY <1>1, <1>2, <1>3 DEF Arriving, Following
<1> QED
  BY <1>4, <1>5, <1>6 DEF Following

\* The first message is set aside for want of a rate.
Parking(m) ==
  /\ IsStream(Flight') /\ Flight = <<m>> \o Flight'
  /\ parked' = parked \union {m}
  /\ m.e.type \notin Drops \union {"bill.paid"}
  /\ spent'.backfills = spent.backfills
  /\ UNCHANGED <<books, version, notices, backfill, db, seen>>

\* It still waits; those behind it are no older.
LEMMA FollowParking ==
  ASSUME Following, NEW m, Parking(m)
  PROVE  Following'
<1>1. /\ Flight = <<m>> \o Flight' /\ IsStream(Flight')
      /\ parked' = parked \union {m} /\ spent'.backfills = spent.backfills
      /\ books' = books /\ version' = version /\ notices' = notices
      /\ backfill' = backfill /\ db' = db /\ seen' = seen
      /\ \A x : Row(x)' = Row(x)
  BY DEF Parking, Row, RowIn
<1>2. Range(Flight) = {m} \union Range(Flight')
  BY <1>1, OneEvent, Joined
<1>3. Waiting' = Waiting
  BY <1>1, <1>2 DEF Waiting
<1>4. \A u, p : Before(Flight, u, p) => Before(Flight', u, p) \/ (u = m /\ p \in Range(Flight'))
  BY <1>1, OneEvent, OneBefore, JoinedBefore
<1>5. /\ \A x : Noticed(x)' <=> Noticed(x)
      /\ \A x : GoneNoticed(x)' <=> GoneNoticed(x)
      /\ \A x : Pending(x)' <=> Pending(x)
      /\ \A n, x, ts : IsNow(n, x, ts)' <=> IsNow(n, x, ts)
  BY <1>1 DEF Noticed, GoneNoticed, Pending, Untold, NameOf, IsNow
<1>6. Versions'
  BY <1>1, <1>3 DEF Versions, Following
<1>7. Sequenced'
  <2>1. Ordered(Flight') /\ \A b \in Range(Flight') : m.e.obj = b.e.obj => m.ver <= b.ver
    BY <1>1, OrderedNext DEF Following, Sequenced
  <2>2. \A b \in Range(Flight') :
          /\ seen[b.e.obj] <= b.ver
          /\ \A q \in parked : q.e.obj = b.e.obj => q.ver <= b.ver
    BY <1>2 DEF Following, Sequenced
  <2> QED
    BY <1>1, <2>1, <2>2 DEF Sequenced
<1>8. Present'
  BY <1>1, <1>3 DEF Present, Following
<1>9. NeverGone' /\ NeverThere'
  BY <1>1, <1>3, <1>5 DEF NeverGone, NeverThere, Following
<1>10. \A x : Shown(x)' <=> Shown(x)
  BY <1>1, <1>3, <1>5 DEF Shown
<1>11. m.e.type \notin Drops /\ m.e.type # "bill.paid"
  BY DEF Parking
<1>12. \A x : Dropped(x) => Dropped(x)'
  BY <1>1, <1>2, <1>5, <1>11 DEF Dropped, IsNow
<1>13. ASSUME NEW x, Paid(x) PROVE Paid(x)'
  <2>1. CASE UpThenPaid(Flight, x)
    <3>1. PICK u \in Range(Flight), p \in Range(Flight) :
            IsNow(u, x, Ups) /\ IsNow(p, x, {"bill.paid"}) /\ Before(Flight, u, p)
      BY <2>1 DEF UpThenPaid
    <3>2. CASE Before(Flight', u, p)
      <4>1. u \in Range(Flight') /\ p \in Range(Flight')
        BY <3>2, BeforeIn
      <4> QED
        BY <1>5, <3>1, <3>2, <4>1 DEF Paid, UpThenPaid
    <3>3. CASE u = m /\ p \in Range(Flight')
      BY <1>1, <1>5, <3>1, <3>3 DEF Paid
    <3> QED
      BY <1>4, <3>1, <3>2, <3>3
  <2>2. CASE /\ \E p \in Range(Flight) : IsNow(p, x, {"bill.paid"})
             /\ Row(x) # NoRow \/ \E q \in parked : IsNow(q, x, Ups)
    <3>1. \E p \in Range(Flight') : IsNow(p, x, {"bill.paid"})'
      <4>1. PICK p \in Range(Flight) : IsNow(p, x, {"bill.paid"})
        BY <2>2
      <4>2. p # m
        BY <1>11, <4>1 DEF IsNow
      <4> QED
        BY <1>2, <1>5, <4>1, <4>2
    <3> QED
      BY <1>1, <1>5, <2>2, <3>1 DEF Paid
  <2>3. CASE Row(x) # NoRow /\ Row(x).paid = TRUE
    BY <1>1, <2>3 DEF Paid
  <2>4. CASE seen[x] = version[x] /\ \E q \in parked : IsNow(q, x, Ups)
    BY <1>1, <1>5, <2>4 DEF Paid
  <2> QED
    BY <1>13, <2>1, <2>2, <2>3, <2>4 DEF Paid
<1>14. Arriving'
  BY <1>1, <1>5, <1>10, <1>12, <1>13 DEF Arriving, Following
<1> QED
  BY <1>6, <1>7, <1>8, <1>9, <1>14 DEF Following

\* A message is handled: the first, or one set aside that is newer than what was
\* handled of its object.
Taken(m) ==
  \/ IsStream(Flight') /\ Flight = <<m>> \o Flight' /\ parked' = parked
  \/ Flight' = Flight /\ m \in parked /\ parked' = parked \ {m} /\ seen[m.e.obj] < m.ver
Storing(m) ==
  /\ Taken(m)
  /\ m.e.obj \in Objects
  /\ m.e.obj \in Docs => m.e.type \in Ups \union {"bill.paid"} \union Drops
  /\ \A x \in Objects : seen'[x] = IF x = m.e.obj THEN m.ver ELSE seen[x]
  /\ \A x \in Traced : x # m.e.obj => Row(x)' = Row(x)
  /\ m.e.obj \in Traced => Becomes(m.e, Row(m.e.obj), Row(m.e.obj)')
  /\ spent'.backfills = spent.backfills
  /\ UNCHANGED <<books, version, notices, backfill>>

\* What is left of the messages.
LEMMA TakenLeaves ==
  ASSUME NEW m, Taken(m)
  PROVE  /\ m \in Waiting
         /\ Waiting \subseteq Waiting' \union {m} /\ Waiting' \subseteq Waiting
         /\ Range(Flight) \subseteq Range(Flight') \union {m}
         /\ Range(Flight') \subseteq Range(Flight)
         /\ parked' \subseteq parked /\ parked \subseteq parked' \union {m}
         /\ \A u, p : Before(Flight, u, p) =>
              \/ Before(Flight', u, p)
              \/ u = m /\ p \in Range(Flight') /\ parked' = parked
<1>1. CASE IsStream(Flight') /\ Flight = <<m>> \o Flight' /\ parked' = parked
  <2>1. Range(Flight) = {m} \union Range(Flight')
    BY <1>1, OneEvent, Joined
  <2>2. \A u, p : Before(Flight, u, p) => Before(Flight', u, p) \/ (u = m /\ p \in Range(Flight'))
    BY <1>1, OneEvent, OneBefore, JoinedBefore
  <2> QED
    BY <1>1, <2>1, <2>2 DEF Waiting
<1>2. CASE Flight' = Flight /\ m \in parked /\ parked' = parked \ {m}
  BY <1>2 DEF Waiting
<1> QED
  BY <1>1, <1>2 DEF Taken

\* Versions and order.
LEMMA StoringInOrder ==
  ASSUME Following, NEW m, Storing(m)
  PROVE  Versions' /\ Sequenced'
<1>1. /\ \A x \in Objects : /\ version[x] \in Nat \ {0} /\ seen[x] \in Nat
                            /\ seen[x] <= version[x]
      /\ \A n \in Waiting : /\ n.e.obj \in Objects /\ n.ver \in Nat
                            /\ n.ver <= version[n.e.obj]
  BY DEF Following, Versions
<1>2. m \in Waiting /\ Waiting' \subseteq Waiting /\ parked' \subseteq parked
      /\ Range(Flight') \subseteq Range(Flight)
  BY TakenLeaves DEF Storing
<1>3. version' = version
      /\ \A x \in Objects : seen'[x] = IF x = m.e.obj THEN m.ver ELSE seen[x]
  BY DEF Storing
<1>4. Versions'
  BY <1>1, <1>2, <1>3 DEF Versions
<1>5. Ordered(Flight') /\ \A b \in Range(Flight') : m.e.obj = b.e.obj => m.ver <= b.ver
  <2>1. CASE IsStream(Flight') /\ Flight = <<m>> \o Flight'
    BY <2>1, OrderedNext DEF Following, Sequenced
  <2>2. CASE Flight' = Flight /\ m \in parked
    BY <2>2 DEF Following, Sequenced
  <2> QED
    BY <2>1, <2>2 DEF Storing, Taken
<1>6. \A b \in Range(Flight') :
        /\ seen[b.e.obj] <= b.ver
        /\ \A q \in parked : q.e.obj = b.e.obj => q.ver <= b.ver
  BY <1>2 DEF Following, Sequenced
<1>7. \A b \in Range(Flight') : b.e.obj \in Objects
  BY <1>1, <1>2 DEF Waiting
<1>8. \A b \in Range(Flight') : seen'[b.e.obj] <= b.ver
  BY <1>3, <1>5, <1>6, <1>7
<1> QED
  BY <1>2, <1>4, <1>5, <1>6, <1>8 DEF Sequenced

\* If the row of its object has been brought up to date, the message is as new, and
\* none set aside is.
LEMMA StoringNewest ==
  ASSUME Following, NEW m, Storing(m), m.e.obj \in Traced,
         seen[m.e.obj] = version[m.e.obj]
  PROVE  m.ver = version[m.e.obj] /\ m \in Range(Flight) /\ parked' = parked
<1>1. m \in Waiting
  BY TakenLeaves DEF Storing
<1>2. m.ver \in Nat /\ m.ver <= version[m.e.obj] /\ version[m.e.obj] \in Nat
  BY <1>1 DEF Following, Versions
<1>3. ~(seen[m.e.obj] < m.ver)
  BY <1>2
<1>4. IsStream(Flight') /\ Flight = <<m>> \o Flight' /\ parked' = parked
  BY <1>3 DEF Storing, Taken
<1>5. m \in Range(Flight)
  BY <1>4, OneEvent, Joined
<1>6. seen[m.e.obj] <= m.ver
  BY <1>5 DEF Following, Sequenced
<1> QED
  BY <1>2, <1>4, <1>5, <1>6

\* An object that is there, or never was, keeps its row unvoided.
LEMMA StoringIsTrue ==
  ASSUME Following, NEW m, Storing(m)
  PROVE  Present' /\ NeverGone' /\ NeverThere'
<1>1. /\ m \in Waiting /\ Waiting' \subseteq Waiting
      /\ books' = books /\ version' = version /\ notices' = notices
      /\ \A x \in Traced : x # m.e.obj => Row(x)' = Row(x)
      /\ m.e.obj \in Traced => Becomes(m.e, Row(m.e.obj), Row(m.e.obj)')
  BY TakenLeaves DEF Storing
<1>2. \A x : /\ Noticed(x)' <=> Noticed(x)
             /\ GoneNoticed(x)' <=> GoneNoticed(x)
  BY <1>1 DEF Noticed, GoneNoticed
<1>3. Present'
  BY <1>1 DEF Present, Following
<1>4. NeverThere'
  <2>1. ASSUME NEW x \in Traced, books[x] = NoObject, version[x] = 1
        PROVE  ~Noticed(x) /\ (\A n \in Waiting : n.e.obj # x) /\ Row(x)' = NoRow
    <3>1. /\ ~Noticed(x) /\ (\A n \in Waiting : n.e.obj # x) /\ Row(x) = NoRow
      BY <2>1 DEF NeverThere, Following
    <3> QED
      BY <1>1, <3>1
  <2> QED
    BY <1>1, <1>2, <2>1 DEF NeverThere
<1>5. ASSUME NEW x \in Docs, x = m.e.obj, m.e.type \in Ups \union {"bill.paid"},
             Row(x) # NoRow => Row(x).voided = FALSE, Row(x)' # NoRow
      PROVE  Row(x)'.voided = FALSE
  <2>1. Becomes(m.e, Row(x), Row(x)')
    BY <1>1, <1>5 DEF Traced
  <2>2. CASE m.e.type \in Ups
    BY <1>5, <2>1, <2>2 DEF Becomes
  <2>3. CASE m.e.type = "bill.paid"
    BY <1>5, <2>1, <2>3 DEF Becomes
  <2> QED
    BY <1>5, <2>2, <2>3
<1>6. m.e.obj \in Docs => m.e.type \in Ups \union {"bill.paid"} \union Drops
  BY DEF Storing
<1>7. NeverGone'
  <2>1. ASSUME NEW x \in Traced, books[x] # NoObject \/ version[x] = 1
        PROVE  /\ ~GoneNoticed(x)
               /\ \A n \in Waiting : n.e.obj = x => n.e.type \notin Drops
               /\ x \in Docs /\ Row(x)' # NoRow => Row(x)'.voided = FALSE
    <3>1. /\ ~GoneNoticed(x)
          /\ \A n \in Waiting : n.e.obj = x => n.e.type \notin Drops
          /\ x \in Docs /\ Row(x) # NoRow => Row(x).voided = FALSE
      BY <2>1 DEF NeverGone, Following
    <3>2. CASE x = m.e.obj
      BY <1>1, <1>5, <1>6, <3>1, <3>2
    <3>3. CASE x # m.e.obj
      BY <1>1, <3>1, <3>3
    <3> QED
      BY <3>1, <3>2, <3>3
  <2> QED
    BY <1>1, <1>2, <2>1 DEF NeverGone
<1> QED
  BY <1>3, <1>4, <1>7

\* Other objects are not concerned.
LEMMA StoringElsewhere ==
  ASSUME Following, NEW m, Storing(m), NEW x \in Traced, x # m.e.obj
  PROVE  /\ Shown(x) => Shown(x)'
         /\ Dropped(x) => Dropped(x)'
         /\ Paid(x) => Paid(x)'
<1>1. /\ Waiting \subseteq Waiting' \union {m}
      /\ Range(Flight) \subseteq Range(Flight') \union {m}
      /\ parked \subseteq parked' \union {m}
      /\ \A u, p : Before(Flight, u, p) => \/ Before(Flight', u, p)
                                           \/ u = m /\ p \in Range(Flight')
  BY TakenLeaves DEF Storing
<1>2. /\ books' = books /\ version' = version /\ Row(x)' = Row(x) /\ seen'[x] = seen[x]
  BY Kinds DEF Storing, Traced
<1>3. \A n, ts : IsNow(n, x, ts) => n # m
  BY DEF IsNow
<1>4. \A n, ts : IsNow(n, x, ts)' <=> IsNow(n, x, ts)
  BY <1>2 DEF IsNow
<1>5. Shown(x) => Shown(x)'
  BY <1>1, <1>2, <1>3, <1>4 DEF Shown
<1>6. Dropped(x) => Dropped(x)'
  BY <1>1, <1>2, <1>3, <1>4 DEF Dropped
<1>7. ASSUME UpThenPaid(Flight, x)
      PROVE  UpThenPaid(Flight, x)'
  <2>1. PICK u \in Range(Flight), p \in Range(Flight) :
          IsNow(u, x, Ups) /\ IsNow(p, x, {"bill.paid"}) /\ Before(Flight, u, p)
    BY <1>7 DEF UpThenPaid
  <2>2. Before(Flight', u, p) /\ u \in Range(Flight') /\ p \in Range(Flight')
    BY <1>1, <1>3, <2>1
  <2> QED
    BY <1>4, <2>1, <2>2 DEF UpThenPaid
<1>8. \A ts : (\E p \in Range(Flight) : IsNow(p, x, ts)) =>
              (\E p \in Range(Flight') : IsNow(p, x, ts)')
  BY <1>1, <1>3, <1>4
<1>9. \A ts : (\E q \in parked : IsNow(q, x, ts)) => (\E q \in parked' : IsNow(q, x, ts)')
  BY <1>1, <1>3, <1>4
<1>10. Paid(x) => Paid(x)'
  BY <1>2, <1>7, <1>8, <1>9 DEF Paid
<1> QED
  BY <1>5, <1>6, <1>10

\* The row of the object itself says what the newest message said ...
LEMMA StoringHere ==
  ASSUME Following, NEW m, Storing(m), NEW x \in Traced, x = m.e.obj
  PROVE  /\ books[x] # NoObject /\ Shown(x) => Shown(x)'
         /\ books[x] = NoObject /\ Dropped(x) => Dropped(x)'
<1>1. /\ m \in Waiting
      /\ Waiting \subseteq Waiting' \union {m}
      /\ Range(Flight) \subseteq Range(Flight') \union {m}
  BY TakenLeaves DEF Storing
<1>2. /\ books' = books /\ version' = version /\ seen'[x] = m.ver
      /\ Becomes(m.e, Row(x), Row(x)')
  BY Kinds DEF Storing, Traced
<1>3. \A n, ts : IsNow(n, x, ts)' <=> IsNow(n, x, ts)
  BY <1>2 DEF IsNow
<1>4. m.ver = version[x] => Tells(m.e, books[x])
  BY <1>1 DEF Present, Following
<1>5. seen[x] = version[x] => m.ver = version[x]
  BY StoringNewest
<1>6. ASSUME books[x] # NoObject, Shown(x) PROVE Shown(x)'
  <2>1. CASE m.ver = version[x] /\ m.e.type \in Ups
    <3>1. Brings(m.e.p, x, books[x])
      BY <1>4, <1>6, <2>1 DEF Tells, Ups, Upserts
    <3>2. Mirrors(Row(x)', x, books[x])
      BY <1>2, <2>1, <3>1 DEF Becomes
    <3> QED
      BY <1>2, <2>1, <3>2 DEF Shown
  <2>2. CASE ~(m.ver = version[x] /\ m.e.type \in Ups)
    <3>1. CASE \E n \in Waiting : IsNow(n, x, Ups)
      <4>1. PICK n \in Waiting : IsNow(n, x, Ups)
        BY <3>1
      <4>2. n # m
        BY <2>2, <4>1 DEF IsNow
      <4> QED
        BY <1>1, <1>3, <4>1, <4>2 DEF Shown
    <3>2. CASE seen[x] = version[x] /\ Mirrors(Row(x), x, books[x])
      <4>1. m.ver = version[x] /\ m.e.type = "bill.paid" /\ books[x].balance <= 0
        BY <1>4, <1>5, <1>6, <2>2, <3>2 DEF Tells
      <4>2. x \in Docs /\ Row(x) # NoRow
        BY <1>2, <3>2, <4>1 DEF Becomes, Mirrors
      <4>3. /\ Row(x)' # NoRow /\ Row(x)'.kind = "paid" /\ Row(x)'.amount = Row(x).amount
            /\ Row(x)'.cur = Row(x).cur /\ Row(x)'.day = Row(x).day
            /\ Row(x)'.lines = Row(x).lines
        BY <1>2, <4>1, <4>2 DEF Becomes
      <4>4. Qbo!BillStatus(books[x]) = "paid"
        BY <4>1 DEF Qbo!BillStatus
      <4>5. Mirrors(Row(x)', x, books[x])
        BY <3>2, <4>2, <4>3, <4>4, Kinds DEF Mirrors
      <4> QED
        BY <1>2, <4>1, <4>5 DEF Shown
    <3> QED
      BY <1>6, <3>1, <3>2 DEF Shown
  <2> QED
    BY <2>1, <2>2
<1>7. ASSUME books[x] = NoObject, Dropped(x) PROVE Dropped(x)'
  <2>1. CASE m.ver = version[x] /\ m.e.type \in Drops
    <3>1. Row(x)' = NoRow \/ (x \in Docs /\ Row(x)'.voided = TRUE)
      BY <1>2, <2>1 DEF Becomes
    <3> QED
      BY <1>2, <2>1, <3>1 DEF Dropped
  <2>2. CASE ~(m.ver = version[x] /\ m.e.type \in Drops)
    <3>1. seen[x] # version[x]
      BY <1>4, <1>5, <1>7, <2>2 DEF Tells
    <3>2. PICK n \in Range(Flight) : IsNow(n, x, Drops)
      BY <1>7, <3>1 DEF Dropped
    <3>3. n # m
      BY <2>2, <3>2 DEF IsNow
    <3> QED
      BY <1>1, <1>3, <3>2, <3>3 DEF Dropped
  <2> QED
    BY <2>1, <2>2
<1> QED
  BY <1>6, <1>7

\* ... and a payment is not forgotten.
LEMMA StoringPaid ==
  ASSUME Following, NEW m, Storing(m), NEW x \in Bills, x = m.e.obj,
         books[x] # NoObject, Paid(x)
  PROVE  Paid(x)'
<1>0. x \in Traced /\ x \in Docs
  BY Kinds DEF Traced
<1>1. /\ m \in Waiting
      /\ Range(Flight) \subseteq Range(Flight') \union {m}
      /\ parked \subseteq parked' \union {m}
      /\ \A u, p : Before(Flight, u, p) =>
           \/ Before(Flight', u, p)
           \/ u = m /\ p \in Range(Flight') /\ parked' = parked
  BY TakenLeaves DEF Storing
<1>2. /\ books' = books /\ version' = version /\ seen'[x] = m.ver
      /\ Becomes(m.e, Row(x), Row(x)')
  BY <1>0, Kinds DEF Storing
<1>3. \A n, ts : IsNow(n, x, ts)' <=> IsNow(n, x, ts)
  BY <1>2 DEF IsNow
<1>4. m.e.type \in Ups \union {"bill.paid"}
  BY <1>0, <1>1 DEF NeverGone, Following, Storing
<1>5. /\ m.e.type \in Ups => Row(x)' # NoRow
      /\ Row(x) # NoRow => Row(x)' # NoRow
      /\ Row(x) # NoRow /\ Row(x).paid = TRUE => Row(x)'.paid = TRUE
      /\ Row(x) # NoRow /\ m.e.type = "bill.paid" => Row(x)'.paid = TRUE
  <2>1. CASE m.e.type \in Ups
    BY <1>0, <1>2, <2>1 DEF Becomes, Ups, Upserts
  <2>2. CASE m.e.type = "bill.paid"
    BY <1>2, <2>2 DEF Becomes, Ups, Upserts
  <2> QED
    BY <1>4, <2>1, <2>2
<1>6. \A q : IsNow(q, x, Ups) /\ q = m => m.e.type \in Ups
  BY DEF IsNow
<1>7. \A p : IsNow(p, x, {"bill.paid"}) /\ p = m =>
        m.e.type = "bill.paid" /\ m.ver = version[x]
  BY DEF IsNow
<1>8. CASE UpThenPaid(Flight, x)
  <2>1. PICK u \in Range(Flight), p \in Range(Flight) :
          IsNow(u, x, Ups) /\ IsNow(p, x, {"bill.paid"}) /\ Before(Flight, u, p)
    BY <1>8 DEF UpThenPaid
  <2>2. CASE Before(Flight', u, p)
    <3>1. u \in Range(Flight') /\ p \in Range(Flight')
      BY <2>2, BeforeIn
    <3> QED
      BY <1>3, <2>1, <2>2, <3>1 DEF Paid, UpThenPaid
  <2>3. CASE u = m /\ p \in Range(Flight')
    <3>1. Row(x)' # NoRow
      BY <1>5, <1>6, <2>1, <2>3
    <3> QED
      BY <1>3, <2>1, <2>3, <3>1 DEF Paid
  <2> QED
    BY <1>1, <2>1, <2>2, <2>3
<1>9. CASE /\ \E p \in Range(Flight) : IsNow(p, x, {"bill.paid"})
           /\ Row(x) # NoRow \/ \E q \in parked : IsNow(q, x, Ups)
  <2>1. PICK p \in Range(Flight) : IsNow(p, x, {"bill.paid"})
    BY <1>9
  <2>2. CASE p \in Range(Flight')
    <3>1. Row(x)' # NoRow \/ \E q \in parked' : IsNow(q, x, Ups)'
      BY <1>1, <1>3, <1>5, <1>6, <1>9
    <3> QED
      BY <1>3, <2>1, <2>2, <3>1 DEF Paid
  <2>3. CASE p = m /\ Row(x) # NoRow
    <3>1. Row(x)' # NoRow /\ Row(x)'.paid = TRUE
      BY <1>5, <1>7, <2>1, <2>3
    <3> QED
      BY <3>1 DEF Paid
  <2>4. CASE p = m /\ Row(x) = NoRow
    <3>1. PICK q \in parked : IsNow(q, x, Ups)
      BY <1>9, <2>4
    <3>2. q # m
      BY <1>7, <2>1, <2>4, <3>1 DEF IsNow, Ups, Upserts
    <3>3. seen'[x] = version'[x]
      BY <1>2, <1>7, <2>1, <2>4
    <3> QED
      BY <1>1, <1>3, <3>1, <3>2, <3>3 DEF Paid
  <2> QED
    BY <1>1, <2>1, <2>2, <2>3, <2>4
<1>10. CASE Row(x) # NoRow /\ Row(x).paid = TRUE
  <2>1. Row(x)' # NoRow /\ Row(x)'.paid = TRUE
    BY <1>5, <1>10
  <2> QED
    BY <2>1 DEF Paid
<1>11. CASE seen[x] = version[x] /\ \E q \in parked : IsNow(q, x, Ups)
  <2>1. m.ver = version[x] /\ parked' = parked
    BY <1>0, <1>11, StoringNewest
  <2> QED
    BY <1>2, <1>3, <1>11, <2>1 DEF Paid
<1> QED
  BY <1>8, <1>9, <1>10, <1>11 DEF Paid

\* So handling a message keeps the rows behind the books.
LEMMA FollowStoring ==
  ASSUME Following, NEW m, Storing(m)
  PROVE  Following'
<1>1. Versions' /\ Sequenced' /\ Present' /\ NeverGone' /\ NeverThere'
  BY StoringInOrder, StoringIsTrue
<1>2. /\ books' = books /\ version' = version /\ notices' = notices
      /\ backfill' = backfill /\ spent'.backfills = spent.backfills
  BY DEF Storing
<1>3. \A x : /\ GoneNoticed(x)' <=> GoneNoticed(x)
             /\ Pending(x)' <=> Pending(x)
  BY <1>2 DEF GoneNoticed, Noticed, Pending, Untold, NameOf
<1>4. \A x \in Traced : /\ books[x] # NoObject /\ Shown(x) => Shown(x)'
                        /\ books[x] = NoObject /\ Dropped(x) => Dropped(x)'
  BY StoringHere, StoringElsewhere
<1>5. \A x \in Bills : books[x] # NoObject /\ Paid(x) => Paid(x)'
  BY StoringPaid, StoringElsewhere, Kinds DEF Traced
<1>6. Arriving
  BY DEF Following
<1>7. Arriving'
  BY <1>2, <1>3, <1>4, <1>5, <1>6 DEF Arriving
<1> QED
  BY <1>1, <1>7 DEF Following

-----------------------------------------------------------------------------
(* What each step does to them *)

\* NoObject, the value of an object that is not in the books, is not a record.
NoObjectIsNoRecord == NoObject # [f \in DOMAIN NoObject |-> NoObject[f]]

\* A document is one.
LEMMA DocumentIsThere ==
  ASSUME NoObjectIsNoRecord, NEW o, IsDocument(o)
  PROVE  o # NoObject
<1>1. o = [f \in DOMAIN o |-> o[f]]
  BY DocumentIs DEF Documented
<1>2. ASSUME o = NoObject PROVE FALSE
  BY <1>1, <1>2 DEF NoObjectIsNoRecord
<1> QED
  BY <1>2

\* Without the first of a sequence.
LEMMA RemovedFirst ==
  ASSUME NEW s, IsStream(s), 1 \in DOMAIN s
  PROVE  Range(RemoveAt(s, 1)) \subseteq Range(s) /\ Range(s) \subseteq Range(RemoveAt(s, 1)) \union {s[1]}
<1>1. PICK u \in Seq(Range(s)) : u = s
  BY DEF IsStream
<1>2. u # <<>> /\ Len(u) \in Nat \ {0} /\ Head(u) = u[1]
  BY <1>1
<1>3. SubSeq(u, 1, 0) = <<>> /\ Tail(u) = SubSeq(u, 2, Len(u)) /\ Tail(u) \in Seq(Range(s))
  BY <1>2, TailIsSubSeq, SubSeqEmpty, HeadTailProperties
<1>4. RemoveAt(u, 1) = Tail(u)
  BY <1>3, ConcatEmptySeq DEF RemoveAt
<1>5. Range(u) = Range(Tail(u)) \union {Head(u)}
  BY <1>1, <1>2, Consumed
<1> QED
  BY <1>1, <1>2, <1>4, <1>5

\* One object of the books changes ...
LEMMA OneTurn ==
  ASSUME Messages, NEW x \in Objects, NEW op, NEW o, Notify(<<Notice(x, op)>>),
         BooksOK, books' = [books EXCEPT ![x] = o],
         x \in Traced => /\ books[x] # NoObject \/ version[x] = 1
                         /\ op \in DropOps <=> o = NoObject
  PROVE  Turn(<<Notice(x, op)>>)
<1> DEFINE xs == <<Notice(x, op)>>
<1>1. IsStream(xs) /\ Range(xs) = {Notice(x, op)}
  BY OneEvent
<1>2. Notice(x, op).obj = x /\ Notice(x, op).op = op
  BY DEF Notice
<1>3. /\ notices' = notices \o xs
      /\ version' = [y \in Objects |-> IF \E i \in DOMAIN xs : xs[i].obj = y
                                       THEN version[y] + 1 ELSE version[y]]
      /\ spent' = [spent EXCEPT !.changes = @ + 1]
      /\ UNCHANGED <<requests, backfill, topic, db, parked, seen>>
  BY DEF Notify, consumed
<1> HIDE DEF xs
<1>4. \A y : (\E i \in DOMAIN xs : xs[i].obj = y) <=> (\E n \in Range(xs) : n.obj = y)
  BY DEF Range
<1>5. Range(notices') = Range(notices) \union Range(xs)
  BY <1>1, <1>3, Joined DEF Messages, Notices
<1>6. \A y \in Objects :
        IF \E n \in Range(xs) : n.obj = y THEN version'[y] = version[y] + 1
        ELSE version'[y] = version[y] /\ books'[y] = books[y]
  <2>1. \A y \in Objects : version'[y] = IF \E n \in Range(xs) : n.obj = y
                                         THEN version[y] + 1 ELSE version[y]
    BY <1>3, <1>4
  <2>2. \A y \in Objects : y # x => books'[y] = books[y]
    BY DEF BooksOK
  <2>3. \E n \in Range(xs) : n.obj = x
    BY <1>1, <1>2
  <2> QED
    BY <2>1, <2>2, <2>3
<1>7. books'[x] = o
  BY DEF BooksOK
<1>8. Flight' = Flight /\ spent'.backfills = spent.backfills
  BY <1>3 DEF Flight
<1> QED
  BY <1>1, <1>2, <1>3, <1>5, <1>6, <1>7, <1>8 DEF Turn, xs

\* ... or two.
LEMMA TwoTurn ==
  ASSUME Messages, NEW x \in Objects, NEW y \in Objects, x # y, NEW op, NEW oq,
         Notify(<<Notice(x, op), Notice(y, oq)>>), NEW o, NEW u,
         BooksOK, books' = [books EXCEPT ![x] = o, ![y] = u],
         /\ books[x] # NoObject \/ version[x] = 1
         /\ op \in DropOps <=> o = NoObject,
         /\ books[y] # NoObject \/ version[y] = 1
         /\ oq \in DropOps <=> u = NoObject
  PROVE  Turn(<<Notice(x, op), Notice(y, oq)>>)
<1> DEFINE xs == <<Notice(x, op), Notice(y, oq)>>
<1>1. IsStream(xs) /\ Range(xs) = {Notice(x, op), Notice(y, oq)}
  BY TwoEvents
<1>2. /\ Notice(x, op).obj = x /\ Notice(x, op).op = op
      /\ Notice(y, oq).obj = y /\ Notice(y, oq).op = oq
  BY DEF Notice
<1>3. /\ notices' = notices \o xs
      /\ version' = [z \in Objects |-> IF \E i \in DOMAIN xs : xs[i].obj = z
                                       THEN version[z] + 1 ELSE version[z]]
      /\ spent' = [spent EXCEPT !.changes = @ + 1]
      /\ UNCHANGED <<requests, backfill, topic, db, parked, seen>>
  BY DEF Notify, consumed
<1> HIDE DEF xs
<1>4. \A z : (\E i \in DOMAIN xs : xs[i].obj = z) <=> (\E n \in Range(xs) : n.obj = z)
  BY DEF Range
<1>5. Range(notices') = Range(notices) \union Range(xs)
  BY <1>1, <1>3, Joined DEF Messages, Notices
<1>6. \A z \in Objects :
        IF \E n \in Range(xs) : n.obj = z THEN version'[z] = version[z] + 1
        ELSE version'[z] = version[z] /\ books'[z] = books[z]
  <2>1. \A z \in Objects : version'[z] = IF \E n \in Range(xs) : n.obj = z
                                         THEN version[z] + 1 ELSE version[z]
    BY <1>3, <1>4
  <2>2. \A z \in Objects : z # x /\ z # y => books'[z] = books[z]
    BY DEF BooksOK
  <2>3. /\ \E n \in Range(xs) : n.obj = x
        /\ \E n \in Range(xs) : n.obj = y
    BY <1>1, <1>2
  <2> QED
    BY <2>1, <2>2, <2>3
<1>7. books'[x] = o /\ books'[y] = u
  BY DEF BooksOK
<1>8. Flight' = Flight /\ spent'.backfills = spent.backfills
  BY <1>3 DEF Flight
<1>9. \A n \in Range(xs) : n.obj \in Traced =>
        /\ books[n.obj] # NoObject \/ version[n.obj] = 1
        /\ n.op \in DropOps <=> books'[n.obj] = NoObject
  BY <1>1, <1>2, <1>7 DEF xs
<1> QED
  BY <1>3, <1>5, <1>6, <1>8, <1>9 DEF Turn, xs

\* Every change of the books is announced.
LEMMA BooksTurn ==
  ASSUME NoObjectIsNoRecord, BooksOK, Messages, Books
  PROVE  \E xs : Turn(xs)
<1>1. ASSUME NEW x \in Docs, Enter(x) PROVE \E xs : Turn(xs)
  <2>1. PICK c \in Contents[x] : books' = [books EXCEPT ![x] = c]
    BY <1>1 DEF Enter
  <2>2. c # NoObject /\ x \in Objects /\ "Create" \notin DropOps
    BY BooksAssumption, DocumentIsThere, Kinds DEF DropOps
  <2>3. version[x] = 1 /\ Notify(<<Notice(x, "Create")>>)
    BY <1>1 DEF Enter
  <2> QED
    BY <2>1, <2>2, <2>3, OneTurn
<1>2. ASSUME NEW x \in Docs, Edit(x) PROVE \E xs : Turn(xs)
  <2>1. PICK c \in Contents[x] : books' = [books EXCEPT ![x] = c]
    BY <1>2 DEF Edit
  <2>2. c # NoObject /\ x \in Objects /\ "Update" \notin DropOps
    BY BooksAssumption, DocumentIsThere, Kinds DEF DropOps
  <2>3. books[x] # NoObject /\ Notify(<<Notice(x, "Update")>>)
    BY <1>2 DEF Edit
  <2> QED
    BY <2>1, <2>2, <2>3, OneTurn
<1>3. ASSUME NEW x \in Docs \union Vendors, Withdraw(x) PROVE \E xs : Turn(xs)
  <2>1. PICK op : op \in DropOps /\ Notify(<<Notice(x, op)>>)
    BY <1>3 DEF Withdraw, DropOps
  <2>2. books[x] # NoObject /\ books' = [books EXCEPT ![x] = NoObject] /\ x \in Objects
    BY <1>3, Kinds DEF Withdraw
  <2> QED
    BY <2>1, <2>2, OneTurn
<1>4. ASSUME NEW b \in Bills, NEW m \in Payments, Pay(b, m) PROVE \E xs : Turn(xs)
  <2>1. PICK amount : books' = [books EXCEPT
            ![m] = [linked |-> <<[type |-> "Bill", id |-> b]>>, total |-> amount,
                    cur |-> books[b].cur, day |-> Today],
            ![b].balance = @ - amount]
    BY <1>4 DEF Pay
  <2> DEFINE p == [linked |-> <<[type |-> "Bill", id |-> b]>>, total |-> amount,
                   cur |-> books[b].cur, day |-> Today]
             u == [books[b] EXCEPT !.balance = @ - amount]
  <2>2. b # m /\ b \in Objects /\ m \in Objects
    BY Kinds
  <2>3. p # NoObject /\ u # NoObject
    BY DEF NoObjectIsNoRecord
  <2>4. books' = [books EXCEPT ![m] = p, ![b] = u]
    BY <2>1, <2>2
  <2>5. /\ books[b] # NoObject /\ version[m] = 1
        /\ Notify(<<Notice(m, "Create"), Notice(b, "Update")>>)
    BY <1>4 DEF Pay
  <2>6. "Create" \notin DropOps /\ "Update" \notin DropOps
    BY DEF DropOps
  <2> HIDE DEF p, u
  <2> QED
    BY <2>2, <2>3, <2>4, <2>5, <2>6, TwoTurn
<1>5. ASSUME NEW m \in Payments, ReversePayment(m) PROVE \E xs : Turn(xs)
  <2>1. books[m] # NoObject
    BY <1>5 DEF ReversePayment
  <2>2. PICK b \in Bills : Head(books[m].linked).id = b /\ IsDocument(books[b])
    BY <2>1 DEF BooksOK
  <2> DEFINE u == [books[b] EXCEPT !.balance = @ + books[m].total]
  <2>3. b # m /\ b \in Objects /\ m \in Objects
    BY Kinds
  <2>4. books[b] # NoObject /\ u # NoObject
    BY <2>2, DocumentIsThere DEF NoObjectIsNoRecord
  <2>5. /\ books' = [books EXCEPT ![m] = NoObject, ![b].balance = @ + books[m].total]
        /\ Notify(<<Notice(m, "Void"), Notice(b, "Update")>>)
    BY <1>5, <2>2 DEF ReversePayment
  <2>6. books' = [books EXCEPT ![m] = NoObject, ![b] = u]
    BY <2>3, <2>5
  <2>7. "Void" \in DropOps /\ "Update" \notin DropOps
    BY DEF DropOps
  <2> HIDE DEF u
  <2> QED
    BY <2>1, <2>3, <2>4, <2>5, <2>6, <2>7, TwoTurn
<1> QED
  BY <1>1, <1>2, <1>3, <1>4, <1>5 DEF Books

\* The messages of an object of the books say what it is.
LEMMA MessagesOf ==
  ASSUME BooksOK, NEW x \in Objects, books[x] # NoObject, NEW update, NEW s,
         s = Read(x, Qbo!TranslateEntity(NameOf(x), x, books[x], update))
  PROVE  /\ \A m \in Range(s) : /\ m.e.obj = x /\ m.ver = version[x]
                                /\ x \in Traced => Tells(m.e, books[x])
         /\ x \in Traced => Brought(s, x)
<1> DEFINE o == books[x]
           events == Qbo!TranslateEntity(NameOf(x), x, o, update)
<1>1. x \in Docs => IsDocument(o)
  BY DEF BooksOK
<1>2. IsStream(events)
  BY <1>1, TranslatedIsSound DEF Reports
<1> HIDE DEF o
<1>3. /\ \A e \in Range(events) : e.obj = x
      /\ x \in Traced /\ o # NoObject => /\ \A e \in Range(events) : Tells(e, o)
                                         /\ Covers(events, x, o)
  BY <1>1, FetchTells
<1> USE DEF o
<1> HIDE DEF events
<1>4. s = Read(x, events)
  BY DEF events
<1>5. /\ \A m \in Range(s) : m.e \in Range(events) /\ m.ver = version[x]
      /\ \A f \in Range(events) : [e |-> f, ver |-> version[x]] \in Range(s)
      /\ \A f, g : Before(events, f, g) =>
           Before(s, [e |-> f, ver |-> version[x]], [e |-> g, ver |-> version[x]])
  BY <1>2, <1>4, ReadIs
<1>6. ASSUME x \in Traced PROVE Brought(s, x)
  <2>1. PICK f \in Range(events) :
          /\ f.obj = x /\ f.type \in Ups
          /\ x \in Bills /\ o.balance <= 0 =>
               \E g \in Range(events) : g.obj = x /\ g.type = "bill.paid" /\ Before(events, f, g)
    BY <1>3, <1>6 DEF Covers
  <2> DEFINE u == [e |-> f, ver |-> version[x]]
  <2>2. u \in Range(s) /\ u.e.obj = x /\ u.e.type \in Ups
    BY <1>5, <2>1
  <2>3. ASSUME x \in Bills, o.balance <= 0
        PROVE  \E p \in Range(s) : p.e.obj = x /\ p.e.type = "bill.paid" /\ Before(s, u, p)
    <3>1. PICK g \in Range(events) : g.obj = x /\ g.type = "bill.paid" /\ Before(events, f, g)
      BY <2>1, <2>3
    <3> DEFINE p == [e |-> g, ver |-> version[x]]
    <3>2. p \in Range(s) /\ p.e.obj = x /\ p.e.type = "bill.paid" /\ Before(s, u, p)
      BY <1>5, <3>1
    <3> HIDE DEF p, u
    <3> QED
      BY <3>2
  <2> HIDE DEF u
  <2> QED
    BY <2>2, <2>3 DEF Brought
<1> QED
  BY <1>3, <1>5, <1>6

\* The messages of one that is deleted or voided say so.
LEMMA MessagesGone ==
  ASSUME NEW x \in Objects, NEW s, s = Read(x, Qbo!BuildDelete(NameOf(x), x))
  PROVE  /\ \A m \in Range(s) : /\ m.e.obj = x /\ m.ver = version[x]
                                /\ x \in Traced => m.e.type \in Drops
         /\ x \in Traced => \E m \in Range(s) : m.e.obj = x /\ m.e.type \in Drops
<1> DEFINE events == Qbo!BuildDelete(NameOf(x), x)
<1>1. IsStream(events)
  BY DeletedIsSound DEF Reports
<1>2. /\ \A e \in Range(events) : e.obj = x /\ (x \in Traced => e.type \in Drops)
      /\ x \in Traced => \E e \in Range(events) : e.obj = x /\ e.type \in Drops
  BY DeleteTells
<1> HIDE DEF events
<1>3. s = Read(x, events)
  BY DEF events
<1>4. /\ \A m \in Range(s) : m.e \in Range(events) /\ m.ver = version[x]
      /\ \A f \in Range(events) : [e |-> f, ver |-> version[x]] \in Range(s)
  BY <1>1, <1>3, ReadIs
<1>5. ASSUME x \in Traced PROVE \E m \in Range(s) : m.e.obj = x /\ m.e.type \in Drops
  <2>1. PICK f \in Range(events) : f.obj = x /\ f.type \in Drops
    BY <1>2, <1>5
  <2> DEFINE m == [e |-> f, ver |-> version[x]]
  <2>2. m \in Range(s) /\ m.e.obj = x /\ m.e.type \in Drops
    BY <1>4, <2>1
  <2> HIDE DEF m
  <2> QED
    BY <2>2
<1> QED
  BY <1>2, <1>4, <1>5

\* What a request has read comes after everything that is on its way.
LEMMA ServedFlight ==
  ASSUME Messages, NEW s, Batch(s), NEW from, Serve(from, s), topic' = topic
  PROVE  Batch(Flight) /\ Flight' = Flight \o s
<1>1. Batch(topic) /\ Requests(requests)
  BY DEF Messages
<1>2. requests' = IF s = <<>> THEN requests ELSE Append(requests, [from |-> from, left |-> s])
  BY DEF Serve
<1>3. PICK t : t = topic
  OBVIOUS
<1>4. PICK rs : rs = requests
  OBVIOUS
<1>8. PICK new : new = requests'
  OBVIOUS
<1>9. Batch(t) /\ Requests(rs) /\ Joins(new, rs, from, s)
  BY <1>1, <1>2, <1>3, <1>4, <1>8 DEF Joins
<1>10. FlightOf(t, new) = FlightOf(t, rs) \o s
  BY <1>9, FlightServed
<1>5. Flight' = FlightOf(topic', requests')
  BY DEF Flight, FlightOf, LeftsOf
<1>6. Batch(Flight)
  BY <1>1, FlightIs DEF Flight
<1>7. Flight' = FlightOf(t, new) /\ Flight = FlightOf(t, rs)
  BY <1>3, <1>4, <1>5, <1>8 DEF Flight
<1> QED
  BY <1>6, <1>7, <1>10

\* A request that is served in turn reads what its notice announced.
LEMMA ReceiveReads ==
  ASSUME BooksOK, Messages, Following, 1 \in DOMAIN notices, Receive(1, FALSE)
  PROVE  \E s : Reading(s)
<1> DEFINE n == notices[1]
           x == n.obj
           o == books[x]
           events == Qbo!FetchAndTranslate(NameOf(x), x, n.op, o)
           s == Read(x, events)
<1>1. n \in Range(notices) /\ IsStream(notices) /\ x \in Objects
  BY DEF Range, Messages, Notices
<1>2. /\ Serve("webhook", s)
      /\ notices' = RemoveAt(notices, 1)
      /\ UNCHANGED <<books, version, backfill, topic, db, parked, seen, spent>>
  BY DEF Receive, booksVars, consumed
<1>3. Batch(s)
  <2>1. x \in Docs /\ o # NoObject => IsDocument(o)
    BY <1>1 DEF BooksOK
  <2> HIDE DEF o, x
  <2>2. Reports(events)
    BY <1>1, <2>1, FetchedIsSound
  <2> HIDE DEF events
  <2> QED
    BY <2>2, ReadIsBatch
<1>4. Batch(Flight) /\ Flight' = Flight \o s
  BY <1>2, <1>3, ServedFlight
<1>5. /\ Range(notices') \subseteq Range(notices)
      /\ Range(notices) \subseteq Range(notices') \union {n}
  BY <1>1, <1>2, RemovedFirst
<1>6. CASE n.op \in DropOps
  <2>1. s = Read(x, Qbo!BuildDelete(NameOf(x), x))
    BY <1>6 DEF Qbo!FetchAndTranslate, DropOps
  <2> HIDE DEF s, events
  <2>2. /\ \A m \in Range(s) : /\ m.e.obj = x /\ m.ver = version[x]
                               /\ x \in Traced => m.e.type \in Drops
        /\ x \in Traced => \E m \in Range(s) : m.e.obj = x /\ m.e.type \in Drops
    BY <1>1, <2>1, MessagesGone
  <2>3. x \in Traced => books[x] = NoObject /\ version[x] # 1
    BY <1>1, <1>6 DEF Following, NeverGone, GoneNoticed
  <2> HIDE DEF x, o
  <2>4. \A m \in Range(s) :
          /\ m.ver = version[m.e.obj]
          /\ m.e.obj \in Traced =>
               /\ Tells(m.e, books[m.e.obj])
               /\ books[m.e.obj] # NoObject \/ version[m.e.obj] # 1
    BY <2>2, <2>3 DEF Tells
  <2>5. ASSUME NEW y \in Traced, books[y] # NoObject, Pending(y) PROVE Pending(y)'
    <3>1. \A k \in Range(notices) : k.obj = y => k # n
      BY <2>3, <2>5 DEF x
    <3> QED
      BY <1>2, <1>5, <2>5, <3>1 DEF Pending, Noticed, Untold, NameOf
  <2>6. ASSUME NEW y \in Traced, GoneNoticed(y)
        PROVE  GoneNoticed(y)' \/ \E m \in Range(s) : m.e.obj = y /\ m.e.type \in Drops
    <3>1. PICK k \in Range(notices) : k.obj = y /\ k.op \in DropOps
      BY <2>6 DEF GoneNoticed
    <3>2. CASE k = n
      BY <2>2, <3>1, <3>2 DEF x
    <3>3. CASE k \in Range(notices')
      BY <3>1, <3>3 DEF GoneNoticed
    <3> QED
      BY <1>5, <3>2, <3>3
  <2>7. Reading(s)
    BY <1>2, <1>3, <1>4, <1>5, <2>4, <2>5, <2>6 DEF Reading
  <2> QED
    BY <2>7
<1>7. CASE n.op \notin DropOps /\ o = NoObject
  <2>1. events = <<>>
    BY <1>7 DEF Qbo!FetchAndTranslate, DropOps
  <2>2. Range(s) = {}
    BY <2>1 DEF Read, Range
  <2> HIDE DEF s, events
  <2>3. ASSUME NEW y \in Traced, books[y] # NoObject, Pending(y) PROVE Pending(y)'
    <3>1. \A k \in Range(notices) : k.obj = y => k # n
      BY <1>7, <2>3
    <3> QED
      BY <1>2, <1>5, <2>3, <3>1 DEF Pending, Noticed, Untold, NameOf
  <2>4. ASSUME NEW y, GoneNoticed(y) PROVE GoneNoticed(y)'
    BY <1>5, <1>7, <2>4 DEF GoneNoticed
  <2>5. Reading(s)
    BY <1>2, <1>3, <1>4, <1>5, <2>2, <2>3, <2>4 DEF Reading
  <2> QED
    BY <2>5
<1>8. CASE n.op \notin DropOps /\ o # NoObject
  <2>1. PICK update : s = Read(x, Qbo!TranslateEntity(NameOf(x), x, o, update))
    BY <1>8 DEF Qbo!FetchAndTranslate, DropOps
  <2> HIDE DEF s, events
  <2>2. /\ \A m \in Range(s) : /\ m.e.obj = x /\ m.ver = version[x]
                               /\ x \in Traced => Tells(m.e, o)
        /\ x \in Traced => Brought(s, x)
    BY <1>1, <1>8, <2>1, MessagesOf
  <2>3. o = books[x]
    OBVIOUS
  <2> HIDE DEF x, o
  <2>4. \A m \in Range(s) :
          /\ m.ver = version[m.e.obj]
          /\ m.e.obj \in Traced =>
               /\ Tells(m.e, books[m.e.obj])
               /\ books[m.e.obj] # NoObject \/ version[m.e.obj] # 1
    BY <1>8, <2>2, <2>3
  <2>5. ASSUME NEW y \in Traced, books[y] # NoObject, Pending(y)
        PROVE  Pending(y)' \/ Brought(s, y)
    <3>1. CASE y = x
      BY <2>2, <3>1
    <3>2. CASE y # x
      <4>1. \A k \in Range(notices) : k.obj = y => k # n
        BY <3>2 DEF x
      <4> QED
        BY <1>2, <1>5, <2>5, <4>1 DEF Pending, Noticed, Untold, NameOf
    <3> QED
      BY <3>1, <3>2
  <2>6. ASSUME NEW y, GoneNoticed(y) PROVE GoneNoticed(y)'
    BY <1>5, <1>8, <2>6 DEF GoneNoticed
  <2>7. Reading(s)
    BY <1>2, <1>3, <1>4, <1>5, <2>4, <2>5, <2>6 DEF Reading
  <2> QED
    BY <2>7
<1> QED
  BY <1>6, <1>7, <1>8

\* Sequences for the members of a set, listed in some order, after one another.
LEMMA Gathered ==
  ASSUME NEW S, NEW there \in Seq(S), Range(there) = S, NEW part,
         \A x \in S : IsStream(part[x]),
         NEW ss, ss = [i \in DOMAIN there |-> part[there[i]]],
         NEW s, s = FlattenSeq(ss)
  PROVE  /\ \A m \in Range(s) : \E x \in S : m \in Range(part[x])
         /\ \A x \in S : /\ Range(part[x]) \subseteq Range(s)
                         /\ \A a, b : Before(part[x], a, b) => Before(s, a, b)
<1> DEFINE M == UNION {Range(part[x]) : x \in S}
<1>1. \A x \in S : Range(part[x]) \subseteq M
  OBVIOUS
<1>2. \A m \in M : \E x \in S : m \in Range(part[x])
  OBVIOUS
<1> HIDE DEF M
<1>3. \A x \in S : part[x] \in Seq(M)
  <2>1. ASSUME NEW x \in S PROVE part[x] \in Seq(M)
    <3>1. PICK p : p = part[x]
      OBVIOUS
    <3>2. p \in Seq(Range(p)) /\ Range(p) \subseteq M
      BY <1>1, <2>1, <3>1 DEF IsStream
    <3> QED
      BY <3>1, <3>2, SeqMonotonic
  <2> QED
    BY <2>1
<1>4. Len(there) \in Nat /\ DOMAIN there = 1..Len(there) /\ \A i \in DOMAIN there : there[i] \in S
  OBVIOUS
<1>5. ss \in Seq(Seq(M)) /\ DOMAIN ss = DOMAIN there
  BY <1>3, <1>4, IsASeq
<1>6. s \in Seq(M)
  BY <1>5, Flattened
<1>7. Range(s) \subseteq M
  BY <1>6, Members
<1>8. ASSUME NEW x \in S
      PROVE  /\ Range(part[x]) \subseteq Range(s)
             /\ \A a, b : Before(part[x], a, b) => Before(s, a, b)
  <2>1. PICK i \in DOMAIN there : there[i] = x
    BY <1>8 DEF Range
  <2>2. ss[i] = part[x] /\ i \in DOMAIN ss
    BY <1>5, <2>1
  <2>3. PICK p \in Seq(M) : p = part[x]
    BY <1>3
  <2>4. Within(p, s, M)
    BY <1>5, <2>2, <2>3, FlatPart
  <2>5. /\ \A a, b : Before(p, a, b) => Before(s, a, b)
        /\ Range(p) \subseteq Range(s)
    BY <2>4, WithinBefore
  <2> QED
    BY <2>3, <2>5
<1> QED
  BY <1>2, <1>7, <1>8

\* A backfill reads every object of a type.
LEMMA FetchReads ==
  ASSUME BooksOK, Messages, Following, IsStream(backfill), FetchType
  PROVE  \E s : Reading(s)
<1> DEFINE name == Head(backfill)
           S == {x \in Objects : NameOf(x) = name /\ books[x] # NoObject}
           there == SetToSeq(S)
           events(x) == Qbo!TranslateEntity(name, x, books[x], FALSE)
           part == [x \in S |-> Read(x, events(x))]
           ss == [i \in DOMAIN there |-> Read(there[i], events(there[i]))]
           s == FlattenSeq(ss)
<1>1. /\ backfill # <<>> /\ Serve("backfill", s)
      /\ backfill' = Tail(backfill)
      /\ UNCHANGED <<books, version, notices, topic, db, parked, seen, spent>>
  BY DEF FetchType, booksVars, consumed
<1>2. Batch(s)
  BY FetchedTogether
<1>3. there \in Seq(S) /\ Range(there) = S
  <2>1. IsFiniteSet(S)
    BY ObjectsAssumption, FS_Subset
  <2> HIDE DEF S
  <2> QED
    BY <2>1, Listed
<1>4. ASSUME NEW x \in S
      PROVE  /\ x \in Objects /\ books[x] # NoObject /\ NameOf(x) = name
             /\ part[x] = Read(x, Qbo!TranslateEntity(NameOf(x), x, books[x], FALSE))
  OBVIOUS
<1>5. ss = [i \in DOMAIN there |-> part[there[i]]]
  <2>1. \A i \in DOMAIN there : there[i] \in S
    <3> HIDE DEF there, S
    <3> QED
      BY <1>3
  <2> HIDE DEF there, events, S
  <2> QED
    BY <2>1
<1>6. \A x \in Objects : books[x] # NoObject /\ NameOf(x) = name => x \in S
  OBVIOUS
<1> HIDE DEF S, there, part, ss, events
<1>7. ASSUME NEW x \in S
      PROVE  /\ \A m \in Range(part[x]) : /\ m.e.obj = x /\ m.ver = version[x]
                                          /\ x \in Traced => Tells(m.e, books[x])
             /\ x \in Traced => Brought(part[x], x)
             /\ IsStream(part[x])
  <2>1. /\ \A m \in Range(part[x]) : /\ m.e.obj = x /\ m.ver = version[x]
                                     /\ x \in Traced => Tells(m.e, books[x])
        /\ x \in Traced => Brought(part[x], x)
    BY <1>4, MessagesOf
  <2>2. IsStream(part[x])
    <3>1. x \in Docs => IsDocument(books[x])
      BY <1>4 DEF BooksOK
    <3>2. PICK evs : evs = Qbo!TranslateEntity(NameOf(x), x, books[x], FALSE) /\ Reports(evs)
      BY <1>4, <3>1, TranslatedIsSound
    <3>3. Batch(Read(x, evs))
      BY <3>2, ReadIsBatch
    <3> QED
      BY <1>4, <3>2, <3>3 DEF Batch
  <2> QED
    BY <2>1, <2>2
<1>8. /\ \A m \in Range(s) : \E x \in S : m \in Range(part[x])
      /\ \A x \in S : /\ Range(part[x]) \subseteq Range(s)
                      /\ \A a, b : Before(part[x], a, b) => Before(s, a, b)
  <2>1. \A x \in S : IsStream(part[x])
    BY <1>7
  <2>2. PICK ps : ps = ss
    OBVIOUS
  <2>3. PICK p : p = part
    OBVIOUS
  <2>4. PICK ts : ts = there
    OBVIOUS
  <2>5. /\ ts \in Seq(S) /\ Range(ts) = S /\ \A x \in S : IsStream(p[x])
        /\ ps = [i \in DOMAIN ts |-> p[ts[i]]]
    BY <1>3, <1>5, <2>1, <2>2, <2>3, <2>4
  <2>6. s = FlattenSeq(ps)
    BY <2>2
  <2> HIDE DEF s
  <2>7. /\ \A m \in Range(s) : \E x \in S : m \in Range(p[x])
        /\ \A x \in S : /\ Range(p[x]) \subseteq Range(s)
                        /\ \A a, b : Before(p[x], a, b) => Before(s, a, b)
    BY <2>5, <2>6, Gathered
  <2> QED
    BY <2>3, <2>7
<1> HIDE DEF s
<1>9. Batch(Flight) /\ Flight' = Flight \o s
  BY <1>1, <1>2, ServedFlight
<1>10. \A m \in Range(s) :
         /\ m.ver = version[m.e.obj]
         /\ m.e.obj \in Traced => /\ Tells(m.e, books[m.e.obj])
                                  /\ books[m.e.obj] # NoObject \/ version[m.e.obj] # 1
  <2>1. ASSUME NEW m \in Range(s)
        PROVE  /\ m.ver = version[m.e.obj]
               /\ m.e.obj \in Traced => /\ Tells(m.e, books[m.e.obj])
                                        /\ books[m.e.obj] # NoObject
    <3>1. PICK x \in S : m \in Range(part[x])
      BY <1>8, <2>1
    <3>2. m.e.obj = x /\ m.ver = version[x] /\ (x \in Traced => Tells(m.e, books[x]))
      BY <1>7, <3>1
    <3> QED
      BY <1>4, <3>2
  <2> QED
    BY <2>1
<1>11. ASSUME NEW x \in Traced, books[x] # NoObject, Pending(x)
       PROVE  Pending(x)' \/ Brought(s, x)
  <2>1. CASE NameOf(x) = name
    <3>1. x \in S
      BY <1>6, <1>11, <2>1, Kinds DEF Traced
    <3>2. /\ Range(part[x]) \subseteq Range(s)
          /\ \A a, b : Before(part[x], a, b) => Before(s, a, b)
      BY <1>8, <3>1
    <3>3. Brought(part[x], x)
      BY <1>7, <1>11, <3>1
    <3>4. PICK u \in Range(part[x]) :
            /\ u.e.obj = x /\ u.e.type \in Ups
            /\ x \in Bills /\ books[x].balance <= 0 =>
                 \E p \in Range(part[x]) : /\ p.e.obj = x /\ p.e.type = "bill.paid"
                                           /\ Before(part[x], u, p)
      BY <3>3 DEF Brought
    <3>5. u \in Range(s) /\ u.e.obj = x /\ u.e.type \in Ups
      BY <3>2, <3>4
    <3>6. x \in Bills /\ books[x].balance <= 0 =>
            \E p \in Range(s) : p.e.obj = x /\ p.e.type = "bill.paid" /\ Before(s, u, p)
      BY <3>2, <3>4
    <3> QED
      BY <3>5, <3>6 DEF Brought
  <2>2. CASE NameOf(x) # name
    <3>1. Range(backfill) = Range(Tail(backfill)) \union {Head(backfill)}
      BY <1>1, Consumed
    <3>2. NameOf(x) \in Range(backfill) => NameOf(x) \in Range(backfill')
      BY <1>1, <2>2, <3>1
    <3> QED
      BY <1>1, <1>11, <3>2 DEF Pending, Noticed, Untold, NameOf
  <2> QED
    BY <2>1, <2>2
<1>12. \A x : GoneNoticed(x) => GoneNoticed(x)'
  BY <1>1 DEF GoneNoticed
<1>13. Reading(s)
  BY <1>1, <1>2, <1>9, <1>10, <1>11, <1>12 DEF Reading
<1> QED
  BY <1>13

\* What the counters and the tables are.
Typed ==
  /\ orderly \in BOOLEAN
  /\ seen = [x \in Objects |-> seen[x]]
  /\ spent \in [changes : Nat, backfills : Nat, faults : Nat]
  /\ IsStream(backfill)
  /\ HasPayments(db)

\* A fault is counted.
LEMMA FaultIsCounted ==
  ASSUME Typed, Fault
  PROVE  /\ spent' \in [changes : Nat, backfills : Nat, faults : Nat]
         /\ spent'.backfills = spent.backfills
BY DEF Typed, Fault

\* They stay so; and what was not orderly is not any more.
LEMMA TypedStep ==
  ASSUME Messages, TableOK, Typed, [Next]_vars
  PROVE  Typed' /\ (orderly' => orderly)
<1>1. ASSUME NEW m, Sound(m.e), Store(m)
      PROVE  seen' = [x \in Objects |-> seen'[x]] /\ HasPayments(db')
  <2>1. HasDocs(db) /\ HasPayments(db)
    BY DEF TableOK, Typed
  <2>2. HasPayments(Handle(db, rates, m.e))
    BY <1>1, <2>1, RowsElsewhere
  <2> QED
    BY <1>1, <2>2 DEF Store, Typed
<1>2. ASSUME Books PROVE Typed' /\ (orderly' => orderly)
  <2>1. PICK xs : Notify(xs)
    BY <1>2 DEF Books, Enter, Edit, Withdraw, Pay, ReversePayment
  <2> QED
    BY <2>1 DEF Notify, consumed, Typed, HasPayments
<1>3. ASSUME NEW i, NEW failed \in BOOLEAN, Receive(i, failed)
      PROVE  Typed' /\ (orderly' => orderly)
  <2>1. /\ orderly' \in BOOLEAN /\ (orderly' => orderly)
        /\ spent' \in [changes : Nat, backfills : Nat, faults : Nat]
    BY <1>3, FaultIsCounted DEF Receive, Typed
  <2>2. UNCHANGED <<seen, backfill, db>>
    BY <1>3 DEF Receive, consumed
  <2> QED
    BY <2>1, <2>2 DEF Typed, HasPayments
<1>4. ASSUME StartBackfill PROVE Typed' /\ (orderly' => orderly)
  <2>1. IsStream(BackfillOrder)
    <3>1. BackfillOrder \in Seq({"Vendor", "Account", "Bill", "Purchase", "BillPayment"})
      BY DEF BackfillOrder
    <3> QED
      BY <3>1, StreamOf
  <2>2. spent' \in [changes : Nat, backfills : Nat, faults : Nat]
    BY <1>4 DEF StartBackfill, Typed
  <2>3. UNCHANGED <<orderly, seen, db>> /\ backfill' = BackfillOrder
    BY <1>4 DEF StartBackfill, consumed
  <2> QED
    BY <2>1, <2>2, <2>3 DEF Typed, HasPayments
<1>5. ASSUME FetchType PROVE Typed' /\ (orderly' => orderly)
  <2>1. backfill # <<>> /\ backfill' = Tail(backfill) /\ UNCHANGED <<orderly, spent, seen, db>>
    BY <1>5 DEF FetchType, consumed
  <2>2. IsStream(backfill')
    BY <2>1, Consumed DEF Typed
  <2> QED
    BY <2>1, <2>2 DEF Typed, HasPayments
<1>6. ASSUME NEW r, Publish(r) PROVE Typed' /\ (orderly' => orderly)
  <2>1. /\ orderly' \in BOOLEAN /\ (orderly' => orderly)
        /\ spent' \in [changes : Nat, backfills : Nat, faults : Nat]
    BY <1>6, FaultIsCounted DEF Publish, Typed
  <2>2. UNCHANGED <<seen, backfill, db>>
    BY <1>6 DEF Publish, consumed
  <2> QED
    BY <2>1, <2>2 DEF Typed, HasPayments
<1>7. ASSUME Consume PROVE Typed' /\ (orderly' => orderly)
  <2>1. PICK m : m = Head(topic)
    OBVIOUS
  <2>2. Sound(m.e) /\ UNCHANGED <<backfill, spent>>
    BY <1>7, <2>1, Consumed DEF Consume, Messages, Batch
  <2>3. CASE Raises(rates, m.e)
    <3>1. UNCHANGED <<db, seen>> /\ orderly' \in BOOLEAN /\ (orderly' => orderly)
      BY <1>7, <2>1, <2>3 DEF Consume, Typed
    <3> QED
      BY <2>2, <3>1 DEF Typed, HasPayments
  <2>4. CASE ~Raises(rates, m.e)
    <3>1. Store(m) /\ orderly' = orderly
      BY <1>7, <2>1, <2>4 DEF Consume
    <3> QED
      BY <1>1, <2>2, <3>1 DEF Typed
  <2> QED
    BY <2>3, <2>4
<1>8. ASSUME NEW m \in parked, Replay(m) PROVE Typed' /\ (orderly' => orderly)
  <2>1. Sound(m.e) /\ Store(m) /\ UNCHANGED <<backfill, spent>>
    BY <1>8 DEF Replay, Messages
  <2>2. orderly' \in BOOLEAN /\ (orderly' => orderly)
    BY <1>8 DEF Replay, Typed
  <2> QED
    BY <1>1, <2>1, <2>2 DEF Typed
<1>9. ASSUME SyncRates \/ UNCHANGED vars PROVE Typed' /\ (orderly' => orderly)
  BY <1>9 DEF SyncRates, vars, consumed, Typed, HasPayments
<1>10. CASE \E i \in DOMAIN notices : Receive(i, FALSE) \/ Receive(i, TRUE)
  <2>1. PICK i \in DOMAIN notices : Receive(i, FALSE) \/ Receive(i, TRUE)
    BY <1>10
  <2> QED
    BY <1>3, <2>1
<1>11. CASE \E r \in DOMAIN requests : Publish(r)
  BY <1>6, <1>11
<1>12. CASE \E m \in parked : Replay(m)
  BY <1>8, <1>12
<1> QED
  BY <1>2, <1>4, <1>5, <1>7, <1>9, <1>10, <1>11, <1>12 DEF Next

\* A handler's transaction is a message handled.
LEMMA StoreIsStoring ==
  ASSUME NoRowIsNoRecord, TableOK, Typed, NEW m, Sound(m.e), Store(m), Taken(m),
         UNCHANGED <<books, version, notices, backfill, spent>>
  PROVE  Storing(m)
<1>1. HasDocs(db) /\ HasPayments(db)
  BY DEF TableOK, Typed
<1>2. Filled(db)
  BY DEF TableOK, Tallies, Filled
<1>3. db' = Handle(db, rates, m.e) /\ seen' = [seen EXCEPT ![m.e.obj] = m.ver]
  BY DEF Store
<1>4. m.e.obj \in Objects /\ (m.e.obj \in Docs => m.e.type \in Ups \union {"bill.paid"} \union Drops)
  BY DEF Sound, DocTypes, Ups, Drops
<1>5. \A x \in Objects : seen'[x] = IF x = m.e.obj THEN m.ver ELSE seen[x]
  BY <1>3 DEF Typed
<1>6. PICK t : t = db
  OBVIOUS
<1>7. PICK rs : rs = rates
  OBVIOUS
<1>8. PICK u : u = db' /\ u = Handle(t, rs, m.e)
  BY <1>3, <1>6, <1>7
<1>9. \A x : Row(x) = RowIn(t, x) /\ Row(x)' = RowIn(u, x)
  BY <1>6, <1>8 DEF Row, RowIn
<1>10. \A x \in Traced : x # m.e.obj => RowIn(u, x) = RowIn(t, x)
  BY <1>1, <1>6, <1>8, RowsElsewhere
<1>11. ASSUME m.e.obj \in Traced PROVE Becomes(m.e, RowIn(t, m.e.obj), RowIn(u, m.e.obj))
  <2>1. CASE m.e.obj \in Docs
    <3>1. HasDocs(t) /\ Filled(t)
      BY <1>1, <1>2, <1>6
    <3>2. Becomes(m.e, t.doc[m.e.obj], u.doc[m.e.obj])
      BY <1>8, <2>1, <3>1, DocBecomes
    <3> QED
      BY <2>1, <3>2 DEF RowIn
  <2>2. CASE m.e.obj \in Payments /\ m.e.obj \notin Docs
    <3>1. HasPayments(t)
      BY <1>1, <1>6
    <3>2. Becomes(m.e, t.payment[m.e.obj], u.payment[m.e.obj])
      BY <1>8, <2>2, <3>1, PaymentBecomes
    <3> QED
      BY <2>2, <3>2 DEF RowIn
  <2> QED
    BY <1>11, <2>1, <2>2 DEF Traced
<1>12. /\ \A x \in Traced : x # m.e.obj => Row(x)' = Row(x)
       /\ m.e.obj \in Traced => Becomes(m.e, Row(m.e.obj), Row(m.e.obj)')
  BY <1>9, <1>10, <1>11
<1> QED
  BY <1>4, <1>5, <1>12 DEF Storing

\* Every step that loses nothing and lets nothing overtake keeps the rows behind
\* the books.
LEMMA FollowStep ==
  ASSUME NoRowIsNoRecord, NoObjectIsNoRecord, BooksOK, Messages, TableOK, Typed,
         Following, orderly', [Next]_vars
  PROVE  Following'
<1>0. ~(orderly' = FALSE)
  OBVIOUS
<1>1. Batch(topic) /\ Requests(requests) /\ IsStream(notices)
  BY DEF Messages, Notices
<1>2. CASE Books
  <2>1. PICK xs : Turn(xs)
    BY <1>2, BooksTurn
  <2> QED
    BY <2>1, FollowBooks
<1>3. CASE \E i \in DOMAIN notices : Receive(i, FALSE) \/ Receive(i, TRUE)
  <2>1. PICK i \in DOMAIN notices : Receive(i, FALSE) \/ Receive(i, TRUE)
    BY <1>3
  <2>2. i \in Nat \ {0}
    BY <1>1 DEF IsStream
  <2>3. ASSUME NEW failed \in BOOLEAN, Receive(i, failed) PROVE i = 1 /\ failed = FALSE
    <3>1. IF i > 1 \/ failed THEN Fault /\ orderly' = FALSE ELSE UNCHANGED <<spent, orderly>>
      BY <2>3, Zenon DEF Receive
    <3>2. ~(i > 1 \/ failed)
      BY <1>0, <3>1
    <3> QED
      BY <2>2, <3>2
  <2>4. 1 \in DOMAIN notices /\ Receive(1, FALSE)
    BY <2>1, <2>3
  <2>5. PICK s : Reading(s)
    BY <2>4, ReceiveReads
  <2> QED
    BY <2>5, FollowReading
<1>4. CASE StartBackfill
  <2>1. /\ backfill' = BackfillOrder
        /\ UNCHANGED <<books, version, notices, parked, db, seen, topic, requests>>
    BY <1>4 DEF StartBackfill, booksVars, consumed
  <2>2. Range(BackfillOrder) = {"Vendor", "Account", "Bill", "Purchase", "BillPayment"}
    BY DEF BackfillOrder, Range
  <2>3. \A x \in Traced : NameOf(x) \in Range(BackfillOrder)
    BY <2>2, NamesAre, Kinds DEF Traced
  <2>4. Flight' = Flight
    BY <2>1 DEF Flight, FlightOf, LeftsOf
  <2> QED
    BY <2>1, <2>3, <2>4, FollowBackfill
<1>5. CASE FetchType
  <2>1. PICK s : Reading(s)
    BY <1>5, FetchReads DEF Typed
  <2> QED
    BY <2>1, FollowReading
<1>6. CASE \E r \in DOMAIN requests : Publish(r)
  <2>1. PICK r \in DOMAIN requests : Publish(r)
    BY <1>6
  <2>2. r \in Nat \ {0}
    BY <1>1 DEF Requests, IsStream
  <2>3. r = 1
    <3>1. IF r > 1 THEN Fault /\ orderly' = FALSE ELSE UNCHANGED <<spent, orderly>>
      BY <2>1, Zenon DEF Publish
    <3>2. ~(r > 1)
      BY <1>0, <3>1
    <3> QED
      BY <2>2, <3>2
  <2>4. /\ topic' = Append(topic, Head(requests[1].left))
        /\ requests' = IF Len(requests[1].left) = 1 THEN RemoveAt(requests, 1)
                       ELSE [requests EXCEPT ![1].left = Tail(@)]
        /\ UNCHANGED <<books, version, notices, backfill, parked, db, seen, spent>>
    BY <2>1, <2>3 DEF Publish, booksVars, consumed
  <2>5. Flight' = Flight
    <3>1. FlightOf(Append(topic, Head(requests[1].left)),
                   IF Len(requests[1].left) = 1 THEN RemoveAt(requests, 1)
                   ELSE [requests EXCEPT ![1].left = Tail(@)]) = FlightOf(topic, requests)
      BY <1>1, <2>1, <2>3, FlightMoved
    <3>2. Flight' = FlightOf(topic', requests')
      BY DEF Flight, FlightOf, LeftsOf
    <3> QED
      BY <2>4, <3>1, <3>2 DEF Flight
  <2> QED
    BY <2>4, <2>5, FollowStill
<1>7. CASE Consume
  <2>1. PICK m : m = Head(topic)
    OBVIOUS
  <2>2. /\ topic # <<>> /\ topic' = Tail(topic)
        /\ UNCHANGED <<books, version, notices, requests, backfill, spent>>
    BY <1>7 DEF Consume, booksVars
  <2>3. /\ Flight = <<m>> \o FlightOf(Tail(topic), requests)
        /\ Batch(Tail(topic)) /\ Sound(m.e)
    BY <1>1, <2>1, <2>2, FlightNext DEF Flight
  <2>4. Flight' = FlightOf(Tail(topic), requests)
    <3>1. Flight' = FlightOf(topic', requests')
      BY DEF Flight, FlightOf, LeftsOf
    <3> QED
      BY <2>2, <3>1
  <2>5. IsStream(Flight') /\ Flight = <<m>> \o Flight'
    BY <1>1, <2>3, <2>4, FlightIs DEF Batch
  <2>6. CASE Raises(rates, m.e)
    <3>1. /\ UNCHANGED <<db, seen>>
          /\ parked' = parked \union {m}
      BY <1>7, <2>1, <2>6 DEF Consume
    <3>2. m.e.type \notin Drops \union {"bill.paid"}
      BY <2>6 DEF Raises, Upserts, Drops
    <3>3. Parking(m)
      BY <2>2, <2>5, <3>1, <3>2 DEF Parking
    <3> QED
      BY <3>3, FollowParking
  <2>7. CASE ~Raises(rates, m.e)
    <3>1. Store(m) /\ parked' = parked
      BY <1>7, <2>1, <2>7 DEF Consume
    <3>2. Taken(m)
      BY <2>5, <3>1 DEF Taken
    <3>3. Storing(m)
      BY <2>2, <2>3, <3>1, <3>2, StoreIsStoring
    <3> QED
      BY <3>3, FollowStoring
  <2> QED
    BY <2>6, <2>7
<1>8. CASE \E m \in parked : Replay(m)
  <2>1. PICK m \in parked : Replay(m)
    BY <1>8
  <2>2. /\ Store(m) /\ parked' = parked \ {m} /\ seen[m.e.obj] < m.ver
        /\ UNCHANGED <<books, version, notices, requests, backfill, topic, spent>>
    BY <2>1 DEF Replay, booksVars
  <2>3. Flight' = Flight
    BY <2>2 DEF Flight, FlightOf, LeftsOf
  <2>4. Taken(m)
    BY <2>2, <2>3 DEF Taken
  <2>5. Sound(m.e)
    BY DEF Messages
  <2>6. Storing(m)
    BY <2>2, <2>4, <2>5, StoreIsStoring
  <2> QED
    BY <2>6, FollowStoring
<1>9. CASE SyncRates \/ UNCHANGED vars
  <2>1. UNCHANGED <<books, version, notices, requests, backfill, topic, parked, db, seen, spent>>
    BY <1>9 DEF SyncRates, vars, booksVars, consumed
  <2>2. Flight' = Flight
    BY <2>1 DEF Flight, FlightOf, LeftsOf
  <2> QED
    BY <2>1, <2>2, FollowStill
<1> QED
  BY <1>2, <1>3, <1>4, <1>5, <1>6, <1>7, <1>8, <1>9 DEF Next

\* At first nobody was told, and there are no rows.
LEMMA FollowInit == Init => Typed /\ Following
<1> SUFFICES ASSUME Init PROVE Typed /\ Following
  OBVIOUS
<1>1. /\ notices = <<>> /\ requests = <<>> /\ backfill = <<>> /\ topic = <<>> /\ parked = {}
      /\ books = FirstBooks /\ version = [x \in Objects |-> 1] /\ db = NoTables
      /\ seen = [x \in Objects |-> 0] /\ orderly = TRUE
      /\ spent = [changes |-> 0, backfills |-> 0, faults |-> 0]
  BY DEF Init
<1>2. Typed
  BY <1>1, NoEvents DEF Typed, HasPayments, NoTables
<1>3. Flight = <<>>
  <2>1. LeftsOf(requests) = <<>>
    BY <1>1 DEF LeftsOf
  <2>2. FlattenSeq(<<>>) = <<>>
    BY DEF FlattenSeq
  <2> QED
    BY <1>1, <2>1, <2>2 DEF Flight, FlightOf
<1>4. Range(Flight) = {} /\ Waiting = {}
  BY <1>1, <1>3, NoEvents DEF Waiting
<1>5. Traced \subseteq Objects
  BY Kinds DEF Traced
<1>6. \A x \in Traced : Row(x) = NoRow
  BY <1>1 DEF Row, RowIn, NoTables, Traced
<1>7. Range(notices) = {}
  BY <1>1, NoEvents
<1>8. \A x : ~Noticed(x) /\ ~GoneNoticed(x)
  BY <1>7 DEF Noticed, GoneNoticed
<1>9. Versions
  BY <1>1, <1>4 DEF Versions
<1>10. Sequenced
  BY <1>4 DEF Sequenced, Ordered
<1>11. Present
  BY <1>4 DEF Present
<1>12. NeverGone /\ NeverThere
  BY <1>4, <1>6, <1>8 DEF NeverGone, NeverThere
<1>13. Arriving
  BY <1>1, <1>5 DEF Arriving, Pending, Untold
<1> QED
  BY <1>2, <1>9, <1>10, <1>11, <1>12, <1>13 DEF Following

\* When nothing is on its way, the rows are what they follow.
LEMMA Resting ==
  ASSUME Following, Typed, Quiet
  PROVE  /\ \A x \in Traced : Told(x) /\ books[x] # NoObject =>
              /\ Mirrors(Row(x), x, books[x])
              /\ x \in Docs => Row(x).voided = FALSE
              /\ x \in Bills /\ books[x].balance <= 0 => Row(x).paid = TRUE
         /\ \A x \in Traced : books[x] = NoObject =>
              Row(x) = NoRow \/ (x \in Docs /\ Row(x).voided = TRUE)
<1>1. /\ notices = <<>> /\ requests = <<>> /\ backfill = <<>> /\ topic = <<>> /\ parked = {}
  BY DEF Quiet
<1>2. Flight = <<>>
  <2>1. LeftsOf(requests) = <<>>
    BY <1>1 DEF LeftsOf
  <2>2. FlattenSeq(<<>>) = <<>>
    BY DEF FlattenSeq
  <2> QED
    BY <1>1, <2>1, <2>2 DEF Flight, FlightOf
<1>3. Range(Flight) = {} /\ Waiting = {} /\ Range(backfill) = {} /\ Range(notices) = {}
  BY <1>1, <1>2, NoEvents DEF Waiting
<1>4. ASSUME NEW x \in Traced, Told(x), books[x] # NoObject PROVE ~Pending(x)
  <2>1. x \in Objects
    BY Kinds DEF Traced
  <2>2. version[x] \in Nat \ {0} /\ spent.backfills \in Nat
    BY <2>1 DEF Following, Versions, Typed
  <2>3. ~Untold(x)
    BY <1>4, <2>2 DEF Told, Untold
  <2> QED
    BY <1>3, <2>3 DEF Pending, Noticed
<1>5. Arriving /\ NeverGone /\ NeverThere
  BY DEF Following
<1>6. ASSUME NEW x \in Traced, Told(x), books[x] # NoObject
      PROVE  /\ Mirrors(Row(x), x, books[x])
             /\ x \in Docs => Row(x).voided = FALSE
             /\ x \in Bills /\ books[x].balance <= 0 => Row(x).paid = TRUE
  <2>1. Shown(x) /\ (x \in Bills /\ books[x].balance <= 0 => Paid(x))
    BY <1>4, <1>5, <1>6 DEF Arriving
  <2>2. Mirrors(Row(x), x, books[x])
    BY <1>3, <2>1 DEF Shown
  <2>3. Paid(x) => Row(x).paid = TRUE
    BY <1>1, <1>3 DEF Paid, UpThenPaid
  <2>4. Row(x) # NoRow
    BY <2>2 DEF Mirrors
  <2>5. x \in Docs => Row(x).voided = FALSE
    BY <1>5, <1>6, <2>4 DEF NeverGone
  <2> QED
    BY <2>1, <2>2, <2>3, <2>5
<1>7. ASSUME NEW x \in Traced, books[x] = NoObject
      PROVE  Row(x) = NoRow \/ (x \in Docs /\ Row(x).voided = TRUE)
  <2>1. ~GoneNoticed(x)
    BY <1>3 DEF GoneNoticed
  <2>2. version[x] = 1 \/ Dropped(x)
    BY <1>5, <1>7, <2>1 DEF Arriving
  <2>3. version[x] = 1 => Row(x) = NoRow
    BY <1>5, <1>7 DEF NeverThere
  <2> QED
    BY <1>3, <2>2, <2>3 DEF Dropped
<1> QED
  BY <1>6, <1>7

\* Hence they are the books.
LEMMA MirroredAtRest ==
  ASSUME BooksOK, Following, Typed, Quiet
  PROVE  BooksMirrored
<1>1. ASSUME NEW x \in Traced, Told(x), books[x] # NoObject
      PROVE  /\ Mirrors(Row(x), x, books[x])
             /\ x \in Docs => Row(x).voided = FALSE
             /\ x \in Bills /\ books[x].balance <= 0 => Row(x).paid = TRUE
  BY <1>1, Resting
<1>2. ASSUME NEW x \in Traced, books[x] = NoObject
      PROVE  Row(x) = NoRow \/ (x \in Docs /\ Row(x).voided = TRUE)
  BY <1>2, Resting
<1>3. ASSUME NEW x \in Docs, Told(x) PROVE DocMatches(x)
  <2>1. Row(x) = db.doc[x] /\ x \in Traced
    BY DEF Row, RowIn, Traced
  <2>2. CASE books[x] = NoObject
    BY <1>2, <2>1, <2>2 DEF DocMatches
  <2>3. CASE books[x] # NoObject
    <3> DEFINE row == db.doc[x]
    <3>1. Mirrors(row, x, books[x]) /\ row.voided = FALSE
      BY <1>1, <1>3, <2>1, <2>3
    <3>2. /\ row # NoRow /\ row.amount.total = books[x].total
          /\ AmountsOf(row.lines) = AmountsOf(Qbo!ExpenseLines(books[x]))
      BY <3>1 DEF Mirrors
    <3>3. ASSUME x \in Bills
          PROVE  /\ row.kind = Qbo!BillStatus(books[x])
                 /\ books[x].balance <= 0 => row.paid = TRUE
      BY <1>1, <1>3, <2>1, <2>3, <3>1, <3>3 DEF Mirrors
    <3>4. ASSUME x \in Bills
          PROVE  /\ row.kind = "open" <=> /\ books[x].balance > 0
                                          /\ books[x].balance >= books[x].total
                 /\ row.kind = "paid" <=> books[x].balance <= 0
                 /\ row.kind = "paid" => row.paid
      <4>1. books[x].balance \in Int /\ books[x].total \in Int
        <5>1. IsDocument(books[x])
          BY <2>3 DEF BooksOK
        <5> QED
          BY <5>1 DEF IsDocument
      <4>2. Qbo!BillStatus(books[x]) =
              IF books[x].balance <= 0 THEN "paid"
              ELSE IF books[x].balance < books[x].total THEN "partial" ELSE "open"
        BY DEF Qbo!BillStatus
      <4>3. row.kind = Qbo!BillStatus(books[x]) /\ (books[x].balance <= 0 => row.paid = TRUE)
        BY <3>3, <3>4
      <4> HIDE DEF row
      <4>4. CASE books[x].balance <= 0
        BY <4>1, <4>2, <4>3, <4>4
      <4>5. CASE ~(books[x].balance <= 0)
        BY <4>1, <4>2, <4>3, <4>5
      <4> QED
        BY <4>4, <4>5
    <3> QED
      BY <2>3, <3>1, <3>2, <3>4 DEF DocMatches, AmountsOf
  <2> QED
    BY <2>2, <2>3
<1>4. ASSUME NEW m \in Payments, Told(m)
      PROVE  /\ (db.payment[m] = NoRow) <=> (books[m] = NoObject)
             /\ books[m] # NoObject => db.payment[m].amount = books[m].total
  <2>1. Row(m) = db.payment[m] /\ m \in Traced /\ m \notin Docs
    BY Kinds DEF Row, RowIn, Traced
  <2>2. CASE books[m] = NoObject
    BY <1>2, <2>1, <2>2
  <2>3. CASE books[m] # NoObject
    <3>1. Mirrors(Row(m), m, books[m])
      BY <1>1, <1>4, <2>1, <2>3
    <3> QED
      BY <2>1, <2>3, <3>1 DEF Mirrors
  <2> QED
    BY <2>2, <2>3
<1> QED
  BY <1>3, <1>4 DEF BooksMirrored

\* The inductive invariant of a company's rows: as long as nothing is lost and
\* nothing overtakes, what every row lacks is on its way.
MirrorInv == ExpenseInv /\ Typed /\ (orderly => Following)

\* It is.
LEMMA MirrorInductive ==
  ASSUME NoRowIsNoRecord, NoObjectIsNoRecord
  PROVE  Spec => []MirrorInv
<1>1. Init => MirrorInv
  BY RatesInit, BooksInit, MessagesInit, TableInit, FollowInit DEF MirrorInv, ExpenseInv
<1>2. MirrorInv /\ [Next]_vars => MirrorInv'
  <2> SUFFICES ASSUME MirrorInv, [Next]_vars PROVE MirrorInv'
    OBVIOUS
  <2>1. RatesInv /\ BooksOK /\ Messages /\ TableOK /\ Typed
    BY DEF MirrorInv, ExpenseInv
  <2>2. ExpenseInv'
    BY <2>1, RatesStep, BooksStep, MessagesStep, TableStep DEF ExpenseInv
  <2>3. Typed' /\ (orderly' => orderly)
    BY <2>1, TypedStep
  <2>4. ASSUME orderly' PROVE Following'
    <3>1. Following
      BY <2>3, <2>4 DEF MirrorInv
    <3> QED
      BY <2>1, <2>4, <3>1, FollowStep
  <2> QED
    BY <2>2, <2>3, <2>4 DEF MirrorInv
<1> QED
  BY <1>1, <1>2, PTL DEF Spec

\* A bill, purchase or payment of the books is a row with its amounts, status and
\* lines once everything is delivered, dead letters replayed included, and one that
\* was deleted or voided is none or voided: whatever changed how often meanwhile,
\* and however the requests of webhooks and backfills interleave.
THEOREM BooksAreMirrored ==
  ASSUME NoRowIsNoRecord, NoObjectIsNoRecord
  PROVE  Spec => []BooksMirrored
<1>1. MirrorInv => BooksMirrored
  <2> SUFFICES ASSUME MirrorInv, Quiet, orderly PROVE BooksMirrored
    BY DEF BooksMirrored
  <2>1. Following /\ Typed /\ BooksOK
    BY DEF MirrorInv, ExpenseInv
  <2> QED
    BY <2>1, MirroredAtRest
<1> QED
  BY <1>1, MirrorInductive, PTL

-----------------------------------------------------------------------------
(* What the lines are worth *)

\* RateKnown, of a table, currency and day.
Known(r, c, d) ==
  c \in {Base, Null} \/
  \A x \in Days : x <= d /\ Quote[c][x] # NoRate =>
    \E y \in Stored(r, c) : x <= y /\ y <= d

\* The stored days up to one.
UpTo(r, c, d) == {x \in Stored(r, c) : x <= d}

\* If there are any, there is a last one.
LEMMA LastKnown ==
  ASSUME NEW r, NEW c, NEW d, UpTo(r, c, d) # {}
  PROVE  /\ Max(UpTo(r, c, d)) \in UpTo(r, c, d)
         /\ \A x \in UpTo(r, c, d) : x <= Max(UpTo(r, c, d))
<1> DEFINE known == UpTo(r, c, d)
<1>1. known \in SUBSET Stored(r, c) /\ IsFiniteSet(Stored(r, c)) /\ Stored(r, c) \subseteq Int
  BY StoredDays DEF UpTo
<1> HIDE DEF known
<1>2. IsFiniteSet(known) /\ known \subseteq Int
  BY <1>1, FS_Subset
<1>3. PICK m \in known : \A n \in known : n <= m
  BY <1>2, Greatest DEF known
<1>4. \A n \in known : m >= n
  BY <1>2, <1>3
<1>5. Max(known) \in known /\ \A n \in known : Max(known) >= n
  BY <1>3, <1>4 DEF Max
<1>6. \A n \in known : n <= Max(known)
  BY <1>2, <1>5
<1> QED
  BY <1>5, <1>6 DEF known

\* What r knows of a day, s knows, and amounts of the day are worth the same.
Keeps(r, s) ==
  \A c \in Currencies \union {Base, Null} : \A d \in Days :
    Known(r, c, d) => /\ Known(s, c, d)
                      /\ \A amount : ToBase(s, amount, c, d) = ToBase(r, amount, c, d)

\* A synchronisation writes what is stored over itself, and no other day between
\* the last stored one and a day whose rate is known.
LEMMA SyncKeepsKnown ==
  ASSUME NEW r \in RateTable, FromFeed(r), NEW detected, NEW since, NEW until, NEW upTo,
         NEW failed
  PROVE  Keeps(r, Sync(r, detected, since, until, upTo, failed))
<1>0. PICK s : s = Sync(r, detected, since, until, upTo, failed)
  OBVIOUS
<1> SUFFICES ASSUME NEW c \in Currencies \union {Base, Null}, NEW d \in Days, Known(r, c, d)
             PROVE  /\ Known(s, c, d)
                    /\ \A amount : ToBase(s, amount, c, d) = ToBase(r, amount, c, d)
  BY <1>0 DEF Keeps
<1>1. CASE c \in {Base, Null}
  BY <1>1 DEF Known, ToBase
<1>2. CASE c \notin {Base, Null}
  <2>1. /\ \A x \in Stored(r, c) : s[c][x] = r[c][x]
        /\ \A x \in Stored(s, c) \ Stored(r, c) : Quote[c][x] # NoRate
    <3>1. \/ s[c] = r[c]
          \/ \A x \in Days : \/ s[c][x] = r[c][x]
                             \/ s[c][x] = Quote[c][x] /\ Quote[c][x] # NoRate
      BY <1>0, <1>2, SyncWrites
    <3>2. \A x \in Stored(r, c) : r[c][x] = Quote[c][x]
      BY <1>2 DEF FromFeed
    <3> QED
      BY <3>1, <3>2 DEF Stored
  <2>2. Stored(r, c) \subseteq Stored(s, c)
    BY <2>1 DEF Stored
  <2>3. Known(s, c, d)
    BY <1>2, <2>2 DEF Known
  <2>4. d \in Int /\ Stored(s, c) \subseteq Days /\ Stored(s, c) \subseteq Int
    BY DaysAreFinite DEF Stored
  <2>5. RateOn(s, c, d) = RateOn(r, c, d)
    <3>1. UpTo(r, c, d) \subseteq UpTo(s, c, d)
      BY <2>2 DEF UpTo
    <3>2. ASSUME NEW x \in UpTo(s, c, d) PROVE \E y \in UpTo(r, c, d) : x <= y
      <4>1. x \in Stored(s, c) /\ x <= d /\ x \in Days /\ x \in Int
        BY <2>4 DEF UpTo
      <4>2. CASE x \in Stored(r, c)
        BY <4>1, <4>2 DEF UpTo
      <4>3. CASE x \notin Stored(r, c)
        <5>1. PICK y \in Stored(r, c) : x <= y /\ y <= d
          BY <1>2, <2>1, <4>1, <4>3 DEF Known
        <5> QED
          BY <5>1 DEF UpTo
      <4> QED
        BY <4>2, <4>3
    <3>3. CASE UpTo(s, c, d) = {}
      <4>1. UpTo(r, c, d) = {}
        BY <3>1, <3>3
      <4> QED
        BY <3>3, <4>1 DEF RateOn, UpTo
    <3>4. CASE UpTo(s, c, d) # {}
      <4>1. PICK k, m : k = Max(UpTo(s, c, d)) /\ m = Max(UpTo(r, c, d))
        OBVIOUS
      <4>2. UpTo(r, c, d) # {}
        BY <3>2, <3>4
      <4>3. k \in UpTo(s, c, d) /\ \A x \in UpTo(s, c, d) : x <= k
        BY <3>4, <4>1, LastKnown
      <4>4. m \in UpTo(r, c, d) /\ \A x \in UpTo(r, c, d) : x <= m
        BY <4>1, <4>2, LastKnown
      <4>5. PICK y \in UpTo(r, c, d) : k <= y
        BY <3>2, <4>3
      <4>6. k \in Int /\ m \in Int /\ y \in Int /\ m \in Stored(r, c)
        BY <2>4, <3>1, <4>3, <4>4, <4>5 DEF UpTo
      <4>7. m <= k /\ y <= m
        BY <3>1, <4>3, <4>4, <4>5
      <4>8. k = m
        BY <4>5, <4>6, <4>7
      <4>9. s[c][k] = r[c][m]
        BY <2>1, <4>6, <4>8
      <4> QED
        BY <3>4, <4>1, <4>2, <4>9 DEF RateOn, UpTo
    <3> QED
      BY <3>3, <3>4
  <2> QED
    BY <2>3, <2>5 DEF ToBase
<1> QED
  BY <1>1, <1>2

\* The lines of a row can be summed up ...
Sums(row) ==
  /\ row.cur \in Currencies \union {Base, Null} /\ row.day \in Days
  /\ Weighs(BasesOf(row.lines), DOMAIN row.lines)

\* ... and are worth what their amounts are.
Valued(row, rs) ==
  /\ Known(rs, row.cur, row.day)
  /\ \A i \in DOMAIN row.lines :
       row.lines[i].base = ToBase(rs, row.lines[i].amount, row.cur, row.day)

\* Every row, unless it was converted too early.
RowsOK ==
  \A x \in Docs : db.doc[x] # NoRow =>
    /\ Sums(db.doc[x])
    /\ x \notin early => Valued(db.doc[x], rates)

\* That is how an upsert writes it.
LEMMA UpsertIsValued ==
  ASSUME NEW t, NEW rs \in RateTable, NEW e, e.type \in Upserts, AddsUp(e.p),
         ~Raises(rs, e), NEW old, NEW new, new = UpsertHeader(t, rs, e.p, old)
  PROVE  Sums(new) /\ (Known(rs, e.p.cur, e.p.day) => Valued(new, rs))
<1> DEFINE p == e.p
           S == DOMAIN p.lines
           A == {x \in Amounts(p) : x \in Int}
<1>1. /\ new.cur = p.cur /\ new.day = p.day
      /\ new.lines = [i \in S |-> Line(t, rs, p, p.lines[i])]
  BY DEF UpsertHeader, UpsertLines
<1>2. /\ p.cur \in Currencies \union {Base, Null} /\ p.day \in Days
      /\ Weighs(AmountsOf(p.lines), S)
  BY DEF AddsUp, Counts
<1>3. /\ DOMAIN new.lines = S
      /\ \A i \in S : /\ new.lines[i].amount = p.lines[i].amount
                      /\ new.lines[i].base = ToBase(rs, p.lines[i].amount, p.cur, p.day)
  BY <1>1 DEF Line
<1>4. IsFiniteSet(S) /\ \A i \in S : p.lines[i].amount \in A
  BY <1>2 DEF Weighs, AmountsOf, Amounts
<1>5. PICK r \in Nat : \A x \in A : ToBase(rs, x, p.cur, p.day) = Cut(x * r)
  <2>1. \A x \in A : ~RateMissing(rs, x, p.cur, p.day)
    BY DEF Raises
  <2>2. A \in SUBSET Int
    OBVIOUS
  <2> HIDE DEF A, p
  <2>3. PICK c, d : c = p.cur /\ d = p.day /\ c \in Currencies \union {Base, Null}
    BY <1>2
  <2>4. \A x \in A : ~RateMissing(rs, x, c, d)
    BY <2>1, <2>3
  <2>5. \E r \in Nat : \A x \in A : ToBase(rs, x, c, d) = Cut(x * r)
    BY <2>2, <2>3, <2>4, OneRate
  <2> QED
    BY <2>3, <2>5
<1>6. \A i \in S : new.lines[i].base \in Int
  <2>1. ASSUME NEW i \in S PROVE new.lines[i].base \in Int
    <3>1. PICK x \in A : x = p.lines[i].amount
      BY <1>4
    <3>2. new.lines[i].base = Cut(x * r)
      BY <1>3, <1>5, <3>1
    <3>3. x * r \in Int
      BY <3>1
    <3> QED
      BY <3>2, <3>3, CutOff
  <2> QED
    BY <2>1
<1> HIDE DEF S, A, p
<1>7. Sums(new)
  BY <1>1, <1>2, <1>3, <1>4, <1>6 DEF Sums, Weighs, BasesOf
<1>8. Known(rs, p.cur, p.day) => Valued(new, rs)
  BY <1>1, <1>3 DEF Valued
<1> QED
  BY <1>7, <1>8 DEF p

\* There are no rows at first.
LEMMA RowsInit == Init => RowsOK
BY DEF Init, NoTables, RowsOK

\* Handling an event keeps them so.
LEMMA RowsStore ==
  ASSUME NoRowIsNoRecord, RatesInv, TableOK, RowsOK, NEW m, Sound(m.e),
         ~Raises(rates, m.e), Store(m), rates' = rates
  PROVE  RowsOK'
<1>1. PICK e, t, u, rs : e = m.e /\ t = db /\ u = db' /\ rs = rates
  OBVIOUS
<1>2. u = Handle(t, rs, e) /\ HasDocs(t) /\ Sound(e) /\ ~Raises(rs, e) /\ rs \in RateTable
  BY <1>1 DEF Store, TableOK, RatesInv
<1>3. /\ \A x \in Docs : x # e.obj => u.doc[x] = t.doc[x]
      /\ e.obj \in Docs => IF e.type \in Upserts
                           THEN u.doc[e.obj] = UpsertHeader(t, rs, e.p, t.doc[e.obj])
                           ELSE Marked(e.type, t.doc[e.obj], u.doc[e.obj])
  BY <1>2, OneRowChanges
<1>4. /\ \A x : x # e.obj /\ x \notin early' => x \notin early
      /\ e.type \notin Upserts => early' = early
      /\ e.type \in Upserts /\ e.obj \notin early' => Known(rs, e.p.cur, e.p.day)
  BY <1>1 DEF Store, RateKnown, Known
<1>5. ASSUME NEW x \in Docs, u.doc[x] # NoRow
      PROVE  Sums(u.doc[x]) /\ (x \notin early' => Valued(u.doc[x], rs))
  <2>1. CASE x # e.obj
    BY <1>1, <1>3, <1>4, <1>5, <2>1 DEF RowsOK
  <2>2. CASE x = e.obj /\ e.type \in Upserts
    <3>1. AddsUp(e.p)
      BY <1>2, <2>2 DEF Sound
    <3>2. PICK new, old : new = u.doc[x] /\ old = t.doc[x] /\ new = UpsertHeader(t, rs, e.p, old)
      BY <1>3, <2>2
    <3>3. Sums(new) /\ (Known(rs, e.p.cur, e.p.day) => Valued(new, rs))
      BY <1>2, <2>2, <3>1, <3>2, UpsertIsValued
    <3> QED
      BY <1>4, <2>2, <3>2, <3>3
  <2>3. CASE x = e.obj /\ e.type \notin Upserts
    <3>1. PICK new, old, type : /\ new = u.doc[x] /\ old = t.doc[x] /\ type = e.type
                                /\ Marked(type, old, new)
      BY <1>3, <2>3
    <3>2. old # NoRow
      BY <1>5, <3>1 DEF Marked
    <3>3. RowFields \subseteq DOMAIN old
      BY <1>1, <3>1, <3>2 DEF TableOK, Tallies
    <3>4. new.lines = old.lines /\ new.cur = old.cur /\ new.day = old.day
      <4>1. Marked(type, old, new)
        BY <3>1
      <4> QED
        BY <3>2, <3>3, <4>1, MarkSets
    <3>5. Sums(old) /\ (x \notin early => Valued(old, rs))
      BY <1>1, <3>1, <3>2 DEF RowsOK
    <3> QED
      BY <1>4, <2>3, <3>1, <3>4, <3>5 DEF Sums, Valued
  <2> QED
    BY <2>1, <2>2, <2>3
<1> QED
  BY <1>1, <1>5 DEF RowsOK

\* A synchronisation keeps them so.
LEMMA RowsSync ==
  ASSUME RatesInv, RowsOK, SyncRates
  PROVE  RowsOK'
<1>1. PICK since, upTo, failed : rates' = Sync(rates, Detected, since, Today, upTo, failed)
  BY DEF SyncRates
<1>3. db' = db /\ early' = early
  BY DEF SyncRates, consumed
<1>4. Keeps(rates, rates')
  BY <1>1, SyncKeepsKnown DEF RatesInv
<1>5. PICK s : s = rates'
  OBVIOUS
<1>6. ASSUME NEW x \in Docs, db.doc[x] # NoRow, x \notin early PROVE Valued(db.doc[x], s)
  <2>1. PICK row : row = db.doc[x]
    OBVIOUS
  <2>2. Sums(row) /\ Valued(row, rates)
    BY <1>6, <2>1 DEF RowsOK
  <2>3. PICK c, d : c = row.cur /\ d = row.day
    OBVIOUS
  <2>4. c \in Currencies \union {Base, Null} /\ d \in Days /\ Known(rates, c, d)
    BY <2>2, <2>3 DEF Sums, Valued
  <2>5. Known(s, c, d) /\ \A amount : ToBase(s, amount, c, d) = ToBase(rates, amount, c, d)
    BY <1>4, <1>5, <2>4 DEF Keeps
  <2> QED
    BY <2>1, <2>2, <2>3, <2>5 DEF Valued
<1> QED
  BY <1>3, <1>5, <1>6 DEF RowsOK

\* Every step does.
LEMMA RowsStep ==
  ASSUME NoRowIsNoRecord, RatesInv, Messages, TableOK, RowsOK, [Next]_vars
  PROVE  RowsOK'
<1>1. ASSUME UNCHANGED <<db, early, rates>> PROVE RowsOK'
  BY <1>1 DEF RowsOK
<1>2. CASE Consume
  <2>1. PICK m : m = Head(topic)
    OBVIOUS
  <2>2. Sound(m.e) /\ rates' = rates
    BY <1>2, <2>1, Consumed DEF Consume, Messages, Batch
  <2>3. CASE Raises(rates, m.e)
    <3>1. UNCHANGED <<db, early>>
      BY <1>2, <2>1, <2>3 DEF Consume
    <3> QED
      BY <1>1, <2>2, <3>1
  <2>4. CASE ~Raises(rates, m.e)
    <3>1. Store(m)
      BY <1>2, <2>1, <2>4 DEF Consume
    <3> QED
      BY <2>2, <2>4, <3>1, RowsStore
  <2> QED
    BY <2>3, <2>4
<1>3. CASE \E m \in parked : Replay(m)
  <2>1. PICK m \in parked : Replay(m)
    BY <1>3
  <2>2. Sound(m.e) /\ ~Raises(rates, m.e) /\ Store(m) /\ rates' = rates
    BY <2>1 DEF Replay, Messages
  <2> QED
    BY <2>2, RowsStore
<1>4. CASE Books
  <2>1. UNCHANGED <<db, early, rates>>
    BY <1>4 DEF Books, Enter, Edit, Withdraw, Pay, ReversePayment, Notify, consumed
  <2> QED
    BY <1>1, <2>1
<1>5. CASE (\E i \in DOMAIN notices : Receive(i, FALSE) \/ Receive(i, TRUE))
           \/ (\E r \in DOMAIN requests : Publish(r))
  <2>1. UNCHANGED <<db, early, rates>>
    BY <1>5 DEF Receive, Publish, consumed
  <2> QED
    BY <1>1, <2>1
<1>6. CASE StartBackfill \/ FetchType \/ UNCHANGED vars
  <2>1. UNCHANGED <<db, early, rates>>
    BY <1>6 DEF StartBackfill, FetchType, consumed, vars
  <2> QED
    BY <1>1, <2>1
<1>7. CASE SyncRates
  BY <1>7, RowsSync
<1> QED
  BY <1>2, <1>3, <1>4, <1>5, <1>6, <1>7 DEF Next

-----------------------------------------------------------------------------
(* The sums of the expense queries *)

\* What a line is worth, by its document and its place in it.
BaseOf(L) == [l \in L |-> db.doc[l[1]].lines[l[2]].base]

\* The sum of lines of several documents is a sum over a finite set.
LEMMA CentsAre ==
  ASSUME NEW L
  PROVE  Cents(L) = SumOver(BaseOf(L), L)
<1> DEFINE Rec(h) == h = [T \in SUBSET L |-> IF T = {} THEN 0
                            ELSE db.doc[Chosen(T)[1]].lines[Chosen(T)[2]].base
                                   + h[T \ {Chosen(T)}]]
<1>1. Cents(L) = (CHOOSE h : Rec(h))[L]
  BY Zenon DEF Cents, MapThenSumSet, MapThenFoldSet, Chosen
<1>2. ASSUME NEW h PROVE Rec(h) <=> Iterates(h, BaseOf(L), L)
  <2>1. \A T \in SUBSET L : T # {} =>
          BaseOf(L)[Chosen(T)] = db.doc[Chosen(T)[1]].lines[Chosen(T)[2]].base
    BY DEF BaseOf, Chosen
  <2> QED
    BY <2>1 DEF Iterates
<1>3. (CHOOSE h : Rec(h)) = (CHOOSE h : Iterates(h, BaseOf(L), L))
  <2> HIDE DEF Rec
  <2> QED
    BY <1>2
<1> QED
  BY <1>1, <1>3 DEF SumOver

\* The sum of a breakdown's rows.
RowSum(rows) == MapThenSumSet(LAMBDA key : rows[key], DOMAIN rows)

\* It is a sum over a finite set, too.
LEMMA RowsAre ==
  ASSUME NEW rows
  PROVE  RowSum(rows) = SumOver(rows, DOMAIN rows)
<1> DEFINE S == DOMAIN rows
           Rec(h) == h = [T \in SUBSET S |-> IF T = {} THEN 0
                            ELSE rows[Chosen(T)] + h[T \ {Chosen(T)}]]
<1>1. RowSum(rows) = (CHOOSE h : Rec(h))[S]
  BY Zenon DEF RowSum, MapThenSumSet, MapThenFoldSet, Chosen
<1>2. ASSUME NEW h PROVE Rec(h) <=> Iterates(h, rows, S)
  BY DEF Iterates
<1>3. (CHOOSE h : Rec(h)) = (CHOOSE h : Iterates(h, rows, S))
  <2> HIDE DEF Rec
  <2> QED
    BY <1>2
<1> QED
  BY <1>1, <1>3 DEF SumOver

\* What each line of a document is worth at the rates rs.
WorthsOf(rs, lines, cur, day) ==
  [i \in DOMAIN lines |-> ToBase(rs, lines[i].amount, cur, day)]

\* The worth of a document of the books is such a sum.
LEMMA WorthsAre ==
  ASSUME NEW rs, NEW lines, NEW cur, NEW day
  PROVE  MapThenSumSet(LAMBDA i : ToBase(rs, lines[i].amount, cur, day), DOMAIN lines)
           = SumOver(WorthsOf(rs, lines, cur, day), DOMAIN lines)
<1> DEFINE S == DOMAIN lines
           Rec(h) == h = [T \in SUBSET S |-> IF T = {} THEN 0
                            ELSE ToBase(rs, lines[Chosen(T)].amount, cur, day)
                                   + h[T \ {Chosen(T)}]]
<1>1. MapThenSumSet(LAMBDA i : ToBase(rs, lines[i].amount, cur, day), S)
        = (CHOOSE h : Rec(h))[S]
  BY Zenon DEF MapThenSumSet, MapThenFoldSet, Chosen
<1>2. ASSUME NEW h PROVE Rec(h) <=> Iterates(h, WorthsOf(rs, lines, cur, day), S)
  <2>1. \A T \in SUBSET S : T # {} =>
          WorthsOf(rs, lines, cur, day)[Chosen(T)]
            = ToBase(rs, lines[Chosen(T)].amount, cur, day)
    BY DEF WorthsOf, Chosen
  <2> QED
    BY <2>1 DEF Iterates
<1>3. (CHOOSE h : Rec(h)) = (CHOOSE h : Iterates(h, WorthsOf(rs, lines, cur, day), S))
  <2> HIDE DEF Rec
  <2> QED
    BY <1>2
<1> QED
  BY <1>1, <1>3 DEF SumOver

\* The lines of one document, and of those that count in a window.
PlacesOf(x) == {<<x, i>> : i \in DOMAIN db.doc[x].lines}
Counting(from, to) ==
  {y \in Docs : db.doc[y] # NoRow /\ ~db.doc[y].voided /\ Day(y) \in from..to}

\* One document's lines are finitely many, and come to what its bases come to.
LEMMA PlacesWeigh ==
  ASSUME RowsOK, NEW x \in Docs, db.doc[x] # NoRow
  PROVE  /\ IsFiniteSet(PlacesOf(x))
         /\ \A l \in PlacesOf(x) : BaseOf(PlacesOf(x))[l] \in Int
         /\ SumOver(BaseOf(PlacesOf(x)), PlacesOf(x))
              = SumOver(BasesOf(db.doc[x].lines), DOMAIN db.doc[x].lines)
<1>1. PICK lines, w : lines = db.doc[x].lines /\ w = BaseOf(PlacesOf(x))
  OBVIOUS
<1>2. PICK S, f : S = DOMAIN lines /\ f = [i \in S |-> <<x, i>>]
  OBVIOUS
<1>3. Weighs(BasesOf(lines), S)
  BY <1>1, <1>2 DEF RowsOK, Sums
<1>4. PlacesOf(x) = {f[i] : i \in S}
  BY <1>1, <1>2 DEF PlacesOf
<1>5. \A i \in S : w[f[i]] = BasesOf(lines)[i] /\ BasesOf(lines)[i] \in Int
  <2>1. ASSUME NEW i \in S PROVE w[f[i]] = BasesOf(lines)[i]
    <3>1. f[i] = <<x, i>> /\ f[i] \in PlacesOf(x)
      BY <1>2, <1>4
    <3>2. w[f[i]] = db.doc[x].lines[i].base
      BY <1>1, <3>1 DEF BaseOf
    <3> QED
      BY <1>1, <1>2, <3>2 DEF BasesOf
  <2> QED
    BY <1>3, <2>1 DEF Weighs
<1>6. \A i, j \in S : f[i] = f[j] => i = j
  BY <1>2
<1>7. PICK v : v = BasesOf(lines)
  OBVIOUS
<1>8. IsFiniteSet(S) /\ \A i \in S : v[i] = w[f[i]] /\ v[i] \in Int
  BY <1>3, <1>5, <1>7 DEF Weighs
<1>9. SumOver(w, {f[i] : i \in S}) = SumOver(v, S) /\ IsFiniteSet({f[i] : i \in S})
  BY <1>6, <1>8, SumImage
<1> QED
  BY <1>1, <1>2, <1>4, <1>5, <1>7, <1>9

\* The lines that count in a window are finitely many ...
LEMMA LinesWeigh ==
  ASSUME RowsOK, NEW from, NEW to
  PROVE  /\ ExpenseLines(from, to) = UNION {PlacesOf(x) : x \in Counting(from, to)}
         /\ IsFiniteSet(Counting(from, to))
         /\ \A L \in SUBSET ExpenseLines(from, to) : Weighs(BaseOf(L), L)
<1>1. PICK D : D = Counting(from, to)
  OBVIOUS
<1>2. /\ D \in SUBSET Docs
      /\ \A x \in D : db.doc[x] # NoRow
  BY <1>1 DEF Counting
<1>3. IsFiniteSet(D)
  <2>1. Docs \in SUBSET Objects
    BY DEF Objects
  <2>2. IsFiniteSet(Docs)
    BY <2>1, ObjectsAssumption, FS_Subset
  <2> QED
    BY <1>2, <2>2, FS_Subset
<1>4. ExpenseLines(from, to) = UNION {PlacesOf(x) : x \in D}
  BY <1>1 DEF ExpenseLines, PlacesOf, Counting
<1>5. PICK f, T : f = [x \in D |-> PlacesOf(x)] /\ T = {PlacesOf(x) : x \in D}
  OBVIOUS
<1>6. IsFiniteSet(T)
  <2>1. f \in Surjection(D, T)
    BY <1>5 DEF Surjection
  <2> QED
    BY <1>3, <2>1, FS_Surjection
<1>7. \A t \in T : IsFiniteSet(t)
  BY <1>2, <1>5, PlacesWeigh
<1>8. PICK E : E = ExpenseLines(from, to)
  OBVIOUS
<1>9. IsFiniteSet(E) /\ E = UNION T
  BY <1>4, <1>5, <1>6, <1>7, <1>8, FS_UNION
<1>10. \A l \in E : db.doc[l[1]].lines[l[2]].base \in Int
  <2>1. ASSUME NEW l \in E PROVE db.doc[l[1]].lines[l[2]].base \in Int
    <3>1. PICK x \in D : l \in PlacesOf(x)
      BY <1>5, <1>9
    <3>2. BaseOf(PlacesOf(x))[l] \in Int
      BY <1>2, <3>1, PlacesWeigh
    <3> QED
      BY <3>1, <3>2 DEF BaseOf
  <2> QED
    BY <2>1
<1>11. ASSUME NEW L \in SUBSET E PROVE Weighs(BaseOf(L), L)
  <2>1. IsFiniteSet(L)
    BY <1>9, FS_Subset
  <2>2. \A l \in L : BaseOf(L)[l] \in Int
    BY <1>10 DEF BaseOf
  <2> QED
    BY <2>1, <2>2 DEF Weighs
<1> QED
  BY <1>1, <1>3, <1>4, <1>8, <1>11

\* A sum over some of the lines weighs each as a sum over all of them does.
LEMMA PartIsPart ==
  ASSUME NEW E, Weighs(BaseOf(E), E), NEW L \in SUBSET E
  PROVE  SumOver(BaseOf(L), L) = SumOver(BaseOf(E), L)
<1>1. IsFiniteSet(L)
  BY FS_Subset DEF Weighs
<1>2. PICK v, w : v = BaseOf(L) /\ w = BaseOf(E)
  OBVIOUS
<1>3. \A l \in L : v[l] = w[l] /\ w[l] \in Int
  BY <1>2 DEF BaseOf, Weighs
<1>4. SumOver(v, L) = SumOver(w, L)
  BY <1>1, <1>3, SumSame
<1> QED
  BY <1>2, <1>4

\* ... and their sum is that of the documents' sums.
LEMMA SumByDocument ==
  ASSUME RowsOK, NEW from, NEW to, NEW v,
         \A x \in Counting(from, to) :
           v[x] = SumOver(BasesOf(db.doc[x].lines), DOMAIN db.doc[x].lines)
  PROVE  Cents(ExpenseLines(from, to)) = SumOver(v, Counting(from, to))
<1>1. PICK E, D : E = ExpenseLines(from, to) /\ D = Counting(from, to)
  OBVIOUS
<1>2. /\ E = UNION {PlacesOf(x) : x \in D} /\ IsFiniteSet(D)
      /\ \A L \in SUBSET E : Weighs(BaseOf(L), L)
  BY <1>1, LinesWeigh
<1>3. PICK key, w : key = [l \in E |-> l[1]] /\ w = BaseOf(E)
  OBVIOUS
<1>4. \A x \in D : \A l \in PlacesOf(x) : l[1] = x
  BY DEF PlacesOf
<1>5. key \in [E -> D]
  BY <1>2, <1>3, <1>4
<1>6. \A x \in D : Group(E, key, x) = PlacesOf(x)
  BY <1>2, <1>3, <1>4 DEF Group
<1>7. Weighs(w, E)
  BY <1>2, <1>3
<1>8. ASSUME NEW x \in D PROVE v[x] = SumOver(w, Group(E, key, x))
  <2>1. x \in Docs /\ db.doc[x] # NoRow
    BY <1>1 DEF Counting
  <2>2. v[x] = SumOver(BaseOf(PlacesOf(x)), PlacesOf(x))
    BY <1>1, <2>1, PlacesWeigh
  <2>3. PICK L : L = PlacesOf(x)
    OBVIOUS
  <2>4. L \in SUBSET E
    BY <1>2, <2>3
  <2>5. SumOver(BaseOf(L), L) = SumOver(BaseOf(E), L)
    BY <1>3, <1>7, <2>4, PartIsPart
  <2> QED
    BY <1>3, <1>6, <2>2, <2>3, <2>5
<1>9. SumOver(w, E) = SumOver(v, D)
  BY <1>2, <1>5, <1>7, <1>8, SumParts
<1>10. Cents(E) = SumOver(w, E)
  BY <1>3, CentsAre
<1> QED
  BY <1>1, <1>9, <1>10

\* The rows of a breakdown of lines by a key.
Splits(rows, E, key) ==
  /\ key = [l \in E |-> key[l]]
  /\ DOMAIN rows = {key[l] : l \in E}
  /\ \A k \in DOMAIN rows : rows[k] = Cents(Group(E, key, k))

\* They add up to the sum of all the lines.
LEMMA Broken ==
  ASSUME NEW E, Weighs(BaseOf(E), E), NEW key, NEW rows, Splits(rows, E, key)
  PROVE  Cents(E) = SumOver(rows, DOMAIN rows)
<1>1. PICK K, w : K = DOMAIN rows /\ w = BaseOf(E)
  OBVIOUS
<1>2. IsFiniteSet(E)
  BY DEF Weighs
<1>3. key \in [E -> K] /\ key \in Surjection(E, K)
  BY <1>1 DEF Surjection, Splits
<1>4. IsFiniteSet(K)
  BY <1>2, <1>3, FS_Surjection
<1>5. ASSUME NEW k \in K PROVE rows[k] = SumOver(w, Group(E, key, k))
  <2>1. PICK L : L = Group(E, key, k)
    OBVIOUS
  <2>2. L \in SUBSET E
    BY <2>1 DEF Group
  <2>3. SumOver(BaseOf(L), L) = SumOver(BaseOf(E), L)
    BY <2>2, PartIsPart
  <2>4. Cents(L) = SumOver(BaseOf(L), L)
    BY CentsAre
  <2> QED
    BY <1>1, <2>1, <2>3, <2>4 DEF Splits
<1>6. SumOver(w, E) = SumOver(rows, K)
  BY <1>1, <1>3, <1>4, <1>5, SumParts
<1>7. Cents(E) = SumOver(w, E)
  BY <1>1, CentsAre
<1> QED
  BY <1>1, <1>6, <1>7

\* A line is in a window when its document counts there.
LEMMA LineIn ==
  ASSUME NEW a, NEW b, NEW l
  PROVE  l \in ExpenseLines(a, b) <=> l[1] \in Counting(a, b) /\ l \in PlacesOf(l[1])
<1>1. l \in ExpenseLines(a, b) <=> \E x \in Counting(a, b) : l \in PlacesOf(x)
  BY DEF ExpenseLines, Counting, PlacesOf
<1>2. \A x : l \in PlacesOf(x) => l[1] = x
  BY DEF PlacesOf
<1> QED
  BY <1>1, <1>2

\* The lines of a day are those of a window around it that fall on it.
LEMMA LinesOfDay ==
  ASSUME NEW a \in Int, NEW b \in Int, NEW d \in a..b
  PROVE  ExpenseLines(d, d) = {l \in ExpenseLines(a, b) : Day(l[1]) = d}
<1>1. d..d = {d} /\ d \in Int
  OBVIOUS
<1>2. \A x : x \in Counting(d, d) <=> x \in Counting(a, b) /\ Day(x) = d
  BY <1>1 DEF Counting
<1> QED
  BY <1>2, LineIn

\* The day and the account type of a line.
SlotOf(l) == <<Day(l[1]), AccountType(l)>>

\* Each breakdown of a window adds up to its total.
LEMMA BreakdownsAddUp ==
  ASSUME RowsOK, NEW from \in Int, NEW to \in Int,
         NEW type \in {"by_account_type", "by_vendor", "series"},
         NEW rows, rows = Ask(type, from, to)
  PROVE  Cents(ExpenseLines(from, to)) = SumOver(rows, DOMAIN rows)
<1>1. PICK E : E = ExpenseLines(from, to)
  OBVIOUS
<1>2. Weighs(BaseOf(E), E)
  <2>1. E \in SUBSET ExpenseLines(from, to)
    BY <1>1
  <2> QED
    BY <2>1, LinesWeigh
<1>3. CASE type = "by_account_type"
  <2>1. PICK key : key = [l \in E |-> AccountType(l)]
    OBVIOUS
  <2>2. rows = [t \in {AccountType(l) : l \in E} |-> ByAccountType(t, from, to)]
    BY Zenon, <1>1, <1>3 DEF Ask
  <2>3. DOMAIN rows = {key[l] : l \in E} /\ key = [l \in E |-> key[l]]
    BY <2>1, <2>2
  <2>4. ASSUME NEW k \in DOMAIN rows PROVE rows[k] = Cents(Group(E, key, k))
    <3>1. Group(E, key, k) = {l \in E : AccountType(l) = k}
      BY <2>1 DEF Group
    <3>2. rows[k] = ByAccountType(k, from, to)
      BY <2>2, <2>4
    <3> QED
      BY <1>1, <3>1, <3>2 DEF ByAccountType
  <2>5. Cents(E) = SumOver(rows, DOMAIN rows)
    BY <1>2, <2>3, <2>4, Broken DEF Splits
  <2> QED
    BY <1>1, <2>5
<1>4. CASE type = "by_vendor"
  <2>1. PICK key : key = [l \in E |-> db.doc[l[1]].vendor]
    OBVIOUS
  <2>2. rows = [v \in {db.doc[l[1]].vendor : l \in E} |-> ByVendor(v, from, to)]
    BY Zenon, <1>1, <1>4 DEF Ask
  <2>3. DOMAIN rows = {key[l] : l \in E} /\ key = [l \in E |-> key[l]]
    BY <2>1, <2>2
  <2>4. ASSUME NEW k \in DOMAIN rows PROVE rows[k] = Cents(Group(E, key, k))
    <3>1. Group(E, key, k) = {l \in E : db.doc[l[1]].vendor = k}
      BY <2>1 DEF Group
    <3>2. rows[k] = ByVendor(k, from, to)
      BY <2>2, <2>4
    <3> QED
      BY <1>1, <3>1, <3>2 DEF ByVendor
  <2>5. Cents(E) = SumOver(rows, DOMAIN rows)
    BY <1>2, <2>3, <2>4, Broken DEF Splits
  <2> QED
    BY <1>1, <2>5
<1>5. CASE type = "series"
  <2>1. PICK key : key = [l \in E |-> SlotOf(l)]
    OBVIOUS
  <2>2. rows = Series(from, to)
    BY Zenon, <1>5 DEF Ask
  <2>3. /\ DOMAIN rows = {SlotOf(l) : l \in E}
        /\ \A k \in DOMAIN rows :
             rows[k] = Cents({l \in ExpenseLines(k[1], k[1]) : AccountType(l) = k[2]})
    BY <1>1, <2>2 DEF Series, SlotOf
  <2>4. DOMAIN rows = {key[l] : l \in E} /\ key = [l \in E |-> key[l]]
    BY <2>1, <2>3
  <2>5. ASSUME NEW k \in DOMAIN rows PROVE rows[k] = Cents(Group(E, key, k))
    <3>1. PICK m \in E : k = SlotOf(m)
      BY <2>3, <2>5
    <3>2. PICK d : d = Day(m[1])
      OBVIOUS
    <3>3. d \in from..to /\ k[1] = d
      <4>1. m[1] \in Counting(from, to)
        BY <1>1, <3>1, LineIn
      <4> QED
        BY <3>1, <3>2, <4>1 DEF Counting, SlotOf
    <3>4. ExpenseLines(d, d) = {l \in E : Day(l[1]) = d}
      BY <1>1, <3>3, LinesOfDay
    <3>5. \A l : SlotOf(l) = k <=> Day(l[1]) = d /\ AccountType(l) = k[2]
      BY <3>1, <3>2 DEF SlotOf
    <3>6. Group(E, key, k) = {l \in ExpenseLines(d, d) : AccountType(l) = k[2]}
      BY <2>1, <3>4, <3>5 DEF Group
    <3> QED
      BY <2>3, <2>5, <3>3, <3>6
  <2>6. Cents(E) = SumOver(rows, DOMAIN rows)
    BY <1>2, <2>4, <2>5, Broken DEF Splits
  <2> QED
    BY <1>1, <2>6
<1> QED
  BY <1>3, <1>4, <1>5

\* The worth of a document of the books, and of several.
WorthOf(x) ==
  LET lines == Qbo!ExpenseLines(books[x])
  IN  MapThenSumSet(LAMBDA i : ToBase(rates, lines[i].amount, books[x].cur, books[x].day),
                    DOMAIN lines)

\* The latter is a sum over a finite set, too.
LEMMA WorthAre ==
  ASSUME NEW S
  PROVE  MapThenSumSet(WorthOf, S) = SumOver([x \in S |-> WorthOf(x)], S)
<1> DEFINE w == [x \in S |-> WorthOf(x)]
           Rec(h) == h = [T \in SUBSET S |-> IF T = {} THEN 0
                            ELSE WorthOf(Chosen(T)) + h[T \ {Chosen(T)}]]
<1>1. MapThenSumSet(WorthOf, S) = (CHOOSE h : Rec(h))[S]
  BY Zenon DEF MapThenSumSet, MapThenFoldSet, Chosen
<1>2. ASSUME NEW h PROVE Rec(h) <=> Iterates(h, w, S)
  <2>1. \A T \in SUBSET S : T # {} => w[Chosen(T)] = WorthOf(Chosen(T))
    BY DEF Chosen
  <2> QED
    BY <2>1 DEF Iterates
<1>3. (CHOOSE h : Rec(h)) = (CHOOSE h : Iterates(h, w, S))
  <2> HIDE DEF Rec, w
  <2> QED
    BY <1>2
<1> QED
  BY <1>1, <1>3 DEF SumOver

\* A row that mirrors a document, and was converted at rates known since, is worth
\* what the document is.
LEMMA WorthMirrored ==
  ASSUME RowsOK, NEW x \in Docs, x \notin early, Mirrors(db.doc[x], x, books[x])
  PROVE  SumOver(BasesOf(db.doc[x].lines), DOMAIN db.doc[x].lines) = WorthOf(x)
<1>1. PICK row, o, lines, rs :
        row = db.doc[x] /\ o = books[x] /\ lines = Qbo!ExpenseLines(o) /\ rs = rates
  OBVIOUS
<1>2. /\ row # NoRow /\ row.cur = o.cur /\ row.day = o.day
      /\ AmountsOf(row.lines) = AmountsOf(lines)
  BY <1>1 DEF Mirrors
<1>3. Valued(row, rs)
  BY <1>1, <1>2 DEF RowsOK
<1>4. DOMAIN row.lines = DOMAIN lines
  BY <1>2 DEF AmountsOf
<1>5. \A i \in DOMAIN lines : row.lines[i].amount = lines[i].amount
  <2>1. ASSUME NEW i \in DOMAIN lines PROVE row.lines[i].amount = lines[i].amount
    <3>1. AmountsOf(row.lines)[i] = AmountsOf(lines)[i]
      BY <1>2
    <3> QED
      BY <1>4, <3>1 DEF AmountsOf
  <2> QED
    BY <2>1
<1>6. \A i \in DOMAIN lines : row.lines[i].base = ToBase(rs, lines[i].amount, o.cur, o.day)
  BY <1>2, <1>3, <1>4, <1>5 DEF Valued
<1>7. BasesOf(row.lines) = WorthsOf(rs, lines, o.cur, o.day)
  BY <1>4, <1>6 DEF BasesOf, WorthsOf
<1>8. WorthOf(x) = SumOver(WorthsOf(rs, lines, o.cur, o.day), DOMAIN lines)
  BY ZenonT(40), <1>1, WorthsAre DEF WorthOf
<1> QED
  BY <1>1, <1>4, <1>7, <1>8

\* Every day is between the first and the last.
LEMMA FirstAndLast ==
  ASSUME NEW d \in Days
  PROVE  /\ Min(Days) \in Days /\ Max(Days) \in Days
         /\ d \in Min(Days)..Max(Days)
<1>1. IsFiniteSet(Days) /\ Days \subseteq Int /\ Days # {}
  BY DaysAreFinite
<1>2. Min(Days) \in Days /\ \A x \in Days : Min(Days) <= x
  <2>1. \E m \in Days : \A x \in Days : m <= x
    BY <1>1, Least
  <2> QED
    BY <2>1 DEF Min
<1>3. Max(Days) \in Days /\ \A x \in Days : x <= Max(Days)
  <2>1. PICK m \in Days : \A x \in Days : x <= m
    BY <1>1, Greatest
  <2>2. \A x \in Days : m >= x
    BY <1>1, <2>1
  <2>3. Max(Days) \in Days /\ \A x \in Days : Max(Days) >= x
    BY <2>2 DEF Max
  <2> QED
    BY <1>1, <2>3
<1>4. PICK a, b : a = Min(Days) /\ b = Max(Days)
  OBVIOUS
<1>5. a \in Int /\ b \in Int /\ d \in Int /\ a <= d /\ d <= b
  BY <1>1, <1>2, <1>3, <1>4
<1> QED
  BY <1>2, <1>3, <1>4, <1>5

\* At rest the total of all days is what the books are worth.
LEMMA TotalAtRest ==
  ASSUME Following, Typed, RowsOK, Quiet, early = {}, \A x \in Docs : Told(x)
  PROVE  TotalOf(Min(Days), Max(Days))
           = MapThenSumSet(WorthOf, {x \in Docs : books[x] # NoObject})
<1>1. PICK D, B, a, b : /\ D = Counting(a, b) /\ B = {x \in Docs : books[x] # NoObject}
                        /\ a = Min(Days) /\ b = Max(Days)
  OBVIOUS
<1>2. ASSUME NEW x \in Docs, books[x] # NoObject
      PROVE  Mirrors(db.doc[x], x, books[x]) /\ x \in D
  <2>1. x \in Traced /\ Row(x) = db.doc[x]
    BY DEF Traced, Row, RowIn
  <2>2. Mirrors(db.doc[x], x, books[x]) /\ db.doc[x].voided = FALSE
    BY <1>2, <2>1, Resting
  <2>3. db.doc[x] # NoRow
    BY <2>2 DEF Mirrors
  <2>4. Day(x) \in Days
    BY <2>3 DEF RowsOK, Sums, Day
  <2>5. Day(x) \in a..b
    BY <1>1, <2>4, FirstAndLast
  <2> QED
    BY <1>1, <2>2, <2>3, <2>5 DEF Counting
<1>3. ASSUME NEW x \in Docs, books[x] = NoObject PROVE x \notin D
  <2>1. x \in Traced /\ Row(x) = db.doc[x]
    BY DEF Traced, Row, RowIn
  <2>2. db.doc[x] = NoRow \/ db.doc[x].voided = TRUE
    BY <1>3, <2>1, Resting
  <2> QED
    BY <1>1, <2>2 DEF Counting
<1>4. D \subseteq Docs
  BY <1>1 DEF Counting
<1>5. D = B
  BY <1>1, <1>2, <1>3, <1>4
<1>6. PICK v : v = [x \in B |-> WorthOf(x)]
  OBVIOUS
<1>7. ASSUME NEW x \in Counting(a, b)
      PROVE  v[x] = SumOver(BasesOf(db.doc[x].lines), DOMAIN db.doc[x].lines)
  <2>1. x \in B /\ x \in Docs /\ Mirrors(db.doc[x], x, books[x])
    BY <1>1, <1>2, <1>5
  <2> QED
    BY <1>6, <2>1, WorthMirrored
<1>8. Cents(ExpenseLines(a, b)) = SumOver(v, Counting(a, b))
  BY <1>7, SumByDocument
<1>9. MapThenSumSet(WorthOf, B) = SumOver(v, B)
  BY Zenon, <1>6, WorthAre
<1>10. TotalOf(a, b) = MapThenSumSet(WorthOf, B)
  BY <1>1, <1>5, <1>8, <1>9 DEF TotalOf
<1> QED
  BY Zenon, <1>1, <1>10

\* The query type behind each breakdown's route.
TypeOf(route) ==
  IF route = "expenses/by_account_type" THEN "by_account_type"
  ELSE IF route = "expenses/by_vendor" THEN "by_vendor" ELSE "series"

\* The window that an end left out, or one given, stands for.
Opening(start) == IF start = Null THEN Min(Days) ELSE start
Closing(end) == IF end = Null THEN Max(Days) ELSE end

LEMMA Answers ==
  ASSUME NEW start, NEW end
  PROVE  /\ GetExpenses("expenses", start, end) = TotalOf(Opening(start), Closing(end))
         /\ \A route \in Breakdowns :
              /\ TypeOf(route) \in {"by_account_type", "by_vendor", "series"}
              /\ GetExpenses(route, start, end)
                   = Ask(TypeOf(route), Opening(start), Closing(end))
<1>1. PICK a, b : a = Opening(start) /\ b = Closing(end)
  OBVIOUS
<1>2. GetExpenses("expenses", start, end) = Ask("total", a, b)
  BY Zenon, <1>1 DEF GetExpenses, Opening, Closing
<1>3. Ask("total", a, b) = TotalOf(a, b)
  BY Zenon DEF Ask
<1>4. ASSUME NEW route \in Breakdowns
      PROVE  /\ TypeOf(route) \in {"by_account_type", "by_vendor", "series"}
             /\ GetExpenses(route, start, end) = Ask(TypeOf(route), a, b)
  <2>1. CASE route = "expenses/by_account_type"
    BY Zenon, <1>1, <2>1 DEF GetExpenses, Opening, Closing, TypeOf
  <2>2. CASE route = "expenses/by_vendor"
    BY Zenon, <1>1, <2>2 DEF GetExpenses, Opening, Closing, TypeOf
  <2>3. CASE route = "expenses/series"
    BY Zenon, <1>1, <2>3 DEF GetExpenses, Opening, Closing, TypeOf
  <2> QED
    BY <2>1, <2>2, <2>3 DEF Breakdowns
<1> QED
  BY <1>1, <1>2, <1>3, <1>4

\* The breakdown of a window adds up to the window's total.
LEMMA RowsAddUp ==
  ASSUME RowsOK, NEW from \in Days, NEW to \in Days, NEW route \in Breakdowns,
         NEW rows, rows = GetExpenses(route, from, to)
  PROVE  GetExpenses("expenses", from, to) = SumOver(rows, DOMAIN rows)
<1>1. PICK a, b : a = Opening(from) /\ b = Closing(to)
  OBVIOUS
<1>2. a \in Int /\ b \in Int
  <2>1. Min(Days) \in Days /\ Max(Days) \in Days
    BY FirstAndLast
  <2> QED
    BY <1>1, <2>1, DaysAreFinite DEF Opening, Closing
<1>3. PICK type \in {"by_account_type", "by_vendor", "series"} : rows = Ask(type, a, b)
  BY <1>1, Answers
<1>4. Cents(ExpenseLines(a, b)) = SumOver(rows, DOMAIN rows)
  BY <1>2, <1>3, BreakdownsAddUp
<1>5. GetExpenses("expenses", from, to) = TotalOf(a, b)
  BY <1>1, Answers
<1> QED
  BY <1>4, <1>5 DEF TotalOf

\* Once everything is delivered, the metric's total is the worth of the books at
\* the present rates, unless a document was handled before those of its day were
\* there; and each breakdown of any window adds up to the window's total.
THEOREM ExpensesFollowTheBooks ==
  ASSUME NoRowIsNoRecord, NoObjectIsNoRecord
  PROVE  Spec => []ExpensesAreTheBooks
<1>1. Init => RowsOK
  BY RowsInit
<1>2. RowsOK /\ MirrorInv /\ [Next]_vars => RowsOK'
  BY RowsStep DEF MirrorInv, ExpenseInv
<1>3. RowsOK /\ MirrorInv => ExpensesAreTheBooks
  <2> SUFFICES ASSUME RowsOK, MirrorInv, Quiet, orderly, early = {},
                      \A x \in Docs : Told(x)
               PROVE  /\ GetExpenses("expenses", Null, Null)
                           = MapThenSumSet(WorthOf, {x \in Docs : books[x] # NoObject})
                      /\ \A from, to \in Days : \A route \in Breakdowns :
                           GetExpenses("expenses", from, to)
                             = RowSum(GetExpenses(route, from, to))
    BY Zenon DEF ExpensesAreTheBooks, WorthOf, RowSum
  <2>1. GetExpenses("expenses", Null, Null)
          = MapThenSumSet(WorthOf, {x \in Docs : books[x] # NoObject})
    <3>1. GetExpenses("expenses", Null, Null) = TotalOf(Min(Days), Max(Days))
      BY Answers DEF Opening, Closing
    <3>2. Following /\ Typed
      BY DEF MirrorInv
    <3>3. TotalOf(Min(Days), Max(Days))
            = MapThenSumSet(WorthOf, {x \in Docs : books[x] # NoObject})
      BY <3>2, TotalAtRest
    <3> QED
      BY Zenon, <3>1, <3>3
  <2>2. ASSUME NEW from \in Days, NEW to \in Days, NEW route \in Breakdowns
        PROVE  GetExpenses("expenses", from, to) = RowSum(GetExpenses(route, from, to))
    <3>1. PICK rows : rows = GetExpenses(route, from, to)
      OBVIOUS
    <3>2. GetExpenses("expenses", from, to) = SumOver(rows, DOMAIN rows)
      BY <3>1, RowsAddUp
    <3> QED
      BY <3>1, <3>2, RowsAre
  <2> QED
    BY Zenon, <2>1, <2>2
<1> QED
  BY <1>1, <1>2, <1>3, MirrorInductive, PTL DEF Spec

=============================================================================
