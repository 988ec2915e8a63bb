--------------------------- MODULE ExpensePipeline ---------------------------
(***************************************************************************)
(* The expense side end to end: a QuickBooks company changes its books,    *)
(* QuickBooks sends webhooks that only name what changed                   *)
(* (connectors/quickbooks/routes.py), each request fetches the object and  *)
(* publishes its events, the state consumer handles the company's          *)
(* partition in order and sets aside what has no exchange rate, and the    *)
(* rates are synchronised beside it.  The expenses metric reads the rows.  *)
(*                                                                         *)
(* Requests run concurrently: between the fetch and the publication of one *)
(* request another may fetch and publish.                                  *)
(***************************************************************************)
EXTENDS PayablesState, SequencesExt

CONSTANTS
  Contents,      \* what a bill or purchase may hold, of the books' objects
  FirstBooks,    \* the books when the company is connected
  Detected,      \* currencies of the revenue side's rows
  NoObject,      \* an object that is not in the books
  Today,         \* the day of the changes
  MaxChanges,    \* bound on the changes of the books and the days for --since
  MaxRequests,   \* bound on the requests served at a time
  MaxBackfills,  \* bound on backfills
  MaxFaults      \* bound on failed fetches and overtakings

ASSUME BoundsAssumption ==
  /\ MaxChanges \in Nat
  /\ MaxRequests \in Nat
  /\ MaxBackfills \in Nat
  /\ MaxFaults \in Nat
  /\ NoObject # Null
  /\ Today \in Nat

Qbo == INSTANCE QuickBooksConnector

\* In the books the lines with an account add up to the amount before tax.
IsDocument(o) ==
  LET lines == Qbo!ExpenseLines(o)
  IN  /\ o = [f \in DOMAIN o |-> o[f]]
      /\ {"entity", "cur", "total", "tax", "balance", "day", "lines"} \subseteq DOMAIN o
      /\ o.cur \in Currencies \union {Base, Null} /\ o.day \in Days
      /\ o.total \in Int /\ o.tax \in Int /\ o.balance \in Int
      /\ IsFiniteSet(DOMAIN lines) /\ \A i \in DOMAIN lines : lines[i].amount \in Int
      /\ MapThenSumSet(LAMBDA i : lines[i].amount, DOMAIN lines) =
           IF o.total > o.tax THEN o.total - o.tax ELSE 0

ASSUME BooksAssumption ==
  /\ FirstBooks = [x \in Objects |-> FirstBooks[x]]
  /\ \A x \in Docs : \A c \in Contents[x] : IsDocument(c)
  /\ \A x \in Docs : FirstBooks[x] # NoObject => IsDocument(FirstBooks[x])
  /\ \A m \in Payments : FirstBooks[m] # NoObject =>
       /\ FirstBooks[m].total \in Int
       /\ \E b \in Bills : /\ FirstBooks[b] # NoObject
                         /\ Head(FirstBooks[m].linked).id = b

NameOf(x) ==
  CASE x \in Vendors -> "Vendor" [] x \in Accounts -> "Account"
    [] x \in Bills -> "Bill" [] x \in Expenses -> "Purchase"
    [] x \in Payments -> "BillPayment"

VARIABLES
  books,     \* the company's objects
  version,   \* the version of each, an object that never was included
  notices,   \* the webhooks to come, in the order of the changes
  requests,  \* the requests in flight and the events each has left to publish,
             \* oldest first; an event is kept with the version it was read at
  backfill,  \* the entity types a backfill has still to fetch
  topic,     \* the company's partition from the state consumer's offset on
  parked,    \* dead letters: the first payload set aside under each Event.id
  db, rates,
  sinces,    \* the days that runs of fx-sync --since began with
  seen,      \* the version of the last event handled for each object
  orderly,   \* FALSE after anything that may let an older read win
  early,     \* the documents converted before the rates of their day were known
  voids,     \* the documents whose voiding found a row
  spent      \* changes and faults so far

vars == <<books, version, notices, requests, backfill, topic, parked, db,
          rates, sinces, seen, orderly, early, voids, spent>>
booksVars == <<books, version>>
consumed == <<db, parked, seen, early, voids>>

EventId(e) == <<e.type, e.obj>>
BackfillOrder == <<"Vendor", "Account", "Bill", "Purchase", "BillPayment">>

Init ==
  /\ books = FirstBooks
  /\ version = [x \in Objects |-> 1]
  /\ notices = <<>> /\ requests = <<>> /\ backfill = <<>> /\ topic = <<>>
  /\ parked = {}
  /\ db = NoTables
  /\ rates \in {EmptyRates} \union
       {Sync(EmptyRates, Detected, Null, d, d, {}) : d \in {x \in Days : x < Today}}
  /\ sinces = {}
  /\ seen = [x \in Objects |-> 0]
  /\ orderly = TRUE
  /\ early = {}
  /\ voids = {}
  /\ spent = [changes |-> 0, backfills |-> 0, faults |-> 0]

Fault == /\ spent.faults < MaxFaults
         /\ spent' = [spent EXCEPT !.faults = @ + 1]

-----------------------------------------------------------------------------
(* The company's books (external) *)

\* xs: the changed objects, each with the operation QuickBooks reports.
Notify(xs) ==
  /\ spent.changes + Cardinality(sinces) < MaxChanges
  /\ spent' = [spent EXCEPT !.changes = @ + 1]
  /\ notices' = notices \o xs
  /\ version' = [x \in Objects |->
                   IF \E i \in DOMAIN xs : xs[i].obj = x
                   THEN version[x] + 1 ELSE version[x]]
  /\ UNCHANGED <<requests, backfill, topic, orderly, consumed, rates, sinces>>
Notice(x, op) == [obj |-> x, op |-> op]

PaymentsOf(b) == {m \in Payments : /\ books[m] # NoObject
                                   /\ Head(books[m].linked).id = b}

Enter(x) ==
  /\ books[x] = NoObject /\ version[x] = 1
  /\ \E c \in Contents[x] : c.day <= Today /\ books' = [books EXCEPT ![x] = c]
  /\ Notify(<<Notice(x, "Create")>>)

Edit(x) ==
  /\ books[x] # NoObject
  /\ x \in Bills => PaymentsOf(x) = {}
  /\ \E c \in Contents[x] \ {books[x]} :
       c.day <= Today /\ books' = [books EXCEPT ![x] = c]
  /\ Notify(<<Notice(x, "Update")>>)

\* A payment changes the balance of its bill.
Pay(b, m) ==
  /\ books[b] # NoObject /\ books[m] = NoObject /\ version[m] = 1
  /\ \E amount \in {books[b].balance, books[b].balance \div 2} \ {0} :
       books' = [books EXCEPT
         ![m] = [linked |-> <<[type |-> "Bill", id |-> b]>>, total |-> amount,
                 cur |-> books[b].cur, day |-> Today],
         ![b].balance = @ - amount]
  /\ Notify(<<Notice(m, "Create"), Notice(b, "Update")>>)

ReversePayment(m) ==
  /\ books[m] # NoObject
  /\ LET b == Head(books[m].linked).id
     IN  /\ books' = [books EXCEPT ![m] = NoObject,
                                   ![b].balance = @ + books[m].total]
         /\ Notify(<<Notice(m, "Void"), Notice(b, "Update")>>)

\* A bill that was paid stays, and a vendor that a document names.
Withdraw(x) ==
  /\ books[x] # NoObject
  /\ x \in Bills => PaymentsOf(x) = {}
  /\ x \in Vendors => \A d \in Docs : books[d] = NoObject
  /\ books' = [books EXCEPT ![x] = NoObject]
  /\ Notify(<<Notice(x, IF x \in Vendors THEN "Delete" ELSE "Void")>>)

Books ==
  \/ \E x \in Docs : Enter(x) \/ Edit(x) \/ Withdraw(x)
  \/ \E b \in Bills, m \in Payments : Pay(b, m)
  \/ \E m \in Payments : ReversePayment(m)
  \/ \E v \in Vendors : Withdraw(v)

-----------------------------------------------------------------------------
(* Ingestion *)

Read(x, events) == [i \in DOMAIN events |-> [e |-> events[i], ver |-> version[x]]]
Serve(from, batch) ==
  requests' = IF batch = <<>> THEN requests
              ELSE Append(requests, [from |-> from, left |-> batch])

\* receive_quickbooks_webhook up to the return of fetch_and_translate.  When
\* QuickBooks answers the fetch with an error (failed), the object is skipped and
\* the response is 200: there is no second webhook.  When it does not answer, the
\* request ends with a 500 and has changed nothing: the notice is still to come.
Receive(i, failed) ==
  LET n == notices[i]
      object == IF failed THEN NoObject ELSE books[n.obj]
  IN  /\ Len(requests) < MaxRequests
      /\ Serve("webhook", Read(n.obj,
           Qbo!FetchAndTranslate(NameOf(n.obj), n.obj, n.op, object)))
      /\ notices' = RemoveAt(notices, i)
      /\ IF i > 1 \/ failed THEN Fault /\ orderly' = FALSE
                            ELSE UNCHANGED <<spent, orderly>>
      /\ UNCHANGED <<booksVars, backfill, topic, consumed, rates, sinces>>

\* tidemill backfill: one entity type after the other.
StartBackfill ==
  /\ backfill = <<>>
  /\ backfill' = BackfillOrder
  /\ spent.backfills < MaxBackfills
  /\ spent' = [spent EXCEPT !.backfills = @ + 1]
  /\ UNCHANGED <<booksVars, notices, requests, topic, orderly, consumed, rates, sinces>>

\* The objects of one type are read by one query and published one by one,
\* before the next type is read.
FetchType ==
  LET there == SetToSeq({x \in Objects : NameOf(x) = Head(backfill) /\ books[x] # NoObject})
      events(x) == Qbo!TranslateEntity(Head(backfill), x, books[x], FALSE)
  IN  /\ backfill # <<>>
      /\ \A i \in DOMAIN requests : requests[i].from = "webhook"
      /\ Serve("backfill",
               FlattenSeq([i \in DOMAIN there |-> Read(there[i], events(there[i]))]))
      /\ backfill' = Tail(backfill)
      /\ UNCHANGED <<booksVars, notices, topic, orderly, spent, consumed, rates, sinces>>

\* publish_many of one request.  Out of turn when an older request has not
\* published all of its events.
Publish(r) ==
  /\ topic' = Append(topic, Head(requests[r].left))
  /\ requests' = IF Len(requests[r].left) = 1 THEN RemoveAt(requests, r)
                 ELSE [requests EXCEPT ![r].left = Tail(@)]
  /\ IF r > 1 THEN Fault /\ orderly' = FALSE ELSE UNCHANGED <<spent, orderly>>
  /\ UNCHANGED <<booksVars, notices, backfill, consumed, rates, sinces>>

-----------------------------------------------------------------------------
(* The state consumer and replays *)

\* No later synchronisation changes the rate of the payload's day: no quoted day
\* up to it is missing after the last stored one.
RateKnown(p) ==
  p.cur \in {Base, Null} \/
  \A d \in Days : d <= p.day /\ Quote[p.cur][d] # NoRate =>
    \E x \in Stored(rates, p.cur) : d <= x /\ x <= p.day

Store(m) ==
  /\ db' = Handle(db, rates, m.e)
  /\ seen' = [seen EXCEPT ![m.e.obj] = m.ver]
  /\ early' = IF m.e.type \notin Upserts THEN early
              ELSE IF RateKnown(m.e.p) THEN early \ {m.e.obj}
              ELSE early \union {m.e.obj}
  /\ voids' = IF m.e.type \in {"bill.voided", "expense.voided"} /\ db.doc[m.e.obj] # NoRow
              THEN voids \union {m.e.obj} ELSE voids

\* A dead letter with the Event.id of one that waits already is not kept.
Consume ==
  /\ topic # <<>>
  /\ topic' = Tail(topic)
  /\ LET m == Head(topic)
         known == \E q \in parked : EventId(q.e) = EventId(m.e)
     IN  IF Raises(rates, m.e)
         THEN /\ parked' = IF known THEN parked ELSE parked \union {m}
              /\ orderly' = (orderly /\ ~known)
              /\ UNCHANGED <<db, seen, early, voids>>
         ELSE Store(m) /\ UNCHANGED <<parked, orderly>>
  /\ UNCHANGED <<booksVars, notices, requests, backfill, spent, rates, sinces>>

\* tidemill dead-letters replay, of one that succeeds.
Replay(m) ==
  /\ ~Raises(rates, m.e)
  /\ Store(m)
  /\ parked' = parked \ {m}
  /\ orderly' = (orderly /\ seen[m.e.obj] < m.ver)
  /\ UNCHANGED <<booksVars, notices, requests, backfill, topic, spent, rates, sinces>>

-----------------------------------------------------------------------------
(* Exchange rates.  One day: the rates start as the synchronisation of an *)
(* earlier day, or none, left them.                                       *)

\* One round of run_periodic_fx_sync or tidemill fx-sync, which may be given a
\* day to start from; the feed may not have today's rate yet.
SyncRates ==
  \E since \in {d \in Days : d <= Today} \union {Null}, upTo \in {Today - 1, Today} :
    \E failed \in SUBSET Buckets(rates, Detected, since, Today) :
      /\ rates' = Sync(rates, Detected, since, Today, upTo, failed)
      /\ rates' # rates
      /\ sinces' = sinces \union ({since} \ ({Null} \union failed))
      /\ spent.changes + Cardinality(sinces') <= MaxChanges
      /\ UNCHANGED <<booksVars, notices, requests, backfill, topic, orderly,
                     spent, consumed>>

Next ==
  \/ Books
  \/ \E i \in DOMAIN notices : Receive(i, FALSE) \/ Receive(i, TRUE)
  \/ StartBackfill \/ FetchType
  \/ \E r \in DOMAIN requests : Publish(r)
  \/ Consume
  \/ \E m \in parked : Replay(m)
  \/ SyncRates

Spec == Init /\ [][Next]_vars

-----------------------------------------------------------------------------
(* The expenses metric: _EXPENSE_LINES_CTE and its queries *)

Day(x) == db.doc[x].day
ExpenseLines(from, to) ==
  UNION {{<<x, i>> : i \in DOMAIN db.doc[x].lines} :
           x \in {y \in Docs : /\ db.doc[y] # NoRow /\ ~db.doc[y].voided
                               /\ Day(y) \in from..to}}
Cents(L) == MapThenSumSet(LAMBDA l : db.doc[l[1]].lines[l[2]].base, L)

AccountType(l) ==
  LET account == db.doc[l[1]].lines[l[2]].account
  IN  IF account = Null THEN "unknown" ELSE db.account[account].type

\* Mutant of TotalOf: voided bills are told by their status.
TotalOfStatus(from, to) ==
  Cents(UNION {{<<x, i>> : i \in DOMAIN db.doc[x].lines} :
           x \in {y \in Docs : /\ db.doc[y] # NoRow /\ db.doc[y].kind # "voided"
                               /\ Day(y) \in from..to}})

TotalOf(from, to) == Cents(ExpenseLines(from, to))
ByAccountType(type, from, to) ==
  Cents({l \in ExpenseLines(from, to) : AccountType(l) = type})
ByVendor(vendor, from, to) ==
  Cents({l \in ExpenseLines(from, to) : db.doc[l[1]].vendor = vendor})

\* By day and account type.
Series(from, to) ==
  [key \in {<<Day(l[1]), AccountType(l)>> : l \in ExpenseLines(from, to)} |->
     Cents({l \in ExpenseLines(key[1], key[1]) : AccountType(l) = key[2]})]

\* query, by the query type that each route has; a breakdown has a row for each
\* key of a line.
Ask(type, from, to) ==
  LET lines == ExpenseLines(from, to)
  IN  CASE type = "total" -> TotalOf(from, to)
        [] type = "by_account_type" ->
             [t \in {AccountType(l) : l \in lines} |-> ByAccountType(t, from, to)]
        [] type = "by_vendor" ->
             [v \in {db.doc[l[1]].vendor : l \in lines} |-> ByVendor(v, from, to)]
        [] type = "series" -> Series(from, to)

\* /metrics/expenses may leave out either end of its window.
GetExpenses(route, start, end) ==
  Ask(CASE route = "expenses" -> "total"
        [] route = "expenses/by_account_type" -> "by_account_type"
        [] route = "expenses/by_vendor" -> "by_vendor"
        [] route = "expenses/series" -> "series",
      IF start = Null THEN Min(Days) ELSE start,
      IF end = Null THEN Max(Days) ELSE end)

-----------------------------------------------------------------------------
(* Properties *)

\* A bill or purchase whose voiding found its row never counts again, whatever
\* older read of it is published, replayed or backfilled afterwards.
VoidedStaysOut == \A x \in voids : \A l \in ExpenseLines(Min(Days), Max(Days)) : l[1] # x

\* Header and lines are of one version and converted at one rate: the lines add
\* up to the header's amount before tax; in the base currency, where each amount
\* is cut to a cent by itself, they miss it by less than a cent for each line.
LinesAddUp ==
  \A x \in Docs : db.doc[x] # NoRow =>
    LET row == db.doc[x]
        sum == MapThenSumSet(LAMBDA i : row.lines[i].amount, DOMAIN row.lines)
        worth == MapThenSumSet(LAMBDA i : row.lines[i].base, DOMAIN row.lines)
        n == Cardinality(DOMAIN row.lines)
    IN  /\ row.amount.sub = sum
        /\ row.base.sub = worth \/ row.base.sub - worth \in (1 - n)..(n - 1)

Quiet == notices = <<>> /\ requests = <<>> /\ backfill = <<>> /\ topic = <<>> /\ parked = {}

DocMatches(x) ==
  LET row == db.doc[x]
  IN  IF books[x] = NoObject THEN row = NoRow \/ row.voided
      ELSE /\ row # NoRow
           /\ ~row.voided
           /\ row.amount.total = books[x].total
           /\ [i \in DOMAIN row.lines |-> row.lines[i].amount]
                = [i \in DOMAIN Qbo!ExpenseLines(books[x]) |->
                     Qbo!ExpenseLines(books[x])[i].amount]
           /\ x \in Bills =>
                /\ row.kind = "open" <=> /\ books[x].balance > 0
                                         /\ books[x].balance >= books[x].total
                /\ row.kind = "paid" <=> books[x].balance <= 0
                /\ row.kind = "paid" => row.paid

\* Once everything is delivered, the rows are the books: unless a fetch failed,
\* a request overtook another, or a dead letter was replayed after (or dropped
\* because of) another event of its object.  What was in the books before the
\* company was connected is there after a backfill, or after its next change.
Told(x) == version[x] > 1 \/ books[x] = NoObject \/ spent.backfills > 0
BooksMirrored ==
  Quiet /\ orderly =>
    /\ \A x \in Docs : Told(x) => DocMatches(x)
    /\ \A m \in Payments : Told(m) =>
         /\ (db.payment[m] = NoRow) <=> (books[m] = NoObject)
         /\ books[m] # NoObject => db.payment[m].amount = books[m].total

\* ... and then the metric's total is what the books say at the present knowledge
\* of the rates, unless a document was handled before the rates of its day were
\* fetched; each breakdown of any window adds up to the window's total.
Breakdowns == {"expenses/by_account_type", "expenses/by_vendor", "expenses/series"}
ExpensesAreTheBooks ==
  LET worth(x) == LET lines == Qbo!ExpenseLines(books[x])
                  IN  MapThenSumSet(LAMBDA i : ToBase(rates, lines[i].amount, books[x].cur,
                                                      books[x].day), DOMAIN lines)
      total(from, to) == GetExpenses("expenses", from, to)
      sum(route, from, to) == LET rows == GetExpenses(route, from, to)
                              IN  MapThenSumSet(LAMBDA key : rows[key], DOMAIN rows)
  IN  Quiet /\ orderly /\ early = {} /\ (\A x \in Docs : Told(x)) =>
        /\ total(Null, Null) = MapThenSumSet(worth, {x \in Docs : books[x] # NoObject})
        /\ \A from, to \in Days : \A route \in Breakdowns :
             total(from, to) = sum(route, from, to)

\* A quoted day missing between two stored ones: the next synchronisation starts
\* after the last stored day and never fetches it.
Gaps(c) ==
  {d \in Days : /\ Quote[c][d] # NoRate /\ rates[c][d] = NoRate
               /\ \E a, b \in Stored(rates, c) : a < d /\ d < b}

\* Only fx-sync --since leaves a gap, whichever requests failed and however late
\* the feed was: everything from the missing day up to the day that one of these
\* runs began with is missing, and a run that began on the day or before it has
\* filled the gap.
OnlySinceLeavesGaps ==
  \A c \in Currencies \intersect Targets(Detected) : \A d \in Gaps(c) :
    /\ \E s \in sinces : d < s /\ \A x \in d..(s - 1) : rates[c][x] = NoRate
    /\ \A s \in sinces : d < s
=============================================================================
