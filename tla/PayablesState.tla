---------------------------- MODULE PayablesState ----------------------------
(***************************************************************************)
(* The state consumer's handlers for the expense side (tidemill/state.py): *)
(* the tables vendor, account, bill, bill_line, expense, expense_line and  *)
(* bill_payment.  A handler is an operator from the tables, the exchange   *)
(* rates and an event to the tables after its transaction; Raises says     *)
(* when the transaction is rolled back and the event dead-lettered.        *)
(*                                                                         *)
(* A bill and an expense have rows of one shape; kind is bill.status or    *)
(* expense.payment_type, and paid stays FALSE in an expense.               *)
(***************************************************************************)
EXTENDS FxRates, Sequences

CONSTANTS Vendors, Accounts, Bills, Expenses, Payments, NoRow

Docs == Bills \union Expenses
Objects == Vendors \union Accounts \union Docs \union Payments

ASSUME ObjectsAssumption ==
  /\ IsFiniteSet(Objects)
  /\ Vendors \intersect (Accounts \union Docs \union Payments) = {}
  /\ Accounts \intersect (Docs \union Payments) = {}
  /\ Bills \intersect Expenses = {}
  /\ Docs \intersect Payments = {}

NoTables ==
  [vendor |-> [v \in Vendors |-> NoRow], account |-> [a \in Accounts |-> NoRow],
   doc |-> [x \in Docs |-> NoRow], payment |-> [x \in Payments |-> NoRow]]

\* (SELECT id FROM ... WHERE external_id = ...): NULL when there is no row.
Lookup(table, x) == IF x \in DOMAIN table /\ table[x] # NoRow THEN x ELSE Null
Coalesce(new, old) == IF new = Null THEN old ELSE new

-----------------------------------------------------------------------------
(* Vendors and accounts *)

\* A vendor is never deleted, a bill may refer to it.
HandleVendor(t, e) ==
  IF e.type = "vendor.deleted"
  THEN [t EXCEPT !.vendor[e.obj] =
          IF @ = NoRow THEN NoRow ELSE [@ EXCEPT !.active = FALSE]]
  ELSE [t EXCEPT !.vendor[e.obj] = [active |-> e.p.active]]

HandleAccount(t, e) == [t EXCEPT !.account[e.obj] = [type |-> e.p.type]]

-----------------------------------------------------------------------------
(* Bills and expenses *)

Amounts(p) == {p.sub, p.tax, p.total} \union {p.lines[i].amount : i \in DOMAIN p.lines}

Line(t, rates, p, l) ==
  [account |-> Lookup(t.account, l.account), amount |-> l.amount,
   base |-> ToBase(rates, l.amount, p.cur, p.day)]

\* Mutant of UpsertLines: the old lines stay, as an upsert without the DELETE
\* would leave them.
UpsertLinesKeep(t, rates, p, old) ==
  (IF old = NoRow THEN <<>> ELSE old.lines)
    \o [i \in DOMAIN p.lines |-> Line(t, rates, p, p.lines[i])]

\* _upsert_lines: DELETE, then INSERT what the payload has.
UpsertLines(t, rates, p, old) ==
  [i \in DOMAIN p.lines |-> Line(t, rates, p, p.lines[i])]

\* Mutant of Kept: the conflict rewrites the whole row.
KeptNothing(old) == [paid |-> FALSE, voided |-> FALSE]

\* The columns that the conflict clause does not name.
Kept(old) ==
  IF old = NoRow THEN [paid |-> FALSE, voided |-> FALSE]
  ELSE [paid |-> old.paid, voided |-> old.voided]

\* INSERT ... ON CONFLICT: everything is overwritten except the dates of
\* payment and voiding; the vendor is kept when the new one is unknown.
UpsertHeader(t, rates, p, old) ==
  LET vendor == Lookup(t.vendor, p.vendor)
      base(amount) == ToBase(rates, amount, p.cur, p.day)
  IN  [vendor |-> IF old = NoRow THEN vendor ELSE Coalesce(vendor, old.vendor),
       kind |-> p.kind,
       amount |-> [sub |-> p.sub, tax |-> p.tax, total |-> p.total],
       base |-> [sub |-> base(p.sub), tax |-> base(p.tax), total |-> base(p.total)],
       cur |-> p.cur, day |-> p.day,
       lines |-> UpsertLines(t, rates, p, old),
       paid |-> Kept(old).paid, voided |-> Kept(old).voided]

\* Payment and voiding only change a row that is there.
BillPaid(t, e) ==
  [t EXCEPT !.doc[e.obj] =
     IF @ = NoRow THEN NoRow ELSE [@ EXCEPT !.kind = "paid", !.paid = TRUE]]
BillVoided(t, e) ==
  [t EXCEPT !.doc[e.obj] =
     IF @ = NoRow THEN NoRow ELSE [@ EXCEPT !.kind = "voided", !.voided = TRUE]]
ExpenseVoided(t, e) ==
  [t EXCEPT !.doc[e.obj] =
     IF @ = NoRow THEN NoRow ELSE [@ EXCEPT !.voided = TRUE]]

Upserts == {"bill.created", "bill.updated", "expense.created", "expense.updated"}

HandleDoc(t, rates, e) ==
  CASE e.type \in Upserts ->
         [t EXCEPT !.doc[e.obj] = UpsertHeader(t, rates, e.p, @)]
    [] e.type = "bill.paid" -> BillPaid(t, e)
    [] e.type = "bill.voided" -> BillVoided(t, e)
    [] e.type = "expense.voided" -> ExpenseVoided(t, e)

\* A payment keeps the bill it was linked to when the new one is unknown.
HandlePayment(t, rates, e) ==
  IF e.type = "bill_payment.deleted" THEN [t EXCEPT !.payment[e.obj] = NoRow]
  ELSE LET bill == IF e.p.bill \in Bills THEN Lookup(t.doc, e.p.bill) ELSE Null
       IN  [t EXCEPT !.payment[e.obj] =
              [bill |-> IF @ = NoRow THEN bill ELSE Coalesce(bill, @.bill),
               amount |-> e.p.amount,
               base |-> ToBase(rates, e.p.amount, e.p.cur, e.p.day)]]

-----------------------------------------------------------------------------
(* Dispatch *)

Raises(rates, e) ==
  \/ /\ e.type \in Upserts
     /\ \E x \in Amounts(e.p) : RateMissing(rates, x, e.p.cur, e.p.day)
  \/ /\ e.type = "bill_payment.created"
     /\ RateMissing(rates, e.p.amount, e.p.cur, e.p.day)

Handle(t, rates, e) ==
  CASE e.obj \in Vendors -> HandleVendor(t, e)
    [] e.obj \in Accounts -> HandleAccount(t, e)
    [] e.obj \in Docs -> HandleDoc(t, rates, e)
    [] e.obj \in Payments -> HandlePayment(t, rates, e)
=============================================================================
