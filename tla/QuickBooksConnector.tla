------------------------- MODULE QuickBooksConnector -------------------------
(***************************************************************************)
(* The QuickBooks Online connector (connectors/quickbooks/connector.py):   *)
(* what an entity fetched from the company's books becomes as events.  A   *)
(* webhook carries names and ids only, so translate itself returns [].     *)
(*                                                                         *)
(* Amounts are whole cents (_to_cents), days stand for dates and times.    *)
(***************************************************************************)
EXTENDS Integers, Sequences, SequencesExt

CONSTANTS
  Null,       \* a missing field
  NoObject    \* what get_entity returns for an object that is gone

\* _make_event: Event.id hashes the type and the object.
Make(type, obj, p) == [type |-> type, obj |-> obj, p |-> p]

\* _QBO_ACCOUNT_TYPE_MAP
NormalizeAccountType(native) ==
  CASE native \in {"Expense", "Other Expense"} -> "expense"
    [] native = "Cost of Goods Sold" -> "cogs"
    [] native \in {"Income", "Other Income"} -> "income"
    [] native \in {"Bank", "Accounts Receivable", "Other Current Asset",
                   "Fixed Asset", "Other Asset"} -> "asset"
    [] native \in {"Accounts Payable", "Credit Card", "Long Term Liability",
                   "Other Current Liability"} -> "liability"
    [] native = "Equity" -> "equity"
    [] OTHER -> "other"

NormalizePaymentType(native) ==
  CASE native = "Cash" -> "cash" [] native = "Check" -> "check"
    [] native = "CreditCard" -> "credit_card" [] OTHER -> "other"

\* _compute_bill_status: QBO has no status field.
BillStatus(o) ==
  IF o.balance <= 0 THEN "paid"
  ELSE IF o.balance < o.total THEN "partial" ELSE "open"

\* Lines without an account (sub-totals, descriptions) are left out.
ExpenseLines(o) ==
  LET kept == SelectSeq(o.lines, LAMBDA l : l.detail # "other")
  IN  [i \in DOMAIN kept |-> [account |-> kept[i].account, amount |-> kept[i].amount]]

DocPayload(o, vendor, kind) ==
  [vendor |-> vendor, kind |-> kind, cur |-> o.cur,
   sub |-> IF o.total > o.tax THEN o.total - o.tax ELSE 0,
   tax |-> o.tax, total |-> o.total, day |-> o.day, lines |-> ExpenseLines(o)]

-----------------------------------------------------------------------------
(* _translate_entity; update tells a notification's operation "Update" from *)
(* the others and from a backfill                                           *)

TranslateVendor(x, o, update) ==
  <<Make(IF update THEN "vendor.updated" ELSE "vendor.created", x,
         [active |-> o.active])>>

TranslateAccount(x, o, update) ==
  <<Make(IF update THEN "account.updated" ELSE "account.created", x,
         [type |-> NormalizeAccountType(o.type)])>>

\* A paid bill is two events.
TranslateBill(x, o, update) ==
  <<Make(IF update THEN "bill.updated" ELSE "bill.created", x,
         DocPayload(o, o.entity.id, BillStatus(o)))>>
    \o IF BillStatus(o) = "paid" THEN <<Make("bill.paid", x, Null)>> ELSE <<>>

\* Only a vendor is linked; the counterparty of a purchase may be another.
TranslatePurchase(x, o, update) ==
  <<Make(IF update THEN "expense.updated" ELSE "expense.created", x,
         DocPayload(o, IF o.entity.type = "Vendor" THEN o.entity.id ELSE Null,
                    NormalizePaymentType(o.payment)))>>

\* A payment is always "created"; the first bill it is linked to counts.
TranslateBillPayment(x, o) ==
  LET bills == SelectSeq(o.linked, LAMBDA l : l.type = "Bill")
  IN  <<Make("bill_payment.created", x,
             [bill |-> IF bills = <<>> THEN Null ELSE Head(bills).id,
              amount |-> o.total, cur |-> o.cur, day |-> o.day])>>

TranslateEntity(name, x, o, update) ==
  CASE name = "Vendor" -> TranslateVendor(x, o, update)
    [] name = "Account" -> TranslateAccount(x, o, update)
    [] name = "Bill" -> TranslateBill(x, o, update)
    [] name = "Purchase" -> TranslatePurchase(x, o, update)
    [] name = "BillPayment" -> TranslateBillPayment(x, o)
    [] OTHER -> <<>>

\* _build_delete_events: nothing for an account.
BuildDelete(name, x) ==
  CASE name = "Vendor" -> <<Make("vendor.deleted", x, Null)>>
    [] name = "Bill" -> <<Make("bill.voided", x, Null)>>
    [] name = "Purchase" -> <<Make("expense.voided", x, Null)>>
    [] name = "BillPayment" -> <<Make("bill_payment.deleted", x, Null)>>
    [] OTHER -> <<>>

\* Mutant of FetchAndTranslate: a voided object is fetched like any other.
FetchVoided(name, x, op, o) ==
  IF o = NoObject THEN <<>> ELSE TranslateEntity(name, x, o, op = "Update")

\* fetch_and_translate, for one entity of a notification: o is what the API
\* returned, NoObject when the request failed too.
FetchAndTranslate(name, x, op, o) ==
  IF op \in {"Delete", "Void"} THEN BuildDelete(name, x)
  ELSE IF o = NoObject THEN <<>>
  ELSE TranslateEntity(name, x, o, op = "Update")
=============================================================================
