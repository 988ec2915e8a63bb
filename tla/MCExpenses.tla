----------------------------- MODULE MCExpenses -----------------------------
(* A bill in a foreign currency and a purchase, edited, paid and voided. *)
EXTENDS ExpensePipeline

CONSTANTS v1, a1, b1, x1, m1, none, missing, gone

MCDays == 1..3
MCQuote == [c \in {"EUR"} |-> [d \in MCDays |-> IF d = 3 THEN 5 ELSE 3]]

\* amounts: of the lines with an account; the sub-total has none.
Doc(cur, amounts, tax, day, entity, account) ==
  LET total == tax + FoldSeq(LAMBDA a, b : a + b, 0, amounts)
  IN  [entity |-> [type |-> entity, id |-> v1], payment |-> "Cash", cur |-> cur,
       total |-> total, tax |-> tax, balance |-> total, day |-> day,
       lines |-> [i \in DOMAIN amounts |->
                    [detail |-> "account", account |-> account, amount |-> amounts[i]]]
                 \o <<[detail |-> "other", account |-> missing, amount |-> total]>>]
MCContents ==
  [x \in {b1, x1} |->
     IF x = b1 THEN {Doc("EUR", <<4>>, 0, 1, "Vendor", a1),
                     Doc("EUR", <<1, 3>>, 2, 3, "Vendor", a1)}
     ELSE {Doc("USD", <<8>>, 0, 2, "Employee", missing)}]
MCFirstBooks ==
  [x \in {v1, a1, b1, x1, m1} |->
     CASE x = v1 -> [active |-> TRUE] [] x = a1 -> [type |-> "Cost of Goods Sold"]
       [] x = b1 -> Doc("EUR", <<4>>, 0, 1, "Vendor", a1) [] OTHER -> gone]
=============================================================================
