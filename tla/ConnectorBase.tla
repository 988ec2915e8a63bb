---------------------------- MODULE ConnectorBase ----------------------------
(***************************************************************************)
(* What the connectors share (tidemill/connectors/base.py): the canonical  *)
(* vocabulary of the state tables and the monthly worth of a price.        *)
(***************************************************************************)
EXTENDS Integers

CanonicalIntervals == {"day", "week", "month", "year"}
CanonicalSubscriptionStatuses ==
  {"active", "trialing", "pending_payment", "paused", "canceled"}
CanonicalInvoiceStatuses == {"draft", "open", "paid", "void", "uncollectible"}
CanonicalLineKinds == {"subscription", "usage", "addon", "proration", "tax",
                       "discount", "credit", "other"}
CanonicalPaymentStatuses == {"pending", "succeeded", "failed", "refunded"}
CanonicalNoteStatuses == {"issued", "void"}

\* compute_mrr_cents: what amount per count intervals is worth per month.
ComputeMrr(amount, interval, count, quantity) ==
  LET total == amount * quantity
  IN  CASE interval = "month" -> total \div count
        [] interval = "year" -> total \div (12 * count)
        [] interval = "week" -> (total * 52) \div (12 * count)
        [] interval = "day" -> (total * 365) \div (12 * count)
        [] OTHER -> 0
=============================================================================
