------------------------------ MODULE MCBilling ------------------------------
(* Small instances of BillingPipeline. *)
EXTENDS BillingPipeline

MCRate == "eur" :> 2
=============================================================================
