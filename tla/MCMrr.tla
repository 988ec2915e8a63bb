-------------------------------- MODULE MCMrr --------------------------------
(* Small instances of MrrMetric for TLC. *)
EXTENDS MrrMetric, TLC

CONSTANTS s1, s2, c1, i1, i2

MCCustomerOf == [s \in {s1, s2} |-> c1]
MCSubOf == [i \in Invoices |-> s1]
MCMonthOf == (i1 :> 1) @@ (i2 :> 2)
MCUsageOf == (i1 :> 2) @@ (i2 :> 3)
MCRateAt == [d \in 0..MaxClock |-> 1]
=============================================================================
