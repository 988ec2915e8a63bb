------------------------------- MODULE MCChurn -------------------------------
(* Small instances of ChurnMetric for TLC. *)
EXTENDS ChurnMetric

CONSTANTS s1, s2, c1

MCCustomerOf == [s \in {s1, s2} |-> c1]
=============================================================================
