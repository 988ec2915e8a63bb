------------------------------ MODULE MCReports ------------------------------
(* A small instance of Reports for TLC. *)
EXTENDS Reports, TLC

CONSTANTS s1, s2, s3, c1, c2, stripe, chargebee

MCCustomerOf == (s1 :> c1) @@ (s2 :> c1) @@ (s3 :> c2)
MCSourceOf == (c1 :> stripe) @@ (c2 :> chargebee)
\* The first subscription is paused and resumed, the second becomes cheaper and
\* is canceled ahead, in either order, and the third does neither.
Simple == {"created", "activated", "churned"}
MCHappens ==
  (s1 :> Simple \union {"paused", "resumed"})
    @@ (s2 :> Simple \union {"changed", "canceled"}) @@ (s3 :> Simple)
MCFirstPrice == (s1 :> 1) @@ (s2 :> 3) @@ (s3 :> 1)
=============================================================================
