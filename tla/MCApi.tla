------------------------------- MODULE MCApi -------------------------------
(* Two clients and one company; two users with two requests at a time; two  *)
(* subscriptions.  A client works for a request: they share their names.     *)
EXTENDS ApiProcess, TLC

Symmetry ==
  UNION {Permutations(S) : S \in {Requests, Users, DashboardIds}}
=============================================================================
