----------------------------- MODULE TrialUpsert -----------------------------
(***************************************************************************)
(* What one trial event does to the row of its subscription in             *)
(* metric_trial (TrialsMetric._upsert_trial, metrics/trials/metric.py).    *)
(***************************************************************************)
EXTENDS Integers

CONSTANTS NoRow, Null   \* an absent row, an SQL NULL

Earlier(a, b) == IF a <= b THEN a ELSE b
First(old, new) == IF old = Null THEN new ELSE old   \* COALESCE

\* Mutant of StartTrial: the last start that is handled stays.
StartTrialLast(r, at) ==
  IF r = NoRow THEN [started |-> at, converted |-> Null, expired |-> Null]
  ELSE [r EXCEPT !.started = at]

\* started: LEAST of the starts.
StartTrial(r, at) ==
  IF r = NoRow THEN [started |-> at, converted |-> Null, expired |-> Null]
  ELSE [r EXCEPT !.started = Earlier(@, at)]

\* Mutant of EndTrial: an outcome is noted only where there is a row.
EndTrialUpdate(r, type, at) ==
  IF r = NoRow THEN r
  ELSE IF type = "converted" THEN [r EXCEPT !.converted = First(@, at)]
  ELSE [r EXCEPT !.expired = First(@, at)]

\* converted, expired: the first one handled stays; without a row, a
\* placeholder whose start is the outcome's date.
EndTrial(r, type, at) ==
  LET old == IF r = NoRow THEN [started |-> at, converted |-> Null, expired |-> Null]
             ELSE r
  IN  IF type = "converted" THEN [old EXCEPT !.converted = First(@, at)]
      ELSE [old EXCEPT !.expired = First(@, at)]

HandleTrial(r, type, at) ==
  IF type = "started" THEN StartTrial(r, at) ELSE EndTrial(r, type, at)
=============================================================================
