----------------------------- MODULE TrialMetric -----------------------------
(***************************************************************************)
(* The trials metric (tidemill/metrics/trials/metric.py): one row per      *)
(* subscription that entered a trial, and an audit log.  Its events may be *)
(* handled in any order and more than once: a webhook, its retries, a      *)
(* replay under another partition and a backfill each bring the outcome    *)
(* before the start, or the same fact under another date.                  *)
(***************************************************************************)
EXTENDS TrialUpsert

CONSTANTS
  Subs, Times,
  TrialEvents \* what may be delivered: [type, sub, at] records

TrialTypes == {"started", "converted", "expired"}
TrialEvent == [type : TrialTypes, sub : Subs, at : Times]

\* A trial's outcome is not dated before any of its starts.
TrialsAssumption ==
  /\ Times \subseteq Nat
  /\ Null \notin Times
  /\ NoRow \notin [started : Times, converted : Times \union {Null},
                   expired : Times \union {Null}]
  /\ TrialEvents \subseteq TrialEvent
  /\ \A a, b \in TrialEvents :
       a.sub = b.sub /\ a.type = "started" /\ b.type # "started" => a.at <= b.at
ASSUME TrialsAssumption

VARIABLES
  row,     \* metric_trial
  audit,   \* metric_trial_event: event_id to occurred_at
  told     \* the events handled so far

vars == <<row, audit, told>>

TrialRow == [started : Times, converted : Times \union {Null},
             expired : Times \union {Null}]

-----------------------------------------------------------------------------
\* Event.id names the type and the subscription.
AuditId(e) == <<e.type, e.sub>>
Ids == TrialTypes \X Subs

Init ==
  /\ row = [s \in Subs |-> NoRow]
  /\ audit = [x \in Ids |-> Null]
  /\ told = {}

\* handle_event, of an event that may have been handled before.
Handle(e) ==
  /\ audit' = [audit EXCEPT ![AuditId(e)] = First(@, e.at)]
  /\ row' = [row EXCEPT ![e.sub] = HandleTrial(@, e.type, e.at)]
  /\ told' = told \union {e}

Next == \E e \in TrialEvents : Handle(e)

Spec == Init /\ [][Next]_vars

-----------------------------------------------------------------------------
Of(s, type) == {e \in told : e.sub = s /\ e.type = type}

\* The tables hold rows.
TypeOK ==
  /\ row \in [Subs -> TrialRow \union {NoRow}]
  /\ audit \in [Ids -> Times \union {Null}]
  /\ told \subseteq TrialEvents

\* Whatever the order: once a start has been handled, the trial's start is the
\* earliest one handled, a placeholder made by an outcome included.
StartIsEarliest ==
  \A s \in Subs : Of(s, "started") # {} =>
    /\ row[s] # NoRow
    /\ \E e \in Of(s, "started") : row[s].started = e.at
    /\ \A e \in Of(s, "started") : row[s].started <= e.at

\* The row and the audit log, written one after the other, tell the same: the
\* row has an outcome iff the log has, with the same date.
AuditAgrees ==
  \A s \in Subs :
    /\ (row[s] = NoRow) <=> (\A t \in TrialTypes : audit[<<t, s>>] = Null)
    /\ row[s] # NoRow =>
         /\ row[s].converted = audit[<<"converted", s>>]
         /\ row[s].expired = audit[<<"expired", s>>]
=============================================================================
