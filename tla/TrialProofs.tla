----------------------------- MODULE TrialProofs -----------------------------
(***************************************************************************)
(* Proofs about the trials metric, for every set of subscriptions, dates   *)
(* and events, in whatever order and how often they are handled.           *)
(***************************************************************************)
EXTENDS TrialMetric, TLAPS

\* What one event makes of a row, in one line per column.
LEMMA HandleTrialRow ==
  ASSUME TrialsAssumption,
         NEW r \in TrialRow \union {NoRow}, NEW e \in TrialEvent
  PROVE  LET new == HandleTrial(r, e.type, e.at)
         IN  /\ new \in TrialRow
             /\ new # NoRow
             /\ new.started = IF r = NoRow THEN e.at
                              ELSE IF e.type = "started" THEN Earlier(r.started, e.at)
                              ELSE r.started
             /\ new.converted = IF e.type = "converted"
                                THEN First(IF r = NoRow THEN Null ELSE r.converted, e.at)
                                ELSE IF r = NoRow THEN Null ELSE r.converted
             /\ new.expired = IF e.type = "expired"
                              THEN First(IF r = NoRow THEN Null ELSE r.expired, e.at)
                              ELSE IF r = NoRow THEN Null ELSE r.expired
<1> DEFINE new == HandleTrial(r, e.type, e.at)
<1>1. e.type \in TrialTypes /\ e.at \in Times /\ e.at \in Nat
  BY DEF TrialsAssumption, TrialEvent
<1>2. r # NoRow => r \in TrialRow
  OBVIOUS
<1>3. CASE e.type = "started"
  <2>1. new = StartTrial(r, e.at)
    BY <1>3 DEF HandleTrial
  <2>2. r # NoRow => r.started \in Times /\ Earlier(r.started, e.at) \in Times
    BY <1>1, <1>2 DEF TrialRow, Earlier
  <2> QED
    BY <1>1, <1>2, <1>3, <2>1, <2>2 DEF StartTrial, TrialRow, TrialsAssumption
<1>4. CASE e.type = "converted"
  <2>1. new = EndTrial(r, "converted", e.at)
    BY <1>4 DEF HandleTrial
  <2>2. First(IF r = NoRow THEN Null ELSE r.converted, e.at) \in Times \union {Null}
    BY <1>1, <1>2 DEF TrialRow, First
  <2> QED
    BY <1>1, <1>2, <1>4, <2>1, <2>2 DEF EndTrial, TrialRow, TrialsAssumption, First
<1>5. CASE e.type = "expired"
  <2>1. new = EndTrial(r, "expired", e.at)
    BY <1>5 DEF HandleTrial, EndTrial
  <2>2. First(IF r = NoRow THEN Null ELSE r.expired, e.at) \in Times \union {Null}
    BY <1>1, <1>2 DEF TrialRow, First
  <2> QED
    BY <1>1, <1>2, <1>5, <2>1, <2>2 DEF EndTrial, TrialRow, TrialsAssumption, First
<1> QED
  BY <1>1, <1>3, <1>4, <1>5 DEF TrialTypes

-----------------------------------------------------------------------------
THEOREM TypeInit == ASSUME TrialsAssumption PROVE Init => TypeOK
BY DEF TrialsAssumption, Init, TypeOK

LEMMA TypeStep ==
  ASSUME TrialsAssumption, TypeOK, NEW e \in TrialEvents, Handle(e)
  PROVE  TypeOK'
<1>1. e \in TrialEvent /\ e.sub \in Subs /\ e.type \in TrialTypes /\ e.at \in Times
  BY DEF TrialsAssumption, TrialEvent
<1>2. row[e.sub] \in TrialRow \union {NoRow}
  BY <1>1 DEF TypeOK
<1>3. HandleTrial(row[e.sub], e.type, e.at) \in TrialRow
  BY <1>1, <1>2, HandleTrialRow
<1>4. row' \in [Subs -> TrialRow \union {NoRow}]
  BY <1>1, <1>3 DEF TypeOK, Handle
<1>5. AuditId(e) \in Ids
  BY <1>1 DEF AuditId, Ids
<1>6. First(audit[AuditId(e)], e.at) \in Times \union {Null}
  BY <1>1, <1>5 DEF TypeOK, First
<1>7. audit' \in [Ids -> Times \union {Null}]
  BY <1>5, <1>6 DEF TypeOK, Handle
<1>8. told' \subseteq TrialEvents
  BY DEF TypeOK, Handle
<1> QED
  BY <1>4, <1>7, <1>8 DEF TypeOK

\* The tables keep their types.
THEOREM TypesKept == ASSUME TrialsAssumption PROVE Spec => []TypeOK
<1>1. Init => TypeOK
  BY TypeInit
<1>2. TypeOK /\ [Next]_vars => TypeOK'
  <2> SUFFICES ASSUME TypeOK, [Next]_vars PROVE TypeOK'
    OBVIOUS
  <2>1. CASE UNCHANGED vars
    BY <2>1 DEF vars, TypeOK
  <2>2. ASSUME NEW e \in TrialEvents, Handle(e) PROVE TypeOK'
    BY <2>2, TypeStep
  <2> QED
    BY <2>1, <2>2 DEF Next
<1> QED
  BY <1>1, <1>2, PTL DEF Spec

-----------------------------------------------------------------------------
\* A row's start is the date of an event that was handled: what an outcome
\* leaves in a placeholder is not earlier than the start that corrects it.
Witnessed ==
  \A s \in Subs : row[s] # NoRow => \E e \in told : e.sub = s /\ row[s].started = e.at

StartInv == TypeOK /\ Witnessed /\ StartIsEarliest

LEMMA StartStep ==
  ASSUME TrialsAssumption, StartInv, NEW e \in TrialEvents, Handle(e)
  PROVE  StartInv'
<1>1. TypeOK /\ Witnessed /\ StartIsEarliest
  BY DEF StartInv
<1>2. TypeOK'
  BY <1>1, TypeStep
<1>3. e \in TrialEvent /\ e.sub \in Subs /\ e.type \in TrialTypes /\ e.at \in Times
  BY DEF TrialsAssumption, TrialEvent
<1>4. told' = told \union {e} /\ e \in told'
  BY DEF Handle
<1>5. \A f \in told' : f \in TrialEvents /\ f.at \in Nat /\ f.at \in Times
  BY <1>2 DEF TypeOK, TrialsAssumption, TrialEvent
<1> DEFINE old == row[e.sub]
           new == HandleTrial(old, e.type, e.at)
<1>6. old \in TrialRow \union {NoRow} /\ row' = [row EXCEPT ![e.sub] = new]
  BY <1>1, <1>3 DEF TypeOK, Handle
<1>7. /\ row'[e.sub] = new
      /\ \A s \in Subs : s # e.sub => row'[s] = row[s]
  BY <1>1, <1>3, <1>6 DEF TypeOK
<1>8. /\ new # NoRow
      /\ new.started = IF old = NoRow THEN e.at
                       ELSE IF e.type = "started" THEN Earlier(old.started, e.at)
                       ELSE old.started
  BY <1>3, <1>6, HandleTrialRow
<1>9. old # NoRow => old.started \in Nat
  BY <1>6 DEF TrialRow, TrialsAssumption
<1>10. new.started = e.at \/ (old # NoRow /\ new.started = old.started)
  BY <1>8 DEF Earlier
<1>11. Witnessed'
  <2> SUFFICES ASSUME NEW s \in Subs, row'[s] # NoRow
               PROVE  \E f \in told' : f.sub = s /\ row'[s].started = f.at
    BY DEF Witnessed
  <2>1. CASE s # e.sub
    BY <2>1, <1>1, <1>4, <1>7 DEF Witnessed
  <2>2. CASE s = e.sub /\ new.started = e.at
    BY <2>2, <1>4, <1>7
  <2>3. CASE s = e.sub /\ old # NoRow /\ new.started = old.started
    BY <2>3, <1>1, <1>4, <1>7 DEF Witnessed
  <2> QED
    BY <2>1, <2>2, <2>3, <1>10
<1>12. StartIsEarliest'
  <2> SUFFICES ASSUME NEW s \in Subs, Of(s, "started")' # {}
               PROVE  /\ row'[s] # NoRow
                      /\ \E f \in Of(s, "started")' : row'[s].started = f.at
                      /\ \A f \in Of(s, "started")' : row'[s].started <= f.at
    BY DEF StartIsEarliest
  <2>1. Of(s, "started")' = {f \in told' : f.sub = s /\ f.type = "started"}
    BY DEF Of
  <2>2. Of(s, "started") = {f \in told : f.sub = s /\ f.type = "started"}
    BY DEF Of
  <2>3. CASE s # e.sub
    <3>1. Of(s, "started")' = Of(s, "started") /\ row'[s] = row[s]
      BY <2>1, <2>2, <2>3, <1>4, <1>7
    <3> QED
      BY <3>1, <1>1 DEF StartIsEarliest
  <2>4. CASE s = e.sub /\ e.type # "started"
    <3>1. Of(s, "started")' = Of(s, "started")
      BY <2>1, <2>2, <2>4, <1>4
    <3>2. old # NoRow
      BY <3>1, <2>4, <1>1 DEF StartIsEarliest
    <3>3. row'[s].started = old.started
      BY <3>2, <2>4, <1>7, <1>8
    <3> QED
      BY <3>1, <3>2, <3>3, <2>4, <1>1, <1>7, <1>8 DEF StartIsEarliest
  <2>5. CASE s = e.sub /\ e.type = "started"
    <3>1. e \in Of(s, "started")' /\ Of(s, "started")' = Of(s, "started") \union {e}
      BY <2>1, <2>2, <2>5, <1>4
    <3>2. CASE old = NoRow
      <4>1. Of(s, "started") = {}
        BY <3>2, <2>5, <1>1 DEF StartIsEarliest
      <4>2. row'[s].started = e.at /\ e.at \in Nat
        BY <3>2, <2>5, <1>4, <1>5, <1>7, <1>8
      <4> QED
        BY <4>1, <4>2, <3>1, <2>5, <1>7, <1>8
    <3>3. CASE old # NoRow /\ Of(s, "started") = {}
      <4>1. PICK o \in told : o.sub = s /\ old.started = o.at
        BY <3>3, <2>5, <1>1 DEF Witnessed
      <4>2. o.type # "started" /\ o \in TrialEvents
        BY <4>1, <3>3, <2>2, <1>1 DEF TypeOK
      <4>3. e.at <= o.at
        BY <4>1, <4>2, <2>5 DEF TrialsAssumption
      <4>4. new.started = Earlier(old.started, e.at)
        BY <3>3, <2>5, <1>8
      <4>5. new.started = e.at /\ e.at \in Nat
        BY <4>1, <4>3, <4>4, <1>4, <1>5, <1>9, <3>3 DEF Earlier
      <4> QED
        BY <4>5, <3>1, <3>3, <2>5, <1>7, <1>8
    <3>4. CASE old # NoRow /\ Of(s, "started") # {}
      <4>1. PICK f \in Of(s, "started") : old.started = f.at
        BY <3>4, <2>5, <1>1 DEF StartIsEarliest
      <4>2. \A g \in Of(s, "started") : old.started <= g.at
        BY <3>4, <2>5, <1>1 DEF StartIsEarliest
      <4>3. \A g \in Of(s, "started")' : g.at \in Nat
        BY <2>1, <1>5
      <4>4. new.started = Earlier(old.started, e.at)
        BY <3>4, <2>5, <1>8
      <4>5. \A g \in Of(s, "started")' : new.started <= g.at
        BY <4>2, <4>3, <4>4, <3>1, <1>9, <3>4 DEF Earlier
      <4>6. \E g \in Of(s, "started")' : new.started = g.at
        BY <4>1, <3>1, <1>10
      <4> QED
        BY <4>5, <4>6, <2>5, <1>7, <1>8
    <3> QED
      BY <3>2, <3>3, <3>4
  <2> QED
    BY <2>3, <2>4, <2>5
<1> QED
  BY <1>2, <1>11, <1>12 DEF StartInv

\* Whatever the order, repetition and dates of the events: once a start was
\* handled, the cohort of the trial is that of its earliest start, also where an
\* outcome came first and left a placeholder.
THEOREM StartsAreEarliest == ASSUME TrialsAssumption PROVE Spec => []StartIsEarliest
<1>1. Init => StartInv
  <2>1. Init => TypeOK
    BY TypeInit
  <2> QED
    BY <2>1 DEF Init, StartInv, Witnessed, StartIsEarliest, Of
<1>2. StartInv /\ [Next]_vars => StartInv'
  <2> SUFFICES ASSUME StartInv, [Next]_vars PROVE StartInv'
    OBVIOUS
  <2>1. CASE UNCHANGED vars
    BY <2>1 DEF vars, StartInv, TypeOK, Witnessed, StartIsEarliest, Of
  <2>2. ASSUME NEW e \in TrialEvents, Handle(e) PROVE StartInv'
    BY <2>2, StartStep
  <2> QED
    BY <2>1, <2>2 DEF Next
<1>3. StartInv => StartIsEarliest
  BY DEF StartInv
<1> QED
  BY <1>1, <1>2, <1>3, PTL DEF Spec

-----------------------------------------------------------------------------
LEMMA AuditStep ==
  ASSUME TrialsAssumption, TypeOK, AuditAgrees, NEW e \in TrialEvents, Handle(e)
  PROVE  AuditAgrees'
<1>1. e \in TrialEvent /\ e.sub \in Subs /\ e.type \in TrialTypes /\ e.at \in Times
  BY DEF TrialsAssumption, TrialEvent
<1>2. e.at # Null
  BY <1>1 DEF TrialsAssumption
<1> DEFINE old == row[e.sub]
           new == HandleTrial(old, e.type, e.at)
<1>3. old \in TrialRow \union {NoRow}
  BY <1>1 DEF TypeOK
<1>4. /\ row'[e.sub] = new
      /\ \A s \in Subs : s # e.sub => row'[s] = row[s]
  BY <1>1 DEF TypeOK, Handle
<1>5. /\ audit'[<<e.type, e.sub>>] = First(audit[<<e.type, e.sub>>], e.at)
      /\ \A t \in TrialTypes, s \in Subs :
           t # e.type \/ s # e.sub => audit'[<<t, s>>] = audit[<<t, s>>]
  BY <1>1 DEF TypeOK, Handle, AuditId, Ids
<1>6. /\ new # NoRow
      /\ new.converted = IF e.type = "converted"
                         THEN First(IF old = NoRow THEN Null ELSE old.converted, e.at)
                         ELSE IF old = NoRow THEN Null ELSE old.converted
      /\ new.expired = IF e.type = "expired"
                       THEN First(IF old = NoRow THEN Null ELSE old.expired, e.at)
                       ELSE IF old = NoRow THEN Null ELSE old.expired
  BY <1>1, <1>3, HandleTrialRow
<1>7. "converted" \in TrialTypes /\ "expired" \in TrialTypes
  BY DEF TrialTypes
<1> SUFFICES ASSUME NEW s \in Subs
             PROVE  /\ (row'[s] = NoRow) <=> (\A t \in TrialTypes : audit'[<<t, s>>] = Null)
                    /\ row'[s] # NoRow =>
                         /\ row'[s].converted = audit'[<<"converted", s>>]
                         /\ row'[s].expired = audit'[<<"expired", s>>]
  BY DEF AuditAgrees
<1>8. CASE s # e.sub
  <2>1. row'[s] = row[s] /\ \A t \in TrialTypes : audit'[<<t, s>>] = audit[<<t, s>>]
    BY <1>4, <1>5, <1>8
  <2> QED
    BY <2>1, <1>7 DEF AuditAgrees
<1>9. CASE s = e.sub
  <2>1. audit'[<<e.type, s>>] # Null
    BY <1>2, <1>5, <1>9 DEF First
  <2>2. row'[s] # NoRow
    BY <1>4, <1>6, <1>9
  <2>3. /\ (IF old = NoRow THEN Null ELSE old.converted) = audit[<<"converted", s>>]
        /\ (IF old = NoRow THEN Null ELSE old.expired) = audit[<<"expired", s>>]
    BY <1>7, <1>9 DEF AuditAgrees
  <2>4. row'[s].converted = audit'[<<"converted", s>>]
    BY <2>3, <1>4, <1>5, <1>6, <1>7, <1>9
  <2>5. row'[s].expired = audit'[<<"expired", s>>]
    BY <2>3, <1>4, <1>5, <1>6, <1>7, <1>9
  <2> QED
    BY <2>1, <2>2, <2>4, <2>5, <1>1, <1>9
<1> QED
  BY <1>8, <1>9

\* The cohort table and the audit log, written by two statements and deduplicated
\* in two ways (COALESCE, ON CONFLICT DO NOTHING), never disagree on an outcome.
THEOREM AuditsAgree == ASSUME TrialsAssumption PROVE Spec => []AuditAgrees
<1>1. Init => AuditAgrees
  BY DEF Init, AuditAgrees, Ids
<1>2. TypeOK /\ AuditAgrees /\ [Next]_vars => AuditAgrees'
  <2> SUFFICES ASSUME TypeOK, AuditAgrees, [Next]_vars PROVE AuditAgrees'
    OBVIOUS
  <2>1. CASE UNCHANGED vars
    BY <2>1 DEF vars, AuditAgrees
  <2>2. ASSUME NEW e \in TrialEvents, Handle(e) PROVE AuditAgrees'
    BY <2>2, AuditStep
  <2> QED
    BY <2>1, <2>2 DEF Next
<1> QED
  BY <1>1, <1>2, TypesKept, PTL DEF Spec
=============================================================================
