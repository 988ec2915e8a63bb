---------------------------- MODULE WorkerProofs ----------------------------
(***************************************************************************)
(* Machine-checked safety of the consumer loops of Worker, and that they   *)
(* implement the at-least-once delivery of Delivery.                       *)
(***************************************************************************)
EXTENDS Worker, TLAPS

\* Every action of Next, for the provers.
AllActions ==
  \/ \E o \in Occurrences : Publish(o)
  \/ ReplaySelect \/ ReplayStop \/ Boot \/ Crash
  \/ \E k \in Keys : ReplayPublish(k)
  \/ \E g \in Groups :
       \/ Join(g) \/ Skip(g) \/ SkipDies(g) \/ HandleOk(g) \/ HandleFail(g)
       \/ OffsetOk(g) \/ OffsetFail(g) \/ Resolve(g) \/ ResolveFail(g)
       \/ RecordRow(g) \/ RecordFail(g) \/ Mirror(g) \/ MirrorFail(g)
       \/ GiveUp(g) \/ GiveUpDies(g)
       \/ \E p \in Partitions : Poll(g, p)

LEMMA NextIsAll == Next <=> AllActions
BY Zenon DEF Next, AllActions, TaskStep, TaskFault

-----------------------------------------------------------------------------
\* Typing.

LEMMA TypingStep == TypeOK /\ [Next]_vars => TypeOK'
<1> SUFFICES ASSUME TypeOK, [Next]_vars PROVE TypeOK'
  OBVIOUS
<1> USE DEF TypeOK, PCs, Running, InFlight, Down
<1>1. ASSUME NEW o \in Occurrences, Publish(o) PROVE TypeOK'
  <2>1. /\ CustomerOf[o] \in Customers \union {NoCustomer}
        /\ PartitionOf[CustomerOf[o]] \in Partitions
        /\ [occ |-> o, cust |-> CustomerOf[o]] \in Record
    BY ConstantsAssumption DEF Record
  <2>2. log' \in [Partitions -> Seq(Record)]
    BY <1>1, <2>1 DEF Publish, Append1
  <2>3. QED
    BY <1>1, <2>2 DEF Publish
<1>2. CASE ReplaySelect
  BY <1>2 DEF ReplaySelect
<1>3. CASE ReplayStop
  BY <1>3 DEF ReplayStop
<1>4. CASE Boot
  BY <1>4 DEF Boot
<1>5. CASE Crash
  BY <1>5, ConstantsAssumption DEF Crash
<1>6. ASSUME NEW k \in Keys, ReplayPublish(k) PROVE TypeOK'
  <2>1. /\ rows[k].occ \in Occurrences
        /\ PartitionOf[NoCustomer] \in Partitions
        /\ [occ |-> rows[k].occ, cust |-> NoCustomer] \in Record
    BY <1>6, ConstantsAssumption DEF ReplayPublish, Record, Row
  <2>2. log' \in [Partitions -> Seq(Record)]
    BY <1>6, <2>1 DEF ReplayPublish, Append1
  <2>3. QED
    BY <1>6, <2>2 DEF ReplayPublish
<1>7. ASSUME NEW g \in Groups, Join(g) PROVE TypeOK'
  BY <1>7 DEF Join, GoTo
<1>8. ASSUME NEW g \in Groups,
             Skip(g) \/ OffsetOk(g) \/ GiveUp(g)
      PROVE TypeOK'
  <2>1. committed' = [committed EXCEPT ![g] = position[g]]
    BY <1>8 DEF Skip, OffsetOk, GiveUp, CommitOffsets
  <2>2. position[g] \in [Partitions -> Nat \union {NoOffset}]
    OBVIOUS
  <2>3. committed' \in [Groups -> [Partitions -> Nat \union {NoOffset}]]
    BY <2>1, <2>2
  <2>4. QED
    BY <1>8, <2>3 DEF Skip, OffsetOk, GiveUp, CommitOffsets, GoTo, LetGo
<1>9. ASSUME NEW g \in Groups,
             \/ SkipDies(g) \/ OffsetFail(g) \/ GiveUpDies(g) \/ HandleFail(g)
             \/ ResolveFail(g) \/ RecordFail(g) \/ MirrorFail(g)
      PROVE TypeOK'
  <2>0. faults' \in Nat
    BY <1>9 DEF SkipDies, GiveUpDies, ResolveFail, CommitDies, OffsetFail,
                HandleFail, RecordFail, MirrorFail, Fault
  <2>1. CASE SkipDies(g) \/ GiveUpDies(g) \/ ResolveFail(g)
    BY <2>0, <2>1 DEF SkipDies, GiveUpDies, ResolveFail, CommitDies, GoTo, LetGo
  <2>2. CASE OffsetFail(g) \/ HandleFail(g)
    BY <2>0, <2>2 DEF OffsetFail, HandleFail, GoTo
  <2>3. CASE RecordFail(g) \/ MirrorFail(g)
    BY <2>0, <2>3 DEF RecordFail, MirrorFail, GoTo
  <2>4. QED
    BY <1>9, <2>1, <2>2, <2>3
<1>10. ASSUME NEW g \in Groups, HandleOk(g) PROVE TypeOK'
  BY <1>10 DEF HandleOk, GoTo
<1>11. ASSUME NEW g \in Groups, Resolve(g) PROVE TypeOK'
  <2>1. Key(g) \in Keys
    BY <1>11, ConstantsAssumption DEF Resolve, Key, Keys, Record
  <2>2. rows' \in [Keys -> Row \union {NoRow}]
    BY <1>11, <2>1 DEF Resolve, Row
  <2>3. \A k \in Keys : rows[k] # NoRow => rows'[k] # NoRow
    BY <1>11, <2>1, SentinelAssumption DEF Resolve, Row
  <2>4. QED
    BY <1>11, <2>2, <2>3 DEF Resolve, GoTo, LetGo
<1>12. ASSUME NEW g \in Groups, RecordRow(g) PROVE TypeOK'
  <2>1. Key(g) \in Keys /\ event[g].occ \in Occurrences
    BY <1>12, ConstantsAssumption DEF RecordRow, Key, Keys, Record
  <2> DEFINE new == [occ |-> IF rows[Key(g)] = NoRow THEN event[g].occ
                                                   ELSE rows[Key(g)].occ,
                     resolved |-> FALSE]
  <2>2. new \in Row
    BY <2>1 DEF Row
  <2>3. new # NoRow
    BY <2>2, SentinelAssumption
  <2>4. rows' = [rows EXCEPT ![Key(g)] = new]
    BY <1>12 DEF RecordRow
  <2> HIDE DEF new
  <2>5. /\ rows' \in [Keys -> Row \union {NoRow}]
        /\ \A k \in Keys : rows[k] # NoRow => rows'[k] # NoRow
    BY <2>1, <2>2, <2>3, <2>4
  <2>6. QED
    BY <1>12, <2>5 DEF RecordRow, GoTo
<1>13. ASSUME NEW g \in Groups, Mirror(g) PROVE TypeOK'
  BY <1>13 DEF Mirror, GoTo, Record
<1>14. ASSUME NEW g \in Groups, NEW p \in Partitions, Poll(g, p) PROVE TypeOK'
  <2>1. log[p][position[g][p] + 1] \in Record
    BY <1>14 DEF Poll
  <2>2. QED
    BY <1>14, <2>1 DEF Poll, GoTo
<1>15. CASE UNCHANGED vars
  BY <1>15 DEF vars
<1>16. QED
  BY <1>1, <1>2, <1>3, <1>4, <1>5, <1>6, <1>7, <1>8, <1>9, <1>10, <1>11,
     <1>12, <1>13, <1>14, <1>15, NextIsAll, Zenon DEF AllActions

\* Every variable stays in its set, rows that dlq-replay holds exist, and a task
\* past its fetch has an event in hand.
THEOREM TypeCorrect == Spec => []TypeOK
<1>1. Init => TypeOK
  BY ConstantsAssumption DEF Init, TypeOK, PCs, Running, InFlight, Down
<1>2. QED
  BY <1>1, TypingStep, PTL DEF Spec

-----------------------------------------------------------------------------
\* The redelivery window.

\* Between events a session stands at its base on every partition ...
Steady(g) == \A p \in Partitions : position[g][p] = Base(g, p)

\* ... and while it works on one it is a record ahead on one of them.
Ahead(g, p) ==
  /\ position[g][p] = Base(g, p) + 1
  /\ position[g][p] <= Len(log[p])
  /\ event[g] = log[p][position[g][p]]
  /\ \A q \in Partitions \ {p} : position[g][q] = Base(g, q)

Window(g) ==
  /\ \A p \in Partitions : Base(g, p) \in Nat /\ Base(g, p) <= Len(log[p])
  /\ pc[g] \in {"poll", "resolve"} => Steady(g)
  /\ pc[g] \in InFlight => \E p \in Partitions : Ahead(g, p)

\* A step that leaves g's offsets alone keeps its window if g stays at the same
\* place, moves on with the same event, or leaves the loop.
LEMMA WindowKept ==
  ASSUME NEW g \in Groups, Window(g),
         log' = log, committed'[g] = committed[g], begin'[g] = begin[g],
         \/ pc'[g] \notin Running
         \/ /\ position'[g] = position[g]
            /\ event'[g] = event[g]
            /\ \/ pc'[g] = pc[g]
               \/ pc[g] \in InFlight /\ pc'[g] \in InFlight
  PROVE  Window(g)'
<1>1. \A p \in Partitions : Base(g, p)' = Base(g, p)
  BY DEF Base
<1>2. CASE pc'[g] \notin Running
  BY <1>1, <1>2 DEF Window, Running, InFlight
<1>3. ASSUME position'[g] = position[g], event'[g] = event[g]
      PROVE  /\ Steady(g) => Steady(g)'
             /\ \A p \in Partitions : Ahead(g, p) => Ahead(g, p)'
  BY <1>1, <1>3 DEF Steady, Ahead
<1>4. CASE /\ position'[g] = position[g]
           /\ event'[g] = event[g]
           /\ \/ pc'[g] = pc[g]
              \/ pc[g] \in InFlight /\ pc'[g] \in InFlight
  BY <1>1, <1>3, <1>4 DEF Window, InFlight
<1>5. QED
  BY <1>2, <1>4

\* A group that stands still, whatever the others do.
LEMMA WindowOther ==
  ASSUME NEW g \in Groups, Window(g), log' = log,
         committed'[g] = committed[g], begin'[g] = begin[g],
         position'[g] = position[g], event'[g] = event[g], pc'[g] = pc[g]
  PROVE  Window(g)'
BY WindowKept, Zenon

\* Appending to the log moves no base and keeps every record in place.
LEMMA WindowAppend ==
  ASSUME TypeOK, NEW p \in Partitions, NEW r \in Record,
         log' = [log EXCEPT ![p] = Append(@, r)],
         UNCHANGED <<committed, begin, position, pc, event>>,
         NEW g \in Groups, Window(g)
  PROVE  Window(g)'
<1>1. \A q \in Partitions :
        /\ Len(log[q]) \in Nat
        /\ Len(log'[q]) \in Nat
        /\ Len(log[q]) <= Len(log'[q])
        /\ \A i \in 1..Len(log[q]) : log'[q][i] = log[q][i]
  BY DEF TypeOK
<1>2. \A q \in Partitions : Base(g, q)' = Base(g, q)
  BY DEF Base
<1>3. ASSUME NEW q \in Partitions, Ahead(g, q) PROVE Ahead(g, q)'
  <2>1. Base(g, q) \in Nat
    BY DEF Window
  <2>2. position[g][q] \in 1..Len(log[q])
    BY <1>1, <1>3, <2>1 DEF Ahead
  <2>3. QED
    BY <1>1, <1>2, <1>3, <2>2 DEF Ahead
<1>4. Steady(g) => Steady(g)'
  BY <1>2 DEF Steady
<1>5. \A q \in Partitions : Base(g, q) \in Nat /\ Base(g, q) <= Len(log'[q])
  BY <1>1 DEF Window
<1>6. QED
  BY <1>2, <1>3, <1>4, <1>5 DEF Window

WindowInv == \A g \in Groups : Window(g)

LEMMA WindowStep == TypeOK /\ WindowInv /\ [Next]_vars => WindowInv'
<1> SUFFICES ASSUME TypeOK, WindowInv, [Next]_vars PROVE WindowInv'
  OBVIOUS
<1>0. \A g \in Groups : Window(g)
  BY DEF WindowInv
<1>1. ASSUME NEW o \in Occurrences, Publish(o) PROVE WindowInv'
  <2>1. /\ PartitionOf[CustomerOf[o]] \in Partitions
        /\ [occ |-> o, cust |-> CustomerOf[o]] \in Record
    BY ConstantsAssumption DEF Record
  <2>2. QED
    BY <1>0, <1>1, <2>1, WindowAppend DEF Publish, Append1, WindowInv
<1>2. CASE ReplaySelect \/ ReplayStop \/ UNCHANGED vars
  BY <1>0, <1>2, WindowOther DEF ReplaySelect, ReplayStop, vars, WindowInv
<1>3. CASE Boot \/ Crash
  <2>1. /\ UNCHANGED <<log, committed, begin>>
        /\ \A g \in Groups : pc'[g] \notin Running
    BY <1>3 DEF Boot, Crash, Running, Down
  <2>2. QED
    BY <1>0, <2>1, WindowKept DEF WindowInv
<1>4. ASSUME NEW k \in Keys, ReplayPublish(k) PROVE WindowInv'
  <2>1. /\ PartitionOf[NoCustomer] \in Partitions
        /\ [occ |-> rows[k].occ, cust |-> NoCustomer] \in Record
    BY <1>4, ConstantsAssumption DEF ReplayPublish, Record, Row, TypeOK
  <2>2. QED
    BY <1>0, <1>4, <2>1, WindowAppend DEF ReplayPublish, Append1, WindowInv
<1>5. ASSUME NEW g \in Groups, Join(g) PROVE WindowInv'
  <2>1. \A p \in Partitions :
          /\ position'[g][p] = Base(g, p)'
          /\ Base(g, p)' \in Nat
          /\ Base(g, p)' <= Len(log'[p])
    BY <1>0, <1>5 DEF Join, Base, TypeOK, Window
  <2>2. Window(g)'
    BY <1>5, <2>1 DEF Join, GoTo, TypeOK, Window, Steady, InFlight
  <2>3. \A h \in Groups \ {g} : Window(h)'
    BY <1>0, <1>5, WindowOther DEF Join, GoTo, TypeOK
  <2>4. QED
    BY <2>2, <2>3 DEF WindowInv
<1>6. ASSUME NEW g \in Groups, NEW p \in Partitions, Poll(g, p)
      PROVE WindowInv'
  <2>1. Steady(g)
    BY <1>0, <1>6 DEF Poll, Window
  <2>2. \A q \in Partitions : Base(g, q)' = Base(g, q)
    BY <1>6 DEF Poll, Base
  <2>3. Base(g, p) \in Nat
    BY <1>0 DEF Window
  <2>4. Ahead(g, p)'
    BY <1>6, <2>1, <2>2, <2>3 DEF Poll, Steady, Ahead, TypeOK
  <2>5. Window(g)'
    BY <1>0, <1>6, <2>2, <2>4 DEF Poll, GoTo, Window, TypeOK, InFlight
  <2>6. \A h \in Groups \ {g} : Window(h)'
    BY <1>0, <1>6, WindowOther DEF Poll, GoTo, TypeOK
  <2>7. QED
    BY <2>5, <2>6 DEF WindowInv
<1>7. ASSUME NEW g \in Groups, Skip(g) \/ GiveUp(g) \/ OffsetOk(g)
      PROVE WindowInv'
  <2>1. /\ UNCHANGED <<log, begin, position>>
        /\ committed' = [committed EXCEPT ![g] = position[g]]
        /\ pc[g] \in InFlight
        /\ pc'[g] \in {"poll", "resolve"}
        /\ \A h \in Groups \ {g} : pc'[h] = pc[h] /\ event'[h] = event[h]
    BY <1>7 DEF Skip, GiveUp, OffsetOk, CommitOffsets, GoTo, LetGo, TypeOK,
                InFlight
  <2>2. PICK p \in Partitions : Ahead(g, p)
    BY <1>0, <2>1 DEF Window
  <2>3. \A q \in Partitions : Base(g, q)' = position[g][q]
    BY <2>1, SentinelAssumption DEF Base, TypeOK
  <2>4. \A q \in Partitions : position[g][q] <= Len(log[q])
    BY <1>0, <2>2 DEF Ahead, Window
  <2>5. Window(g)'
    BY <2>1, <2>3, <2>4 DEF Window, Steady, InFlight, TypeOK
  <2>6. \A h \in Groups \ {g} : Window(h)'
    BY <1>0, <2>1, WindowOther DEF TypeOK
  <2>7. QED
    BY <2>5, <2>6 DEF WindowInv
<1>8. ASSUME NEW g \in Groups, Resolve(g) \/ ResolveFail(g) PROVE WindowInv'
  <2>1. /\ UNCHANGED <<log, committed, begin, position>>
        /\ pc[g] = "resolve" /\ pc'[g] = "poll"
        /\ \A h \in Groups \ {g} : pc'[h] = pc[h] /\ event'[h] = event[h]
    BY <1>8 DEF Resolve, ResolveFail, GoTo, LetGo, TypeOK
  <2>2. Window(g)'
    BY <1>0, <2>1 DEF Window, Steady, Base, InFlight
  <2>3. QED
    BY <1>0, <2>1, <2>2, WindowOther DEF WindowInv
<1>9. ASSUME NEW g \in Groups, SkipDies(g) \/ GiveUpDies(g) PROVE WindowInv'
  <2>1. /\ UNCHANGED <<log, committed, begin, position>>
        /\ pc'[g] = "dead"
        /\ \A h \in Groups \ {g} : pc'[h] = pc[h] /\ event'[h] = event[h]
    BY <1>9 DEF SkipDies, GiveUpDies, CommitDies, GoTo, LetGo, TypeOK
  <2>2. "dead" \notin Running
    BY DEF Running
  <2>3. QED
    BY <1>0, <2>1, <2>2, WindowOther, WindowKept DEF WindowInv
<1>10. ASSUME NEW g \in Groups,
              \/ HandleOk(g) \/ HandleFail(g) \/ OffsetFail(g)
              \/ RecordRow(g) \/ RecordFail(g) \/ Mirror(g) \/ MirrorFail(g)
       PROVE WindowInv'
  <2>1. /\ UNCHANGED <<log, committed, begin, position, event>>
        /\ pc[g] \in InFlight
        /\ pc'[g] \in InFlight
        /\ \A h \in Groups \ {g} : pc'[h] = pc[h]
    BY <1>10 DEF HandleOk, HandleFail, OffsetFail, RecordRow, RecordFail,
                 Mirror, MirrorFail, GoTo, TypeOK, InFlight
  <2>2. QED
    BY <1>0, <2>1, WindowOther, WindowKept DEF WindowInv
<1>11. QED
  BY <1>1, <1>2, <1>3, <1>4, <1>5, <1>6, <1>7, <1>8, <1>9, <1>10,
     NextIsAll, Zenon DEF AllActions

LEMMA WindowAlways == Spec => []WindowInv
<1>1. Init => WindowInv
  BY ConstantsAssumption, SentinelAssumption
     DEF Init, WindowInv, Window, Base, InFlight, Down
<1>2. QED
  BY <1>1, WindowStep, TypeCorrect, PTL DEF Spec

\* Over all partitions together a group has at most one record fetched and not
\* committed past: what a crash can make it see again.
THEOREM WindowHolds == Spec => []RedeliveryWindow
<1>1. TypeOK /\ WindowInv => RedeliveryWindow
  <2> SUFFICES ASSUME TypeOK, WindowInv, NEW g \in Groups, pc[g] \in Running
               PROVE  /\ \A p \in Partitions :
                           position[g][p] \in Base(g, p)..(Base(g, p) + 1)
                      /\ \A p, q \in Partitions :
                           position[g][p] # Base(g, p)
                             /\ position[g][q] # Base(g, q) => p = q
    BY DEF RedeliveryWindow
  <2>1. Window(g) /\ \A p \in Partitions : Base(g, p) \in Nat
    BY DEF WindowInv, Window
  <2>2. CASE Steady(g)
    BY <2>1, <2>2 DEF Steady
  <2>3. CASE \E p \in Partitions : Ahead(g, p)
    BY <2>1, <2>3 DEF Ahead
  <2>4. QED
    BY <2>1, <2>2, <2>3 DEF Window, Running, InFlight
<1>2. QED
  BY <1>1, TypeCorrect, WindowAlways, PTL

-----------------------------------------------------------------------------
\* What a step may do to the offsets.

\* A committing group has a whole record ahead of its base, and no step moves
\* the committed offset of a partition otherwise.
LEMMA CommitStep ==
  ASSUME TypeOK, WindowInv, [Next]_vars, NEW g \in Groups
  PROVE  \/ committed'[g] = committed[g]
         \/ /\ pc[g] \in {"skip", "offset", "giveup"}
            /\ committed'[g] = position[g]
            /\ UNCHANGED <<log, begin>>
<1>1. ASSUME NEW h \in Groups, Skip(h) \/ OffsetOk(h) \/ GiveUp(h)
      PROVE  \/ committed'[g] = committed[g]
             \/ /\ pc[g] \in {"skip", "offset", "giveup"}
                /\ committed'[g] = position[g]
                /\ UNCHANGED <<log, begin>>
  BY <1>1 DEF Skip, OffsetOk, GiveUp, CommitOffsets, TypeOK
<1>2. ASSUME NEW h \in Groups,
             \/ Join(h) \/ SkipDies(h) \/ GiveUpDies(h) \/ OffsetFail(h)
             \/ (\E p \in Partitions : Poll(h, p)) \/ Resolve(h) \/ ResolveFail(h)
      PROVE  UNCHANGED committed
  BY <1>2 DEF Join, SkipDies, GiveUpDies, OffsetFail, Poll, Resolve, ResolveFail,
              CommitDies
<1>3. ASSUME NEW h \in Groups,
             \/ HandleOk(h) \/ HandleFail(h) \/ RecordRow(h) \/ RecordFail(h)
             \/ Mirror(h) \/ MirrorFail(h)
      PROVE  UNCHANGED committed
  BY <1>3 DEF HandleOk, HandleFail, RecordRow, RecordFail, Mirror, MirrorFail
<1>4. ASSUME \/ \E o \in Occurrences : Publish(o)
             \/ \E k \in Keys : ReplayPublish(k)
             \/ ReplaySelect \/ ReplayStop \/ Boot \/ Crash \/ UNCHANGED vars
      PROVE  UNCHANGED committed
  BY <1>4 DEF Publish, ReplayPublish, ReplaySelect, ReplayStop, Boot, Crash, vars
<1>5. QED
  BY <1>1, <1>2, <1>3, <1>4, NextIsAll, Zenon DEF AllActions

\* No crash, rejoin or failed commit ever moves a committed offset backwards.
THEOREM OffsetsForward == Spec => OffsetsNeverRewind
<1>1. ASSUME TypeOK, WindowInv, [Next]_vars,
             NEW g \in Groups, NEW p \in Partitions, committed[g][p] # NoOffset
      PROVE  committed'[g][p] # NoOffset /\ committed'[g][p] >= committed[g][p]
  <2>1. CASE committed'[g] = committed[g]
    BY <1>1, <2>1 DEF TypeOK
  <2>2. CASE pc[g] \in {"skip", "offset", "giveup"} /\ committed'[g] = position[g]
    <3>1. PICK q \in Partitions : Ahead(g, q)
      BY <1>1, <2>2 DEF WindowInv, Window, InFlight
    <3>2. position[g][p] \in {Base(g, p), Base(g, p) + 1}
      BY <3>1 DEF Ahead
    <3>3. QED
      BY <1>1, <2>2, <3>2, SentinelAssumption DEF Base, TypeOK
  <2>3. QED
    BY <1>1, <2>1, <2>2, CommitStep
<1>2. TypeOK /\ WindowInv /\ [Next]_vars =>
        [\A g \in Groups, p \in Partitions :
           committed[g][p] # NoOffset =>
             committed'[g][p] # NoOffset /\ committed'[g][p] >= committed[g][p]]_vars
  BY <1>1
<1>3. QED
  BY <1>2, TypeCorrect, WindowAlways, PTL DEF Spec, OffsetsNeverRewind

-----------------------------------------------------------------------------
\* What each place of the loop knows about the event in hand.

Stage(g) ==
  /\ pc[g] = "skip" => event[g].occ \notin Wanted[g]
  /\ pc[g] \in {"offset", "resolve"} => HandledOcc(g, event[g].occ)

\* A row belongs to the event id it is keyed by.
RowInv == \A k \in Keys : rows[k] # NoRow => IdOf[rows[k].occ] = k[1]

StageInv == (\A g \in Groups : Stage(g)) /\ RowInv

\* With one id per occurrence, the row of an event holds that event's payload.
LEMMA RowOfEvent ==
  ASSUME UniqueIds, TypeOK, RowInv, NEW g \in Groups, event[g] \in Record
  PROVE  /\ Key(g) \in Keys
         /\ Key(g) = <<IdOf[event[g].occ], g>>
         /\ event[g].occ \in Occurrences
         /\ rows[Key(g)] # NoRow => rows[Key(g)].occ = event[g].occ
<1>1. /\ Key(g) \in Keys
      /\ Key(g) = <<IdOf[event[g].occ], g>>
      /\ event[g].occ \in Occurrences
  BY ConstantsAssumption DEF Key, Keys, Record
<1>2. ASSUME rows[Key(g)] # NoRow PROVE rows[Key(g)].occ = event[g].occ
  <2>1. rows[Key(g)].occ \in Occurrences
    BY <1>1, <1>2 DEF TypeOK, Row
  <2>2. IdOf[rows[Key(g)].occ] = IdOf[event[g].occ]
    BY <1>1, <1>2 DEF RowInv
  <2>3. QED
    BY <1>1, <2>1, <2>2 DEF UniqueIds
<1>3. QED
  BY <1>1, <1>2

\* History only grows, and a row once written is never dropped nor given another
\* payload.
LEMMA Grows ==
  ASSUME TypeOK, [Next]_vars
  PROVE  /\ \A g \in Groups : handled[g] \subseteq handled'[g]
         /\ mirrored \subseteq mirrored'
         /\ \A k \in Keys : rows[k] # NoRow =>
                rows'[k] # NoRow /\ rows'[k].occ = rows[k].occ
<1> DEFINE P == /\ \A g \in Groups : handled[g] \subseteq handled'[g]
                /\ mirrored \subseteq mirrored'
                /\ \A k \in Keys : rows[k] # NoRow =>
                       rows'[k] # NoRow /\ rows'[k].occ = rows[k].occ
<1>1. ASSUME NEW h \in Groups, HandleOk(h) PROVE P
  BY <1>1 DEF HandleOk, TypeOK
<1>2. ASSUME NEW h \in Groups, Mirror(h) PROVE P
  BY <1>2 DEF Mirror
<1>3. ASSUME NEW h \in Groups, Resolve(h) PROVE P
  <2>1. /\ UNCHANGED <<handled, mirrored>>
        /\ rows' = rows \/ rows' = [rows EXCEPT ![Key(h)].resolved = TRUE]
        /\ rows' # rows => rows[Key(h)] # NoRow
    BY <1>3 DEF Resolve
  <2>2. \A k \in Keys : rows[k] # NoRow =>
          rows[k] \in Row /\ [rows[k] EXCEPT !.resolved = TRUE] \in Row
    BY DEF TypeOK, Row
  <2>3. \A k \in Keys : rows[k] # NoRow =>
          rows'[k] \in {rows[k], [rows[k] EXCEPT !.resolved = TRUE]}
    BY <2>1 DEF TypeOK
  <2>4. \A k \in Keys : rows[k] # NoRow =>
          [rows[k] EXCEPT !.resolved = TRUE].occ = rows[k].occ
    BY <2>2 DEF Row
  <2>5. QED
    BY <2>1, <2>2, <2>3, <2>4, SentinelAssumption
<1>4. ASSUME NEW h \in Groups, RecordRow(h) PROVE P
  <2>1. UNCHANGED <<handled, mirrored>>
    BY <1>4 DEF RecordRow
  <2>2. ASSUME NEW k \in Keys, rows[k] # NoRow
        PROVE  rows'[k] # NoRow /\ rows'[k].occ = rows[k].occ
    <3>1. \/ rows'[k] = rows[k]
          \/ rows'[k] = [occ |-> rows[k].occ, resolved |-> FALSE]
      BY <1>4, <2>2 DEF RecordRow, TypeOK
    <3>2. [occ |-> rows[k].occ, resolved |-> FALSE] \in Row
      BY <2>2 DEF TypeOK, Row
    <3>3. QED
      BY <2>2, <3>1, <3>2, SentinelAssumption
  <2>3. QED
    BY <2>1, <2>2
<1>5. ASSUME NEW h \in Groups,
             \/ Join(h) \/ Skip(h) \/ SkipDies(h) \/ HandleFail(h) \/ OffsetOk(h)
             \/ OffsetFail(h) \/ ResolveFail(h) \/ RecordFail(h) \/ MirrorFail(h)
             \/ GiveUp(h) \/ GiveUpDies(h) \/ (\E p \in Partitions : Poll(h, p))
      PROVE UNCHANGED <<handled, mirrored, rows>>
  BY <1>5 DEF Join, Skip, SkipDies, HandleFail, OffsetOk, OffsetFail, ResolveFail,
              RecordFail, MirrorFail, GiveUp, GiveUpDies, Poll, CommitDies,
              CommitOffsets
<1>6. ASSUME \/ \E o \in Occurrences : Publish(o)
             \/ \E k \in Keys : ReplayPublish(k)
             \/ ReplaySelect \/ ReplayStop \/ Boot \/ Crash \/ UNCHANGED vars
      PROVE  UNCHANGED <<handled, mirrored, rows>>
  BY <1>6 DEF Publish, ReplayPublish, ReplaySelect, ReplayStop, Boot, Crash, vars
<1>7. UNCHANGED <<handled, mirrored, rows>> => P
  OBVIOUS
<1> HIDE DEF P
<1>8. P
  BY <1>1, <1>2, <1>3, <1>4, <1>5, <1>6, <1>7, NextIsAll, Zenon DEF AllActions
<1>9. QED
  BY <1>8 DEF P

\* How a group's place in the loop and its event change together: it stays put,
\* leaves the loop or waits for the next event, or takes one of these steps.
Moves(g) ==
  \/ pc'[g] = pc[g] /\ event'[g] = event[g]
  \/ pc'[g] \in {"poll", "join", "dead", Down}
  \/ \E p \in Partitions : Poll(g, p)
  \/ HandleOk(g) \/ HandleFail(g) \/ OffsetOk(g) \/ OffsetFail(g)
  \/ RecordRow(g) \/ RecordFail(g) \/ Mirror(g) \/ MirrorFail(g)

LEMMA EveryMove ==
  ASSUME TypeOK, [Next]_vars, NEW g \in Groups PROVE Moves(g)
<1>1. ASSUME NEW h \in Groups, h # g,
             \/ Join(h) \/ Skip(h) \/ SkipDies(h) \/ OffsetOk(h) \/ OffsetFail(h)
             \/ Resolve(h) \/ ResolveFail(h) \/ GiveUp(h) \/ GiveUpDies(h)
             \/ (\E p \in Partitions : Poll(h, p))
      PROVE pc'[g] = pc[g] /\ event'[g] = event[g]
  BY <1>1 DEF Join, Skip, SkipDies, OffsetOk, OffsetFail, Resolve, ResolveFail,
              GiveUp, GiveUpDies, Poll, CommitOffsets, CommitDies, GoTo, LetGo,
              TypeOK
<1>2. ASSUME NEW h \in Groups, h # g,
             \/ HandleOk(h) \/ HandleFail(h) \/ RecordRow(h) \/ RecordFail(h)
             \/ Mirror(h) \/ MirrorFail(h)
      PROVE pc'[g] = pc[g] /\ event'[g] = event[g]
  BY <1>2 DEF HandleOk, HandleFail, RecordRow, RecordFail, Mirror, MirrorFail,
              GoTo, TypeOK
<1>3. ASSUME \/ Join(g) \/ Skip(g) \/ SkipDies(g) \/ Resolve(g) \/ ResolveFail(g)
             \/ GiveUp(g) \/ GiveUpDies(g)
      PROVE pc'[g] \in {"poll", "join", "dead", Down}
  BY <1>3 DEF Join, Skip, SkipDies, Resolve, ResolveFail, GiveUp, GiveUpDies,
              CommitDies, GoTo, LetGo, TypeOK
<1>4. ASSUME \/ \E o \in Occurrences : Publish(o)
             \/ \E k \in Keys : ReplayPublish(k)
             \/ ReplaySelect \/ ReplayStop \/ Boot \/ Crash \/ UNCHANGED vars
      PROVE  Moves(g)
  BY <1>4 DEF Publish, ReplayPublish, ReplaySelect, ReplayStop, Boot, Crash, vars,
              Moves
<1>5. QED
  BY <1>1, <1>2, <1>3, <1>4, NextIsAll, Zenon DEF AllActions, Moves

\* Rows are created by record alone.
LEMMA NewRow ==
  ASSUME TypeOK, [Next]_vars, NEW k \in Keys, rows[k] = NoRow, rows'[k] # NoRow
  PROVE  \E h \in Groups : /\ pc[h] = "record"
                           /\ k = Key(h)
                           /\ rows'[k].occ = event[h].occ
<1>1. ASSUME NEW h \in Groups, RecordRow(h)
      PROVE  pc[h] = "record" /\ k = Key(h) /\ rows'[k].occ = event[h].occ
  <2>1. /\ pc[h] = "record"
        /\ rows' = [rows EXCEPT ![Key(h)] =
                      [occ |-> IF rows[Key(h)] = NoRow THEN event[h].occ
                                                     ELSE rows[Key(h)].occ,
                       resolved |-> FALSE]]
    BY <1>1 DEF RecordRow
  <2>2. k = Key(h)
    BY <2>1 DEF TypeOK
  <2>3. QED
    BY <2>1, <2>2 DEF TypeOK
<1>2. ASSUME NEW h \in Groups, Resolve(h) PROVE FALSE
  BY <1>2 DEF Resolve, TypeOK
<1>3. ASSUME NEW h \in Groups,
             \/ Join(h) \/ Skip(h) \/ SkipDies(h) \/ HandleFail(h) \/ OffsetOk(h)
             \/ OffsetFail(h) \/ ResolveFail(h) \/ RecordFail(h) \/ MirrorFail(h)
             \/ GiveUp(h) \/ GiveUpDies(h) \/ (\E p \in Partitions : Poll(h, p))
             \/ HandleOk(h) \/ Mirror(h)
      PROVE UNCHANGED rows
  BY <1>3 DEF Join, Skip, SkipDies, HandleFail, OffsetOk, OffsetFail, ResolveFail,
              RecordFail, MirrorFail, GiveUp, GiveUpDies, Poll, CommitDies,
              CommitOffsets, HandleOk, Mirror
<1>4. ASSUME \/ \E o \in Occurrences : Publish(o)
             \/ \E i \in Keys : ReplayPublish(i)
             \/ ReplaySelect \/ ReplayStop \/ Boot \/ Crash \/ UNCHANGED vars
      PROVE  UNCHANGED rows
  BY <1>4 DEF Publish, ReplayPublish, ReplaySelect, ReplayStop, Boot, Crash, vars
<1>5. QED
  BY <1>1, <1>2, <1>3, <1>4, NextIsAll, Zenon DEF AllActions

LEMMA StageStep == TypeOK /\ StageInv /\ [Next]_vars => StageInv'
<1> SUFFICES ASSUME TypeOK, StageInv, [Next]_vars PROVE StageInv'
  OBVIOUS
<1>1. RowInv'
  <2> SUFFICES ASSUME NEW k \in Keys, rows'[k] # NoRow
               PROVE  IdOf[rows'[k].occ] = k[1]
    BY DEF RowInv
  <2>1. CASE rows[k] # NoRow
    BY <2>1, Grows DEF StageInv, RowInv
  <2>2. CASE rows[k] = NoRow
    BY <2>2, NewRow DEF Key
  <2>3. QED
    BY <2>1, <2>2
<1>2. ASSUME NEW g \in Groups PROVE Stage(g)'
  <2>2. \A o : HandledOcc(g, o) => HandledOcc(g, o)'
    BY Grows DEF HandledOcc
  <2>3. Stage(g) /\ Moves(g)
    BY EveryMove DEF StageInv
  <2>4. CASE pc'[g] = pc[g] /\ event'[g] = event[g]
    BY <2>2, <2>3, <2>4 DEF Stage
  <2>5. CASE pc'[g] \in {"poll", "join", "dead", Down}
    BY <2>5 DEF Stage, Down
  <2>6. ASSUME NEW p \in Partitions, Poll(g, p) PROVE Stage(g)'
    BY <2>6 DEF Poll, GoTo, Stage, TypeOK
  <2>7. CASE HandleOk(g)
    <3>1. /\ pc'[g] = "offset"
          /\ event'[g] = event[g]
          /\ event[g] \in handled'[g]
      BY <2>7 DEF HandleOk, GoTo, TypeOK
    <3>2. QED
      BY <3>1 DEF Stage, HandledOcc
  <2>8. CASE OffsetOk(g)
    <3>1. pc[g] = "offset" /\ pc'[g] = "resolve" /\ event'[g] = event[g]
      BY <2>8 DEF OffsetOk, GoTo, TypeOK
    <3>2. QED
      BY <2>2, <2>3, <3>1 DEF Stage
  <2>9. CASE \/ HandleFail(g) \/ OffsetFail(g) \/ RecordRow(g) \/ RecordFail(g)
             \/ Mirror(g) \/ MirrorFail(g)
    <3>1. pc'[g] \in {"record", "mirror", "giveup"}
      BY <2>9 DEF HandleFail, OffsetFail, RecordRow, RecordFail, Mirror,
                  MirrorFail, GoTo, TypeOK
    <3>2. QED
      BY <3>1 DEF Stage
  <2>10. QED
    BY <2>3, <2>4, <2>5, <2>6, <2>7, <2>8, <2>9 DEF Moves
<1>3. QED
  BY <1>1, <1>2 DEF StageInv

LEMMA StageAlways == Spec => []StageInv
<1>1. Init => StageInv
  BY DEF Init, StageInv, Stage, RowInv, Down
<1>2. QED
  BY <1>1, StageStep, TypeCorrect, PTL DEF Spec

-----------------------------------------------------------------------------
\* Nothing a committed offset has left behind is forgotten.

\* The topic only grows at the end of a partition.
LEMMA LogStep ==
  ASSUME TypeOK, [Next]_vars
  PROVE  \/ log' = log
         \/ \E q \in Partitions, r \in Record :
               log' = [log EXCEPT ![q] = Append(@, r)]
<1>1. ASSUME NEW o \in Occurrences, Publish(o)
      PROVE  \E q \in Partitions, r \in Record :
               log' = [log EXCEPT ![q] = Append(@, r)]
  BY <1>1, ConstantsAssumption DEF Publish, Append1, Record
<1>2. ASSUME NEW k \in Keys, ReplayPublish(k)
      PROVE  \E q \in Partitions, r \in Record :
               log' = [log EXCEPT ![q] = Append(@, r)]
  <2>1. /\ PartitionOf[NoCustomer] \in Partitions
        /\ [occ |-> rows[k].occ, cust |-> NoCustomer] \in Record
    BY <1>2, ConstantsAssumption DEF ReplayPublish, Record, Row, TypeOK
  <2>2. QED
    BY <1>2, <2>1 DEF ReplayPublish, Append1
<1>3. ASSUME NEW h \in Groups,
             \/ Join(h) \/ Skip(h) \/ SkipDies(h) \/ OffsetOk(h) \/ OffsetFail(h)
             \/ Resolve(h) \/ ResolveFail(h) \/ GiveUp(h) \/ GiveUpDies(h)
             \/ HandleOk(h) \/ HandleFail(h) \/ RecordRow(h) \/ RecordFail(h)
             \/ Mirror(h) \/ MirrorFail(h) \/ (\E q \in Partitions : Poll(h, q))
      PROVE log' = log
  BY <1>3 DEF Join, Skip, SkipDies, OffsetOk, OffsetFail, Resolve, ResolveFail,
              GiveUp, GiveUpDies, Poll, CommitOffsets, CommitDies, HandleOk,
              HandleFail, RecordRow, RecordFail, Mirror, MirrorFail
<1>4. ASSUME ReplaySelect \/ ReplayStop \/ Boot \/ Crash \/ UNCHANGED vars
      PROVE  log' = log
  BY <1>4 DEF ReplaySelect, ReplayStop, Boot, Crash, vars
<1>5. QED
  BY <1>1, <1>2, <1>3, <1>4, NextIsAll, Zenon DEF AllActions

\* Only joining moves the beginning, and only where nothing is committed.
LEMMA BeginStep ==
  ASSUME TypeOK, [Next]_vars, NEW g \in Groups, NEW p \in Partitions,
         committed[g][p] # NoOffset
  PROVE  begin'[g][p] = begin[g][p]
<1>1. ASSUME NEW h \in Groups, Join(h) PROVE begin'[g][p] = begin[g][p]
  BY <1>1 DEF Join, TypeOK
<1>2. ASSUME NEW h \in Groups,
             \/ Skip(h) \/ SkipDies(h) \/ OffsetOk(h) \/ OffsetFail(h)
             \/ Resolve(h) \/ ResolveFail(h) \/ GiveUp(h) \/ GiveUpDies(h)
             \/ HandleOk(h) \/ HandleFail(h) \/ RecordRow(h) \/ RecordFail(h)
             \/ Mirror(h) \/ MirrorFail(h) \/ (\E q \in Partitions : Poll(h, q))
      PROVE begin' = begin
  BY <1>2 DEF Skip, SkipDies, OffsetOk, OffsetFail, Resolve, ResolveFail, GiveUp,
              GiveUpDies, Poll, CommitOffsets, CommitDies, HandleOk, HandleFail,
              RecordRow, RecordFail, Mirror, MirrorFail
<1>3. ASSUME \/ \E o \in Occurrences : Publish(o)
             \/ \E k \in Keys : ReplayPublish(k)
             \/ ReplaySelect \/ ReplayStop \/ Boot \/ Crash \/ UNCHANGED vars
      PROVE  begin' = begin
  BY <1>3 DEF Publish, ReplayPublish, ReplaySelect, ReplayStop, Boot, Crash, vars
<1>4. QED
  BY <1>1, <1>2, <1>3, NextIsAll, Zenon DEF AllActions

\* An offset that a step adds to those passed is of the event in hand.
LEMMA PassedStep ==
  ASSUME TypeOK, WindowInv, [Next]_vars,
         NEW g \in Groups, NEW p \in Partitions, NEW i \in Passed(g, p)'
  PROVE  \/ i \in Passed(g, p) /\ log'[p][i] = log[p][i]
         \/ /\ pc[g] \in {"skip", "offset", "giveup"}
            /\ log'[p][i] = event[g]
<1>1. Window(g)
  BY DEF WindowInv
<1>2. CASE committed'[g] = committed[g]
  <2>1. committed[g][p] # NoOffset
    BY <1>2 DEF Passed
  <2>2. begin'[g][p] = begin[g][p]
    BY <2>1, BeginStep
  <2>3. i \in Passed(g, p)
    BY <1>2, <2>2 DEF Passed
  <2>4. i \in 1..Len(log[p])
    BY <1>1, <2>1, <2>3, SentinelAssumption DEF Passed, Window, Base, TypeOK
  <2>5. ASSUME NEW q \in Partitions, NEW r \in Record,
               log' = [log EXCEPT ![q] = Append(@, r)]
        PROVE  log'[p][i] = log[p][i]
    BY <2>4, <2>5 DEF TypeOK
  <2>6. log'[p][i] = log[p][i]
    BY <2>5, LogStep
  <2>7. QED
    BY <2>3, <2>6
<1>3. CASE /\ pc[g] \in {"skip", "offset", "giveup"}
           /\ committed'[g] = position[g]
           /\ UNCHANGED <<log, begin>>
  <2>1. PICK q \in Partitions : Ahead(g, q)
    BY <1>1, <1>3 DEF Window, InFlight
  <2>2. i \in (begin[g][p] + 1)..position[g][p]
    BY <1>3, SentinelAssumption DEF Passed, TypeOK
  <2>3. CASE i \in Passed(g, p)
    BY <1>3, <2>3
  <2>4. CASE i \notin Passed(g, p)
    <3>1. p = q /\ i = position[g][q]
      BY <2>1, <2>2, <2>4, SentinelAssumption DEF Ahead, Base, Passed, TypeOK
    <3>2. QED
      BY <1>3, <2>1, <3>1 DEF Ahead
  <2>5. QED
    BY <2>3, <2>4
<1>4. QED
  BY <1>2, <1>3, CommitStep

\* What the except clause has secured for the event in hand.
KeptStage(g) ==
  pc[g] \in {"mirror", "giveup"} =>
    HandledOcc(g, event[g].occ) \/ Parked(g, event[g].occ)
KeptInv == (\A g \in Groups : KeptStage(g)) /\ Replayable

LEMMA KeptGrows ==
  ASSUME TypeOK, [Next]_vars, NEW g \in Groups, NEW o \in Occurrences
  PROVE  /\ HandledOcc(g, o) => HandledOcc(g, o)'
         /\ Parked(g, o) => Parked(g, o)'
         /\ o \in mirrored => o \in mirrored'
<1>1. <<IdOf[o], g>> \in Keys
  BY ConstantsAssumption DEF Keys
<1>2. QED
  BY <1>1, Grows DEF HandledOcc, Parked

LEMMA KeptStep ==
  ASSUME UniqueIds, "record" \notin Outages,
         TypeOK, WindowInv, StageInv, KeptInv, [Next]_vars
  PROVE  KeptInv'
<1>1. ASSUME NEW g \in Groups PROVE KeptStage(g)'
  <2>1. KeptStage(g) /\ Moves(g)
    BY EveryMove DEF KeptInv
  <2>2. pc[g] \in InFlight => event[g] \in Record /\ event[g].occ \in Occurrences
    BY DEF TypeOK, Record
  <2>3. CASE event'[g] = event[g] /\ pc[g] \in {"mirror", "giveup"}
    BY <2>1, <2>2, <2>3, KeptGrows DEF KeptStage, InFlight
  <2>4. CASE RecordRow(g)
    <3>1. /\ event[g] \in Record
          /\ pc'[g] = "mirror"
          /\ event'[g] = event[g]
      BY <2>4 DEF RecordRow, GoTo, TypeOK, InFlight
    <3>2. /\ Key(g) \in Keys
          /\ Key(g) = <<IdOf[event[g].occ], g>>
          /\ event[g].occ \in Occurrences
          /\ rows[Key(g)] # NoRow => rows[Key(g)].occ = event[g].occ
      BY <3>1, RowOfEvent DEF StageInv
    <3> DEFINE row == [occ |-> event[g].occ, resolved |-> FALSE]
    <3>3. row \in Row /\ row.occ = event[g].occ
      BY <3>2 DEF Row
    <3>4. rows'[Key(g)] = row
      <4>1. rows'[Key(g)] = [occ |-> IF rows[Key(g)] = NoRow
                                     THEN event[g].occ ELSE rows[Key(g)].occ,
                             resolved |-> FALSE]
        BY <2>4, <3>2 DEF RecordRow, TypeOK
      <4>2. QED
        BY <3>2, <4>1
    <3> HIDE DEF row
    <3>5. Parked(g, event[g].occ)'
      <4>1. rows'[Key(g)] # NoRow /\ rows'[Key(g)].occ = event[g].occ
        BY <3>3, <3>4, SentinelAssumption
      <4>2. Key(g) = <<IdOf[event'[g].occ], g>>
        BY <3>1, <3>2
      <4>3. QED
        BY <3>1, <4>1, <4>2 DEF Parked
    <3>6. QED
      BY <3>1, <3>5 DEF KeptStage
  <2>5. CASE RecordFail(g)
    BY <2>5 DEF RecordFail, Fault
  <2>6. CASE \/ HandleOk(g) \/ HandleFail(g) \/ OffsetOk(g) \/ OffsetFail(g)
             \/ (\E p \in Partitions : Poll(g, p))
    <3>1. pc'[g] \in {"skip", "handle", "offset", "record", "resolve"}
      BY <2>6 DEF HandleOk, HandleFail, OffsetOk, OffsetFail, Poll, GoTo, TypeOK
    <3>2. QED
      BY <3>1 DEF KeptStage
  <2>7. CASE Mirror(g) \/ MirrorFail(g)
    <3>1. pc[g] = "mirror" /\ event'[g] = event[g]
      BY <2>7 DEF Mirror, MirrorFail
    <3>2. QED
      BY <2>3, <3>1
  <2>8. CASE pc'[g] = pc[g] /\ event'[g] = event[g]
    BY <2>3, <2>8 DEF KeptStage
  <2>9. CASE pc'[g] \in {"poll", "join", "dead", Down}
    BY <2>9 DEF KeptStage, Down
  <2>10. QED
    BY <2>1, <2>4, <2>5, <2>6, <2>7, <2>8, <2>9 DEF Moves
<1>2. Replayable'
  <2> SUFFICES ASSUME NEW g \in Groups, NEW p \in Partitions,
                      NEW o \in Occurrences, NEW i \in Passed(g, p)',
                      log'[p][i].occ = o, o \in Wanted[g]
               PROVE  HandledOcc(g, o)' \/ Parked(g, o)'
    BY DEF Replayable, Wants
  <2>1. CASE i \in Passed(g, p) /\ log'[p][i] = log[p][i]
    <3>1. HandledOcc(g, o) \/ Parked(g, o)
      BY <2>1 DEF KeptInv, Replayable, Wants
    <3>2. QED
      BY <3>1, KeptGrows
  <2>2. CASE pc[g] \in {"skip", "offset", "giveup"} /\ log'[p][i] = event[g]
    <3>1. HandledOcc(g, o) \/ Parked(g, o)
      BY <2>2 DEF StageInv, Stage, KeptInv, KeptStage
    <3>2. QED
      BY <3>1, KeptGrows
  <2>3. QED
    BY <2>1, <2>2, PassedStep
<1>3. QED
  BY <1>1, <1>2 DEF KeptInv

\* As long as dead-letter rows can be written, and events have ids of their own,
\* every event a group has left behind was handled or can be replayed.
THEOREM NothingForgotten ==
  ASSUME UniqueIds, "record" \notin Outages
  PROVE  Spec => []Replayable
<1>1. Init => KeptInv
  BY DEF Init, KeptInv, KeptStage, Replayable, Passed, Down
<1>2. TypeOK /\ WindowInv /\ StageInv /\ KeptInv /\ [Next]_vars => KeptInv'
  BY KeptStep
<1>3. KeptInv => Replayable
  BY DEF KeptInv
<1>4. QED
  BY <1>1, <1>2, <1>3, TypeCorrect, WindowAlways, StageAlways, PTL DEF Spec

-----------------------------------------------------------------------------
\* Skipped events reach the mirror topic even when the row cannot be written.

MirrorStage(g) == pc[g] = "giveup" => event[g].occ \in mirrored
SilentInv == (\A g \in Groups : MirrorStage(g)) /\ NoSilentLoss

LEMMA SilentStep ==
  ASSUME "mirror" \notin Outages,
         TypeOK, WindowInv, StageInv, SilentInv, [Next]_vars
  PROVE  SilentInv'
<1>1. ASSUME NEW g \in Groups PROVE MirrorStage(g)'
  <2>1. MirrorStage(g) /\ Moves(g) /\ mirrored \subseteq mirrored'
    BY EveryMove, Grows DEF SilentInv
  <2>2. CASE Mirror(g)
    BY <2>2 DEF Mirror, MirrorStage
  <2>3. CASE MirrorFail(g)
    BY <2>3 DEF MirrorFail, Fault
  <2>4. CASE \/ HandleOk(g) \/ HandleFail(g) \/ OffsetOk(g) \/ OffsetFail(g)
             \/ RecordRow(g) \/ RecordFail(g)
             \/ (\E p \in Partitions : Poll(g, p))
    <3>1. pc'[g] # "giveup"
      BY <2>4 DEF HandleOk, HandleFail, OffsetOk, OffsetFail, RecordRow,
                  RecordFail, Poll, GoTo, TypeOK
    <3>2. QED
      BY <3>1 DEF MirrorStage
  <2>5. CASE pc'[g] = pc[g] /\ event'[g] = event[g]
    BY <2>1, <2>5 DEF MirrorStage
  <2>6. CASE pc'[g] \in {"poll", "join", "dead", Down}
    BY <2>6 DEF MirrorStage, Down
  <2>7. QED
    BY <2>1, <2>2, <2>3, <2>4, <2>5, <2>6 DEF Moves
<1>2. NoSilentLoss'
  <2> SUFFICES ASSUME NEW g \in Groups, NEW p \in Partitions,
                      NEW o \in Occurrences, NEW i \in Passed(g, p)',
                      log'[p][i].occ = o, o \in Wanted[g]
               PROVE  HandledOcc(g, o)' \/ Parked(g, o)' \/ o \in mirrored'
    BY DEF NoSilentLoss, Wants
  <2>1. CASE i \in Passed(g, p) /\ log'[p][i] = log[p][i]
    <3>1. HandledOcc(g, o) \/ Parked(g, o) \/ o \in mirrored
      BY <2>1 DEF SilentInv, NoSilentLoss, Wants
    <3>2. QED
      BY <3>1, KeptGrows
  <2>2. CASE pc[g] \in {"skip", "offset", "giveup"} /\ log'[p][i] = event[g]
    <3>1. HandledOcc(g, o) \/ o \in mirrored
      BY <2>2 DEF StageInv, Stage, SilentInv, MirrorStage
    <3>2. QED
      BY <3>1, KeptGrows
  <2>3. QED
    BY <2>1, <2>2, PassedStep
<1>3. QED
  BY <1>1, <1>2 DEF SilentInv

\* While the mirror topic can be written, an event a group has left behind is
\* handled, replayable or at least on the mirror, whatever happens to the
\* database and even when ids collide.
THEOREM NothingSilentlyLost ==
  ASSUME "mirror" \notin Outages
  PROVE  Spec => []NoSilentLoss
<1>1. Init => SilentInv
  BY DEF Init, SilentInv, MirrorStage, NoSilentLoss, Passed, Down
<1>2. TypeOK /\ WindowInv /\ StageInv /\ SilentInv /\ [Next]_vars => SilentInv'
  BY SilentStep
<1>3. SilentInv => NoSilentLoss
  BY DEF SilentInv
<1>4. QED
  BY <1>1, <1>2, <1>3, TypeCorrect, WindowAlways, StageAlways, PTL DEF Spec

-----------------------------------------------------------------------------
\* Rows are resolved by the success of their own event.

LEMMA NewResolved ==
  ASSUME TypeOK, [Next]_vars, NEW k \in Keys, rows'[k] # NoRow, rows'[k].resolved
  PROVE  \/ rows[k] # NoRow /\ rows[k].resolved
         \/ \E h \in Groups : /\ pc[h] = "resolve"
                              /\ k = Key(h)
                              /\ rows[k] # NoRow
<1> DEFINE Q == \/ rows[k] # NoRow /\ rows[k].resolved
                \/ \E h \in Groups : /\ pc[h] = "resolve"
                                     /\ k = Key(h)
                                     /\ rows[k] # NoRow
<1>1. ASSUME NEW h \in Groups, RecordRow(h) PROVE Q
  <2>1. CASE k = Key(h)
    <3>1. rows'[k].resolved = FALSE
      BY <1>1, <2>1 DEF RecordRow, TypeOK
    <3>2. QED
      BY <3>1
  <2>2. CASE k # Key(h)
    BY <1>1, <2>2 DEF RecordRow, TypeOK
  <2>3. QED
    BY <2>1, <2>2
<1>2. ASSUME NEW h \in Groups, Resolve(h) PROVE Q
  BY <1>2 DEF Resolve, TypeOK
<1>3. UNCHANGED rows => Q
  OBVIOUS
<1>4. ASSUME NEW h \in Groups,
             \/ Join(h) \/ Skip(h) \/ SkipDies(h) \/ HandleFail(h) \/ OffsetOk(h)
             \/ OffsetFail(h) \/ ResolveFail(h) \/ RecordFail(h) \/ MirrorFail(h)
             \/ GiveUp(h) \/ GiveUpDies(h) \/ (\E p \in Partitions : Poll(h, p))
             \/ HandleOk(h) \/ Mirror(h)
      PROVE UNCHANGED rows
  BY <1>4 DEF Join, Skip, SkipDies, HandleFail, OffsetOk, OffsetFail, ResolveFail,
              RecordFail, MirrorFail, GiveUp, GiveUpDies, Poll, CommitDies,
              CommitOffsets, HandleOk, Mirror
<1>5. ASSUME \/ \E o \in Occurrences : Publish(o)
             \/ \E i \in Keys : ReplayPublish(i)
             \/ ReplaySelect \/ ReplayStop \/ Boot \/ Crash \/ UNCHANGED vars
      PROVE  UNCHANGED rows
  BY <1>5 DEF Publish, ReplayPublish, ReplaySelect, ReplayStop, Boot, Crash, vars
<1> HIDE DEF Q
<1>6. Q
  BY <1>1, <1>2, <1>3, <1>4, <1>5, NextIsAll, Zenon DEF AllActions
<1>7. QED
  BY <1>6 DEF Q

LEMMA ResolvedStep ==
  ASSUME UniqueIds, TypeOK, StageInv, ResolvedWasHandled, [Next]_vars
  PROVE  ResolvedWasHandled'
<1> SUFFICES ASSUME NEW k \in Keys, rows'[k] # NoRow, rows'[k].resolved
             PROVE  HandledOcc(k[2], rows[k].occ)'
  BY DEF ResolvedWasHandled
<1>1. k[2] \in Groups
  BY DEF Keys
<1>2. CASE rows[k] # NoRow /\ rows[k].resolved
  <2>1. HandledOcc(k[2], rows[k].occ) /\ rows'[k].occ = rows[k].occ
    BY <1>2, Grows DEF ResolvedWasHandled
  <2>2. QED
    BY <1>1, <2>1, Grows DEF HandledOcc
<1>3. ASSUME NEW h \in Groups, pc[h] = "resolve", k = Key(h), rows[k] # NoRow
      PROVE  HandledOcc(k[2], rows[k].occ)'
  <2>1. event[h] \in Record /\ HandledOcc(h, event[h].occ)
    BY <1>3 DEF StageInv, Stage, TypeOK
  <2>2. rows[k].occ = event[h].occ /\ k[2] = h
    BY <1>3, <2>1, RowOfEvent DEF StageInv
  <2>3. rows'[k].occ = event[h].occ
    BY <1>3, <2>2, Grows
  <2>4. QED
    BY <2>1, <2>2, <2>3, Grows DEF HandledOcc
<1>4. QED
  BY <1>2, <1>3, NewResolved

\* With an id per event, a dead-letter row is resolved only when its group has
\* handled the very event whose payload the row keeps.
THEOREM ResolvedSound ==
  ASSUME UniqueIds
  PROVE  Spec => []ResolvedWasHandled
<1>1. Init => ResolvedWasHandled
  BY DEF Init, ResolvedWasHandled
<1>2. TypeOK /\ StageInv /\ ResolvedWasHandled /\ [Next]_vars
        => ResolvedWasHandled'
  BY ResolvedStep
<1>3. QED
  BY <1>1, <1>2, TypeCorrect, StageAlways, PTL DEF Spec
-----------------------------------------------------------------------------
(* The consumer loops implement the at-least-once delivery of Delivery *)

\* The refinement mapping of Worker!Promise, named.
Started == [g \in Groups |-> [p \in Partitions |-> committed[g][p] # NoOffset]]
Done == [g \in Groups |-> [p \in Partitions |-> Base(g, p)]]
Settled == [g \in Groups |->
              {o \in Occurrences : \/ HandledOcc(g, o)
                                   \/ Parked(g, o)
                                   \/ o \in mirrored}]

\* A group about to commit has nothing to answer for in the record in hand.
Answered == \A g \in Groups :
  pc[g] \in {"skip", "offset", "giveup"} =>
    (event[g].occ \in Wanted[g] => event[g].occ \in Settled[g])

LEMMA AnsweredAlways ==
  ASSUME \/ UniqueIds /\ "record" \notin Outages
         \/ "mirror" \notin Outages
  PROVE  Spec => []Answered
<1>1. TypeOK /\ StageInv /\ (KeptInv \/ SilentInv) => Answered
  <2> SUFFICES ASSUME TypeOK, StageInv, KeptInv \/ SilentInv, NEW g \in Groups,
                      pc[g] \in {"skip", "offset", "giveup"},
                      event[g].occ \in Wanted[g]
               PROVE  event[g].occ \in Settled[g]
    BY DEF Answered
  <2>1. event[g].occ \in Occurrences
    BY DEF TypeOK, InFlight, Record
  <2>2. CASE pc[g] \in {"skip", "offset"}
    BY <2>1, <2>2 DEF StageInv, Stage, Settled
  <2>3. CASE pc[g] = "giveup"
    BY <2>1, <2>3 DEF KeptInv, KeptStage, SilentInv, MirrorStage, Settled
  <2>4. QED
    BY <2>2, <2>3
<1>2. CASE UniqueIds /\ "record" \notin Outages
  <2>1. Init => KeptInv
    BY DEF Init, KeptInv, KeptStage, Replayable, Passed, Down
  <2>2. TypeOK /\ WindowInv /\ StageInv /\ KeptInv /\ [Next]_vars => KeptInv'
    BY <1>2, KeptStep
  <2>3. QED
    BY <1>1, <2>1, <2>2, TypeCorrect, WindowAlways, StageAlways, PTL DEF Spec
<1>3. CASE "mirror" \notin Outages
  <2>1. Init => SilentInv
    BY DEF Init, SilentInv, MirrorStage, NoSilentLoss, Passed, Down
  <2>2. TypeOK /\ WindowInv /\ StageInv /\ SilentInv /\ [Next]_vars => SilentInv'
    BY <1>3, SilentStep
  <2>3. QED
    BY <1>1, <2>1, <2>2, TypeCorrect, WindowAlways, StageAlways, PTL DEF Spec
<1>4. QED
  BY <1>2, <1>3

\* A step that leaves the log and the offsets alone at most settles more.
LEMMA SettleStep ==
  ASSUME TypeOK, [Next]_vars, UNCHANGED <<log, committed, begin>>
  PROVE  Promise!Settle
<1>1. Started' = Started /\ Done' = Done
  BY DEF Started, Done, Base
<1>2. ASSUME NEW g \in Groups PROVE Settled[g] \subseteq Settled'[g]
  BY KeptGrows DEF Settled
<1>3. QED
  BY <1>1, <1>2 DEF Promise!Settle, Started, Done, Settled

LEMMA PublishStep ==
  ASSUME UNCHANGED <<committed, begin, handled, rows, mirrored>>,
         NEW p \in Partitions, NEW r \in Record,
         log' = [log EXCEPT ![p] = Append(@, r)]
  PROVE  Promise!Publish
<1>1. Started' = Started /\ Done' = Done /\ Settled' = Settled
  BY DEF Started, Done, Base, Settled, HandledOcc, Parked
<1>2. QED
  BY <1>1 DEF Promise!Publish, Started, Done, Settled

\* A joining group begins at the end of what it has never committed on.
LEMMA JoinStep ==
  ASSUME TypeOK, NEW g \in Groups, Join(g)
  PROVE  Promise!Begin(g)
<1>1. UNCHANGED <<log, committed, handled, rows, mirrored>>
  BY DEF Join
<1>2. Started' = Started /\ Settled' = Settled
  BY <1>1 DEF Started, Settled, HandledOcc, Parked
<1> DEFINE New(old) ==
      [p \in Partitions |-> IF Started[g][p] THEN old[p] ELSE Len(log[p])]
<1>3. begin' = [begin EXCEPT ![g] = New(begin[g])]
  BY DEF Join, Started
<1>4. Done' = [Done EXCEPT ![g] = New(Done[g])]
  <2>1. ASSUME NEW h \in Groups, NEW p \in Partitions
        PROVE  Done'[h][p] = [Done EXCEPT ![g] = New(Done[g])][h][p]
    BY <1>1, <1>3 DEF Done, Base, Started, TypeOK
  <2>2. QED
    BY <2>1 DEF Done
<1>5. QED
  BY <1>1, <1>2, <1>3, <1>4 DEF Promise!Begin, Started, Done, Settled

\* A commit leaves exactly the record in hand behind.
LEMMA AdvanceStep ==
  ASSUME TypeOK, WindowInv, Answered, NEW g \in Groups,
         pc[g] \in {"skip", "offset", "giveup"},
         committed' = [committed EXCEPT ![g] = position[g]],
         UNCHANGED <<log, begin, handled, rows, mirrored>>
  PROVE  Promise!Advance(g)
<1>1. PICK p \in Partitions : Ahead(g, p)
  BY DEF WindowInv, Window, InFlight
<1>2. position[g] \in [Partitions -> Nat] /\ \A q \in Partitions : Base(g, q) \in Nat
  BY DEF TypeOK, WindowInv, Window
<1>3. Started' = [Started EXCEPT ![g] = [q \in Partitions |-> TRUE]]
  <2>1. \A q \in Partitions : committed'[g][q] # NoOffset
    BY <1>2, SentinelAssumption DEF TypeOK
  <2>2. \A h \in Groups \ {g} : committed'[h] = committed[h]
    BY DEF TypeOK
  <2>3. QED
    BY <2>1, <2>2 DEF Started
<1>4. Settled' = Settled
  BY DEF Settled, HandledOcc, Parked
<1>5. \A q \in Partitions : Base(g, q)' = position[g][q]
  BY <1>2, SentinelAssumption DEF Base, TypeOK
<1>6. \A h \in Groups \ {g}, q \in Partitions : Base(h, q)' = Base(h, q)
  BY DEF Base, TypeOK
<1>7. Done' = [Done EXCEPT ![g][p] = @ + 1]
  <2>1. ASSUME NEW h \in Groups, NEW q \in Partitions
        PROVE  Done'[h][q] = [Done EXCEPT ![g][p] = @ + 1][h][q]
    BY <1>1, <1>5, <1>6 DEF Done, Ahead
  <2>2. QED
    BY <2>1 DEF Done
<1>8. /\ Done[g][p] < Len(log[p])
      /\ log[p][Done[g][p] + 1].occ \in Wanted[g] =>
           log[p][Done[g][p] + 1].occ \in Settled[g]
  <2>1. /\ Done[g][p] = Base(g, p)
        /\ position[g][p] = Base(g, p) + 1
        /\ position[g][p] <= Len(log[p])
        /\ log[p][Base(g, p) + 1] = event[g]
    BY <1>1 DEF Done, Ahead
  <2>2. Base(g, p) \in Nat /\ Len(log[p]) \in Nat
    BY <1>2 DEF TypeOK
  <2>3. event[g].occ \in Wanted[g] => event[g].occ \in Settled[g]
    BY DEF Answered
  <2>4. QED
    BY <2>1, <2>2, <2>3
<1>9. Promise!Leave(g, p)
  BY <1>7, <1>8 DEF Promise!Leave, Done, Settled
<1>10. QED
  BY <1>3, <1>4, <1>9 DEF Promise!Advance, Started, Settled

LEMMA StepRefines ==
  ASSUME TypeOK, WindowInv, Answered, [Next]_vars
  PROVE  Promise!Next \/ UNCHANGED Promise!vars
<1>1. ASSUME NEW o \in Occurrences, Publish(o) PROVE Promise!Publish
  <2>1. /\ PartitionOf[CustomerOf[o]] \in Partitions
        /\ [occ |-> o, cust |-> CustomerOf[o]] \in Record
    BY ConstantsAssumption DEF Record
  <2>2. QED
    BY <1>1, <2>1, PublishStep DEF Publish, Append1
<1>2. ASSUME NEW k \in Keys, ReplayPublish(k) PROVE Promise!Publish
  <2>1. /\ PartitionOf[NoCustomer] \in Partitions
        /\ [occ |-> rows[k].occ, cust |-> NoCustomer] \in Record
    BY <1>2, ConstantsAssumption DEF ReplayPublish, Record, Row, TypeOK
  <2>2. QED
    BY <1>2, <2>1, PublishStep DEF ReplayPublish, Append1
<1>3. ASSUME NEW g \in Groups, Skip(g) \/ OffsetOk(g) \/ GiveUp(g)
      PROVE  Promise!Advance(g)
  BY <1>3, AdvanceStep DEF Skip, OffsetOk, GiveUp, CommitOffsets
<1>4. ASSUME NEW g \in Groups,
             \/ SkipDies(g) \/ GiveUpDies(g) \/ OffsetFail(g)
             \/ (\E p \in Partitions : Poll(g, p)) \/ Resolve(g) \/ ResolveFail(g)
             \/ HandleOk(g) \/ HandleFail(g) \/ RecordRow(g) \/ RecordFail(g)
             \/ Mirror(g) \/ MirrorFail(g)
      PROVE  UNCHANGED <<log, committed, begin>>
  BY <1>4 DEF SkipDies, GiveUpDies, OffsetFail, Poll, Resolve, ResolveFail,
              CommitDies, HandleOk, HandleFail, RecordRow, RecordFail, Mirror,
              MirrorFail
<1>5. ASSUME ReplaySelect \/ ReplayStop \/ Boot \/ Crash \/ UNCHANGED vars
      PROVE  UNCHANGED <<log, committed, begin>>
  BY <1>5 DEF ReplaySelect, ReplayStop, Boot, Crash, vars
<1>6. ASSUME UNCHANGED <<log, committed, begin>> PROVE Promise!Settle
  BY <1>6, SettleStep
<1>7. \/ Promise!Publish \/ Promise!Settle
      \/ \E g \in Groups : Promise!Begin(g) \/ Promise!Advance(g)
  <2>1. CASE UNCHANGED vars
    BY <1>5, <1>6, <2>1
  <2>2. CASE AllActions
    <3>1. \A g \in Groups : Join(g) => Promise!Begin(g)
      BY JoinStep
    <3>2. QED
      BY <1>1, <1>2, <1>3, <1>4, <1>5, <1>6, <2>2, <3>1, Zenon DEF AllActions
  <2>3. QED
    BY <2>1, <2>2, NextIsAll
<1>8. QED
  BY <1>7 DEF Promise!Next

\* The pipeline implements at-least-once delivery: provided the dead-letter
\* rows can be written and ids are unique, or else the mirror topic can be
\* written, every behaviour of the consumer loops, crashes and failed commits
\* included, is one of Delivery's.
THEOREM PipelineDelivers ==
  ASSUME \/ UniqueIds /\ "record" \notin Outages
         \/ "mirror" \notin Outages
  PROVE  Spec => Delivers
<1>1. Init => Promise!Init
  <2> SUFFICES ASSUME Init PROVE Promise!Init
    OBVIOUS
  <2>1. /\ Started = [g \in Groups |-> [p \in Partitions |-> FALSE]]
        /\ Done = [g \in Groups |-> [p \in Partitions |-> 0]]
    BY DEF Init, Started, Done, Base
  <2>2. Settled = [g \in Groups |-> {}]
    BY ConstantsAssumption DEF Init, Settled, HandledOcc, Parked, Keys
  <2>3. QED
    BY <2>1, <2>2 DEF Init, Promise!Init, Started, Done, Settled
<1>2. TypeOK /\ WindowInv /\ Answered /\ [Next]_vars
        => [Promise!Next]_(Promise!vars)
  BY StepRefines
<1>3. QED
  BY <1>1, <1>2, TypeCorrect, WindowAlways, AnsweredAlways, PTL
     DEF Spec, Delivers, Promise!Spec
=============================================================================
