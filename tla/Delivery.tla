------------------------------ MODULE Delivery ------------------------------
(***************************************************************************)
(* What the event pipeline promises a consumer group, without processes,   *)
(* positions, rows or failures: a log per partition, the place the group   *)
(* began at, the place it has come to, and the occurrences it has answered *)
(* for.  Worker implements this specification.                             *)
(***************************************************************************)
EXTENDS Integers, Sequences

CONSTANTS
  Groups, Partitions,
  Record,     \* records of the log; r.occ is what the record tells of
  Wanted      \* group -> the occurrences it must answer for

VARIABLES
  log,        \* partition -> sequence of records
  started,    \* has the group a place of its own on the partition
  from,       \* the place it began at
  done,       \* the place it has come to
  settled     \* group -> occurrences it has handled or can hand back

vars == <<log, started, from, done, settled>>

Init ==
  /\ log = [p \in Partitions |-> <<>>]
  /\ started = [g \in Groups |-> [p \in Partitions |-> FALSE]]
  /\ from = [g \in Groups |-> [p \in Partitions |-> 0]]
  /\ done = [g \in Groups |-> [p \in Partitions |-> 0]]
  /\ settled = [g \in Groups |-> {}]

Publish ==
  /\ \E p \in Partitions, r \in Record :
        log' = [log EXCEPT ![p] = Append(@, r)]
  /\ UNCHANGED <<started, from, done, settled>>

\* Until it has a place of its own a group begins wherever the log ends.
Begin(g) ==
  LET end == [p \in Partitions |-> Len(log[p])]
      new(old) == [p \in Partitions |-> IF started[g][p] THEN old[p] ELSE end[p]]
  IN  /\ from' = [from EXCEPT ![g] = new(from[g])]
      /\ done' = [done EXCEPT ![g] = new(done[g])]
      /\ UNCHANGED <<log, started, settled>>

\* What has been answered for stays answered for.
Settle ==
  /\ \A g \in Groups : settled[g] \subseteq settled'[g]
  /\ UNCHANGED <<log, started, from, done>>

\* A group leaves records behind one at a time, in the order of their
\* partition, and only those that are settled or not its concern.
Leave(g, p) ==
  /\ done[g][p] < Len(log[p])
  /\ LET o == log[p][done[g][p] + 1].occ
     IN  o \in Wanted[g] => o \in settled[g]
  /\ done' = [done EXCEPT ![g][p] = @ + 1]

Advance(g) ==
  /\ (\E p \in Partitions : Leave(g, p)) \/ done' = done
  /\ started' = [started EXCEPT ![g] = [p \in Partitions |-> TRUE]]
  /\ UNCHANGED <<log, from, settled>>

Next == Publish \/ Settle \/ \E g \in Groups : Begin(g) \/ Advance(g)

Spec == Init /\ [][Next]_vars
=============================================================================
