------------------------------- MODULE Worker -------------------------------
(***************************************************************************)
(* The event pipeline of tidemill: the Kafka topic tidemill.events, the    *)
(* consumer loops of the worker process (tidemill/worker.py), the          *)
(* dead_letter_event table (tidemill/dead_letter.py), the dead-letter      *)
(* mirror topic and the dlq-replay command (tidemill/cli/main.py).         *)
(*                                                                         *)
(* What a handler computes is abstracted to "its transaction committed" or *)
(* "it raised": the metric and state modules model the handlers.           *)
(***************************************************************************)
EXTENDS Integers, Sequences, FiniteSets

CONSTANTS
  Occurrences,   \* things that happened in the billing system
  Ids,           \* values of Event.id
  IdOf,          \* Event.id a connector gives an occurrence (events.py)
  Customers,     \* values of Event.customer_id set by the connectors
  CustomerOf,    \* the customer an occurrence is about
  NoCustomer,    \* the empty Event.customer_id of a replayed event
  Partitions,    \* partitions of the topic
  PartitionOf,   \* Kafka's partitioner: key -> partition
  Groups,        \* consumer groups: state and one per metric
  Wanted,        \* occurrences whose type a group handles (metric.event_types)
  Outages,       \* calls that may fail: subset of Calls
  MaxLog,        \* bound on the length of each partition
  MaxFaults,     \* bound on crashes and failed calls
  NoOffset,      \* a group that has never committed on a partition
  NoRow,         \* an absent row of dead_letter_event
  NoEvent        \* no event in hand

\* The calls of the loop whose failure the code handles.
Calls == {"commit", "record", "mirror", "resolve"}

ASSUME ConstantsAssumption ==
  /\ IdOf \in [Occurrences -> Ids]
  /\ CustomerOf \in [Occurrences -> Customers]
  /\ NoCustomer \notin Customers
  /\ PartitionOf \in [Customers \union {NoCustomer} -> Partitions]
  /\ Wanted \in [Groups -> SUBSET Occurrences]
  /\ Outages \subseteq Calls
  /\ MaxLog \in [Partitions -> Nat]
  /\ MaxFaults \in Nat

VARIABLES
  log,        \* the topic: partition -> sequence of records
  committed,  \* committed offset per group and partition (kept by the broker)
  begin,      \* history: where a group's first session found each partition
  position,   \* next offset each group's consumer will read (in memory)
  pc,         \* where each group's task is in its loop
  event,      \* the event a group's loop has in hand
  handled,    \* history: records whose handler transaction a group committed
  rows,       \* dead_letter_event, keyed by uq_dlq_event_consumer
  mirrored,   \* occurrences on tidemill.events.dlq
  replaying,  \* rows a running dlq-replay has read and not yet published
  faults      \* crashes and failed calls so far

vars == <<log, committed, begin, position, pc, event, handled, rows, mirrored,
          replaying, faults>>

Keys == Ids \X Groups
Record == [occ : Occurrences, cust : Customers \union {NoCustomer}]
\* payload and resolved_at; the error columns and timestamps are left out.
Row == [occ : Occurrences, resolved : BOOLEAN]

ASSUME SentinelAssumption ==
  /\ NoOffset \notin Nat
  /\ NoRow \notin Row
  /\ NoEvent \notin Record

\* down: no worker process.  join: task started, partitions not assigned yet.
\* dead: the task ended with an exception while the process lives on.
Down == "down"
Running == {"poll", "skip", "handle", "offset", "resolve", "record", "mirror",
            "giveup"}
PCs == Running \union {Down, "join", "dead"}
\* The places between fetching a record and committing past it.
InFlight == {"skip", "handle", "offset", "record", "mirror", "giveup"}

TypeOK ==
  /\ log \in [Partitions -> Seq(Record)]
  /\ committed \in [Groups -> [Partitions -> Nat \union {NoOffset}]]
  /\ begin \in [Groups -> [Partitions -> Nat]]
  /\ position \in [Groups -> [Partitions -> Nat]]
  /\ pc \in [Groups -> PCs]
  /\ event \in [Groups -> Record \union {NoEvent}]
  /\ \A g \in Groups : pc[g] \in InFlight \union {"resolve"} =>
                         event[g] \in Record
  /\ handled \in [Groups -> SUBSET Record]
  /\ rows \in [Keys -> Row \union {NoRow}]
  /\ mirrored \subseteq Occurrences
  /\ replaying \subseteq {k \in Keys : rows[k] # NoRow}
  /\ faults \in Nat

Init ==
  /\ log = [p \in Partitions |-> <<>>]
  /\ committed = [g \in Groups |-> [p \in Partitions |-> NoOffset]]
  /\ begin = [g \in Groups |-> [p \in Partitions |-> 0]]
  /\ position = [g \in Groups |-> [p \in Partitions |-> 0]]
  /\ pc = [g \in Groups |-> Down]
  /\ event = [g \in Groups |-> NoEvent]
  /\ handled = [g \in Groups |-> {}]
  /\ rows = [k \in Keys |-> NoRow]
  /\ mirrored = {}
  /\ replaying = {}
  /\ faults = 0

Key(g) == <<IdOf[event[g].occ], g>>

GoTo(g, to) == pc' = [pc EXCEPT ![g] = to]
\* Back to the iterator, or out of the loop: the event is out of hand.
LetGo(g, to) == GoTo(g, to) /\ event' = [event EXCEPT ![g] = NoEvent]

\* One more fault of a call that this configuration lets fail.
Fault(call) ==
  /\ call \in Outages
  /\ faults < MaxFaults
  /\ faults' = faults + 1

\* EventProducer: to_json, then append under the key Event.customer_id.
Append1(occ, cust) ==
  LET p == PartitionOf[cust]
  IN  /\ Len(log[p]) < MaxLog[p]
      /\ log' = [log EXCEPT ![p] = Append(@, [occ |-> occ, cust |-> cust])]

-----------------------------------------------------------------------------
(* Producers *)

\* A webhook route publishes a translated event.  A provider that got no 200
\* sends the webhook again, so an occurrence may be published repeatedly.
Publish(o) ==
  /\ Append1(o, CustomerOf[o])
  /\ UNCHANGED <<committed, begin, position, pc, event, handled, rows, mirrored,
                 replaying, faults>>

\* dlq-replay: SELECT unresolved rows; --consumer and --error-type restrict
\* them to a subset.
ReplaySelect ==
  /\ replaying = {}
  /\ \E S \in SUBSET {k \in Keys : rows[k] # NoRow /\ ~rows[k].resolved} :
        /\ S # {}
        /\ replaying' = S
  /\ UNCHANGED <<log, committed, begin, position, pc, event, handled, rows,
                 mirrored, faults>>

\* dlq-replay: rebuild one selected event and publish it to the main topic,
\* where every group reads it.  The envelope is rebuilt from the payload, which
\* holds no "customer_id", so the event goes out under the empty customer.
ReplayPublish(k) ==
  /\ k \in replaying
  /\ Append1(rows[k].occ, NoCustomer)
  /\ replaying' = replaying \ {k}
  /\ UNCHANGED <<committed, begin, position, pc, event, handled, rows, mirrored,
                 faults>>

\* The command is interrupted, or ends when it has nothing left to publish.
ReplayStop ==
  /\ replaying # {}
  /\ replaying' = {}
  /\ UNCHANGED <<log, committed, begin, position, pc, event, handled, rows,
                 mirrored, faults>>

-----------------------------------------------------------------------------
(* Process lifecycle *)

\* run_worker creates one task per consumer group.
Boot ==
  /\ \A g \in Groups : pc[g] = Down
  /\ pc' = [g \in Groups |-> "join"]
  /\ UNCHANGED <<log, committed, begin, position, event, handled, rows, mirrored,
                 replaying, faults>>

\* Mutant of Join: the group seeks to the beginning whenever it starts.
JoinFromStart(g) ==
  /\ pc[g] = "join"
  /\ GoTo(g, "poll")
  /\ position' = [position EXCEPT ![g] = [p \in Partitions |-> 0]]
  /\ UNCHANGED <<log, committed, begin, event, handled, rows, mirrored,
                 replaying, faults>>

\* consumer.start(): partitions are assigned and read from the committed
\* offsets; where the group has none aiokafka resets to the end of the log,
\* because EventConsumer passes no auto_offset_reset.
Join(g) ==
  LET from == [p \in Partitions |->
                 IF committed[g][p] = NoOffset THEN Len(log[p])
                                               ELSE committed[g][p]]
  IN  /\ pc[g] = "join"
      /\ GoTo(g, "poll")
      /\ position' = [position EXCEPT ![g] = from]
      /\ begin' = [begin EXCEPT ![g] =
                     [p \in Partitions |-> IF committed[g][p] = NoOffset
                                           THEN from[p] ELSE begin[g][p]]]
      /\ UNCHANGED <<log, committed, event, handled, rows, mirrored, replaying,
                     faults>>

\* The process ends at any point: a crash, or the cancellation of every task
\* at shutdown.  Open transactions roll back and positions are forgotten.
Crash ==
  /\ \E g \in Groups : pc[g] # Down
  /\ faults < MaxFaults
  /\ faults' = faults + 1
  /\ pc' = [g \in Groups |-> Down]
  /\ event' = [g \in Groups |-> NoEvent]
  /\ position' = [g \in Groups |-> [p \in Partitions |-> 0]]
  /\ UNCHANGED <<log, committed, begin, handled, rows, mirrored,
                 replaying>>

-----------------------------------------------------------------------------
(* The consumer loop of _consume_state and _consume_metric *)

\* Mutant of Poll: EventConsumer leaves enable_auto_commit at its default.
PollCommits(g, p) ==
  LET next == log[p][position[g][p] + 1]
  IN  /\ pc[g] = "poll"
      /\ position[g][p] < Len(log[p])
      /\ position' = [position EXCEPT ![g][p] = @ + 1]
      /\ committed' = [committed EXCEPT ![g] = position'[g]]
      /\ event' = [event EXCEPT ![g] = next]
      /\ GoTo(g, IF next.occ \in Wanted[g] THEN "handle" ELSE "skip")
      /\ UNCHANGED <<log, begin, handled, rows, mirrored, replaying, faults>>

\* The iterator yields the next record of some partition; an event of a type
\* the metric does not list is only committed past.
Poll(g, p) ==
  LET next == log[p][position[g][p] + 1]
  IN  /\ pc[g] = "poll"
      /\ position[g][p] < Len(log[p])
      /\ position' = [position EXCEPT ![g][p] = @ + 1]
      /\ event' = [event EXCEPT ![g] = next]
      /\ GoTo(g, IF next.occ \in Wanted[g] THEN "handle" ELSE "skip")
      /\ UNCHANGED <<log, committed, begin, handled, rows, mirrored, replaying,
                     faults>>

\* consumer.commit(): the positions of all assigned partitions.
CommitOffsets(g) ==
  /\ committed' = [committed EXCEPT ![g] = position[g]]
  /\ UNCHANGED <<log, begin, position, handled, rows, mirrored, replaying,
                 faults>>

\* consumer.commit() outside the try, or inside its except clause, raises: the
\* exception leaves the loop and ends the task.  run_worker awaits only the
\* stop event, so nothing notices.
CommitDies(g) ==
  /\ Fault("commit")
  /\ LetGo(g, "dead")
  /\ UNCHANGED <<log, committed, begin, position, handled, rows, mirrored,
                 replaying>>

\* Mutant of Skip: continue without committing.
SkipUncommitted(g) ==
  /\ pc[g] = "skip"
  /\ LetGo(g, "poll")
  /\ UNCHANGED <<log, committed, begin, position, handled, rows, mirrored,
                 replaying, faults>>

Skip(g) == pc[g] = "skip" /\ CommitOffsets(g) /\ LetGo(g, "poll")
SkipDies(g) == pc[g] = "skip" /\ CommitDies(g)

\* handle_event returned and session.commit() succeeded.
HandleOk(g) ==
  /\ pc[g] = "handle"
  /\ handled' = [handled EXCEPT ![g] = @ \union {event[g]}]
  /\ GoTo(g, "offset")
  /\ UNCHANGED <<log, committed, begin, position, event, rows, mirrored,
                 replaying, faults>>

\* Mutant of HandleFail: the except clause logs and commits.
HandleFailLogged(g) ==
  /\ pc[g] = "handle"
  /\ GoTo(g, "giveup")
  /\ UNCHANGED <<log, committed, begin, position, event, handled, rows,
                 mirrored, replaying, faults>>

\* The handler or its commit raised; the session rolled back.
HandleFail(g) ==
  /\ pc[g] = "handle"
  /\ GoTo(g, "record")
  /\ UNCHANGED <<log, committed, begin, position, event, handled, rows, mirrored,
                 replaying, faults>>

OffsetOk(g) ==
  /\ pc[g] = "offset"
  /\ CommitOffsets(g)
  /\ GoTo(g, "resolve")
  /\ UNCHANGED event

\* consumer.commit() raises inside the try: the event was handled, and the
\* except clause dead-letters it all the same.
OffsetFail(g) ==
  /\ pc[g] = "offset"
  /\ Fault("commit")
  /\ GoTo(g, "record")
  /\ UNCHANGED <<log, committed, begin, position, event, handled, rows, mirrored,
                 replaying>>

\* Mutant of Resolve: the UPDATE lost its consumer condition.
ResolveEveryGroup(g) ==
  /\ pc[g] = "resolve"
  /\ rows' = [k \in Keys |-> IF k[1] = Key(g)[1] /\ rows[k] # NoRow
                             THEN [rows[k] EXCEPT !.resolved = TRUE]
                             ELSE rows[k]]
  /\ LetGo(g, "poll")
  /\ UNCHANGED <<log, committed, begin, position, handled, mirrored,
                 replaying, faults>>

\* mark_resolved: an UPDATE by (event_id, consumer) that may match no row.
Resolve(g) ==
  /\ pc[g] = "resolve"
  /\ rows' = IF rows[Key(g)] = NoRow THEN rows
             ELSE [rows EXCEPT ![Key(g)].resolved = TRUE]
  /\ LetGo(g, "poll")
  /\ UNCHANGED <<log, committed, begin, position, handled, mirrored,
                 replaying, faults>>

\* _maybe_mark_resolved swallows its own errors.
ResolveFail(g) ==
  /\ pc[g] = "resolve"
  /\ Fault("resolve")
  /\ LetGo(g, "poll")
  /\ UNCHANGED <<log, committed, begin, position, handled, rows, mirrored,
                 replaying>>

\* dead_letter.record: insert, or reopen the row of the same (event_id,
\* consumer); the payload of an existing row is kept.
RecordRow(g) ==
  /\ pc[g] = "record"
  /\ rows' = [rows EXCEPT ![Key(g)] =
                [occ |-> IF @ = NoRow THEN event[g].occ ELSE @.occ,
                 resolved |-> FALSE]]
  /\ GoTo(g, "mirror")
  /\ UNCHANGED <<log, committed, begin, position, event, handled, mirrored,
                 replaying, faults>>

\* Mutant of RecordFail: one try around both writes of _dead_letter.
RecordFailSkipsMirror(g) ==
  /\ pc[g] = "record"
  /\ Fault("record")
  /\ GoTo(g, "giveup")
  /\ UNCHANGED <<log, committed, begin, position, event, handled, rows,
                 mirrored, replaying>>

\* The write of the row fails; _dead_letter logs and carries on.
RecordFail(g) ==
  /\ pc[g] = "record"
  /\ Fault("record")
  /\ GoTo(g, "mirror")
  /\ UNCHANGED <<log, committed, begin, position, event, handled, rows, mirrored,
                 replaying>>

Mirror(g) ==
  /\ pc[g] = "mirror"
  /\ mirrored' = mirrored \union {event[g].occ}
  /\ GoTo(g, "giveup")
  /\ UNCHANGED <<log, committed, begin, position, event, handled, rows,
                 replaying, faults>>

\* The publish to the dead-letter topic fails; also only logged.
MirrorFail(g) ==
  /\ pc[g] = "mirror"
  /\ Fault("mirror")
  /\ GoTo(g, "giveup")
  /\ UNCHANGED <<log, committed, begin, position, event, handled, rows, mirrored,
                 replaying>>

\* Mutant of GiveUp: the except clause does not commit.
GiveUpUncommitted(g) ==
  /\ pc[g] = "giveup"
  /\ LetGo(g, "poll")
  /\ UNCHANGED <<log, committed, begin, position, handled, rows, mirrored,
                 replaying, faults>>

GiveUp(g) == pc[g] = "giveup" /\ CommitOffsets(g) /\ LetGo(g, "poll")
GiveUpDies(g) == pc[g] = "giveup" /\ CommitDies(g)

\* The steps a running task takes when no call of Calls fails.
TaskStep(g) ==
  \/ \E p \in Partitions : Poll(g, p)
  \/ Skip(g) \/ HandleOk(g) \/ HandleFail(g) \/ OffsetOk(g) \/ Resolve(g)
  \/ RecordRow(g) \/ Mirror(g) \/ GiveUp(g)

TaskFault(g) ==
  \/ SkipDies(g) \/ OffsetFail(g) \/ ResolveFail(g) \/ RecordFail(g)
  \/ MirrorFail(g) \/ GiveUpDies(g)

Next ==
  \/ \E o \in Occurrences : Publish(o)
  \/ ReplaySelect \/ ReplayStop
  \/ \E k \in Keys : ReplayPublish(k)
  \/ Boot \/ Crash
  \/ \E g \in Groups : Join(g) \/ TaskStep(g) \/ TaskFault(g)

Spec == Init /\ [][Next]_vars

\* The process is restarted after a crash, and a task that can run does run:
\* each task is an asyncio task of its own, and neither the iterator nor the
\* handlers wait for another task.
FairSpec ==
  /\ Spec
  /\ WF_vars(Boot)
  /\ \A g \in Groups : /\ WF_vars(Join(g))
                       /\ WF_vars(TaskStep(g))

-----------------------------------------------------------------------------
(* Properties *)

HandledOcc(g, o) == \E r \in handled[g] : r.occ = o
Parked(g, o) == /\ rows[<<IdOf[o], g>>] # NoRow
                /\ rows[<<IdOf[o], g>>].occ = o
\* What events.md promises of Event.id.
UniqueIds == \A a, b \in Occurrences : IdOf[a] = IdOf[b] => a = b

\* The offsets of partition p a group has committed past since it first
\* committed there.
Passed(g, p) == IF committed[g][p] = NoOffset THEN {}
                ELSE (begin[g][p] + 1)..committed[g][p]
Wants(g, p, i, o) == log[p][i].occ = o /\ o \in Wanted[g]

\* An event that a group's committed offset has left behind was handled, or its
\* payload is kept for dlq-replay in a row of that group.  _dead_letter may
\* fail halfway, commits may raise, the process may die anywhere: as long as
\* the row itself can be written, nothing is forgotten.
Replayable ==
  \A g \in Groups, p \in Partitions, o \in Occurrences :
     \A i \in Passed(g, p) :
        Wants(g, p, i, o) => HandledOcc(g, o) \/ Parked(g, o)

\* The weaker promise that survives an outage of the database, when the row
\* cannot be written either: a skipped event is at least on the mirror topic.
NoSilentLoss ==
  \A g \in Groups, p \in Partitions, o \in Occurrences :
     \A i \in Passed(g, p) :
        Wants(g, p, i, o) =>
          HandledOcc(g, o) \/ Parked(g, o) \/ o \in mirrored

\* A row that dlq-list no longer shows is about an event its group handled:
\* resolved_at is never set on the strength of another event's success.
ResolvedWasHandled ==
  \A k \in Keys :
     rows[k] # NoRow /\ rows[k].resolved => HandledOcc(k[2], rows[k].occ)

\* The offset a session of the group reads partition p from.
Base(g, p) == IF committed[g][p] = NoOffset THEN begin[g][p]
                                            ELSE committed[g][p]

\* A crash makes a group see at most one event again: of all partitions
\* together, at most one record is fetched and not committed past.
RedeliveryWindow ==
  \A g \in Groups : pc[g] \in Running =>
     /\ \A p \in Partitions : position[g][p] \in Base(g, p)..(Base(g, p) + 1)
     /\ \A p, q \in Partitions :
           position[g][p] # Base(g, p) /\ position[g][q] # Base(g, q) => p = q

\* The rows, the mirror topic and the handlers' transactions of Worker are what
\* Delivery calls settled; a session's base is the place the group has come to.
Promise == INSTANCE Delivery WITH
  started <- [g \in Groups |-> [p \in Partitions |-> committed[g][p] # NoOffset]],
  from <- begin,
  done <- [g \in Groups |-> [p \in Partitions |-> Base(g, p)]],
  settled <- [g \in Groups |->
                {o \in Occurrences : \/ HandledOcc(g, o)
                                     \/ Parked(g, o)
                                     \/ o \in mirrored}]

\* The consumer loops implement at-least-once delivery: through every crash,
\* rejoin, failed commit and half-failed dead letter a group leaves records
\* behind one by one and in order, each only after it is settled, and begins
\* anew nowhere once it has committed.
Delivers == Promise!Spec

\* Committed offsets only move forward, whatever crashes, rejoins and
\* failed commits come in between.
OffsetsNeverRewind ==
  [][\A g \in Groups, p \in Partitions :
       committed[g][p] # NoOffset =>
         committed'[g][p] # NoOffset /\ committed'[g][p] >= committed[g][p]]_vars

CommittedPast(g, p, i) == committed[g][p] # NoOffset /\ committed[g][p] >= i

\* Every event published to a group that has an offset is eventually left
\* behind, handled or dead-lettered: no event blocks its partition for good.
EventuallyPassed ==
  \A g \in Groups, p \in Partitions : \A i \in 1..MaxLog[p] :
     (committed[g][p] # NoOffset /\ Len(log[p]) >= i) ~> CommittedPast(g, p, i)

\* A new consumer group works through the whole history of the topic
\* (docs/architecture/metrics.md:234): whatever it has committed past, from
\* offset 0 on, it handled or dead-lettered.
HistoryConsumed ==
  \A g \in Groups, p \in Partitions : committed[g][p] # NoOffset =>
     \A i \in 1..committed[g][p] : log[p][i].occ \in Wanted[g] =>
        HandledOcc(g, log[p][i].occ) \/ Parked(g, log[p][i].occ)
=============================================================================
