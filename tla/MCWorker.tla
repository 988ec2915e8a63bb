------------------------------ MODULE MCWorker ------------------------------
(* Small instances of Worker for TLC. *)
EXTENDS Worker

CONSTANTS a, b, c1, p0, p1, state, mrr

MCIdOf == [o \in {a, b} |-> o]
MCCustomerOf == [o \in {a, b} |-> c1]
MCPartitionOf == [c \in {c1, NoCustomer} |-> IF c = c1 THEN p1 ELSE p0]
\* The state group handles every type, the MRR group only b's.
MCWanted == [g \in {state, mrr} |-> IF g = state THEN {a, b} ELSE {b}]

\* The MRR group alone.
MCWanted1 == [g \in {mrr} |-> {b}]

MCMaxLog == [p \in {p0, p1} |-> IF p = p1 THEN 2 ELSE 1]

MCMaxLog3 == [p \in {p0, p1} |-> IF p = p1 THEN 3 ELSE 1]

\* The webhooks of one moment share their id, and the MRR group wants both.
MCIdOfShared == [o \in {a, b} |-> a]
MCWantedBoth == [g \in {mrr} |-> {a, b}]

\* Every occurrence has an id of its own.
MCIds == {a, b}
=============================================================================
