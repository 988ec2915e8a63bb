------------------------------- MODULE Startup -------------------------------
(***************************************************************************)
(* Starting the API and the worker beside each other (api/app.py,          *)
(* worker.py, migrate.py, bootstrap.py): one transaction of the API        *)
(* renames a column, creates the missing tables, gives a placeholder item  *)
(* to every subscription that has none, and inserts the connector sources. *)
(* The worker waits for the tables and goes on handling events while the   *)
(* API starts again.                                                       *)
(*                                                                         *)
(* A subscription's items are a set: its real items are one element.       *)
(***************************************************************************)
EXTENDS Integers, FiniteSets

CONSTANTS
  Subs,
  ApiConnectors, WorkerConnectors,  \* TIDEMILL_CONNECTORS of each process
  MaxAttempts,                      \* of _bootstrap_connector_sources
  NoSub

VARIABLES
  column,    \* subscription.pending_cancellation: "none", "old" name, "new"
  created,   \* has the item table been created
  sources,   \* connector_source rows
  items,     \* subscription -> committed item rows
  api,       \* where the API's start is
  filled,    \* placeholders its transaction has inserted
  worker, attempt,
  hand,      \* the handler's transaction: the subscription and the rows deleted;
             \* crosses is history: the API's insertion fell into it
  crossed    \* history: subscriptions whose last event crossed such an insertion

startVars == <<column, created, sources, items, api, filled, worker, attempt,
               hand, crossed>>

NoHand == [sub |-> NoSub, removed |-> {}, crosses |-> FALSE]

\* A new database, one of the version before the items, or the present one.
StartupInit ==
  /\ \E known \in {"none", "old", "new"} :
        /\ column = known
        /\ created = (known = "new")
        /\ sources = IF known = "none" THEN {} ELSE ApiConnectors
        /\ items \in IF known = "new" THEN [Subs -> SUBSET {"real"}]
                     ELSE {[s \in Subs |-> {}]}
  /\ api = "down" /\ filled = {}
  /\ worker = "down" /\ attempt = 0
  /\ hand = NoHand /\ crossed = {}

-----------------------------------------------------------------------------
(* The API's lifespan *)

\* _rename_cancel_at_period_end: ALTER TABLE waits for the handler, and holds
\* the table until the commit.
MigrateSchema ==
  /\ api = "down"
  /\ column = "old" => hand = NoHand
  /\ api' = IF column = "old" THEN "locking" ELSE "migrating"
  /\ UNCHANGED <<column, created, sources, items, filled, worker, attempt, hand,
                 crossed>>

\* Mutant of Missing: every subscription is given a placeholder.
AllSubs == Subs

\* create_all, then _backfill_subscription_items: INSERT ... SELECT sees what
\* is committed.
Missing == {s \in Subs : items[s] = {}}

Backfill ==
  /\ api \in {"locking", "migrating"}
  /\ api' = IF api = "locking" THEN "locked" ELSE "filled"
  /\ filled' = IF column = "none" THEN {} ELSE Missing
  /\ hand' = IF hand = NoHand THEN hand ELSE [hand EXCEPT !.crosses = TRUE]
  /\ UNCHANGED <<column, created, sources, items, worker, attempt, crossed>>

\* ensure_connector_sources and the commit of it all; then requests are served.
Serve ==
  /\ api \in {"locked", "filled"}
  /\ api' = "serving"
  /\ column' = "new" /\ created' = TRUE
  /\ sources' = sources \cup ApiConnectors
  /\ items' = [s \in Subs |-> items[s] \cup
                 IF s \in filled THEN {"placeholder"} ELSE {}]
  /\ filled' = {}
  /\ UNCHANGED <<worker, attempt, hand, crossed>>

\* At any moment; an open transaction is rolled back.
ApiStops ==
  /\ api # "down"
  /\ api' = "down" /\ filled' = {}
  /\ UNCHANGED <<column, created, sources, items, worker, attempt, hand, crossed>>

-----------------------------------------------------------------------------
(* The worker *)

\* _bootstrap_connector_sources
Bootstrap ==
  /\ worker \in {"down", "waiting"}
  /\ IF column # "none"
     THEN /\ sources' = sources \cup WorkerConnectors
          /\ worker' = "consuming" /\ attempt' = 0
     ELSE /\ worker' = IF attempt + 1 = MaxAttempts THEN "down" ELSE "waiting"
          /\ attempt' = IF attempt + 1 = MaxAttempts THEN 0 ELSE attempt + 1
          /\ UNCHANGED sources
  /\ UNCHANGED <<column, created, items, api, filled, hand, crossed>>

WorkerStops ==
  /\ worker # "down"
  /\ worker' = "down" /\ attempt' = 0
  /\ hand' = NoHand
  /\ UNCHANGED <<column, created, sources, items, api, filled, crossed>>

\* _replace_subscription_items deletes the rows it sees.  Before the API has
\* committed the item table, or while it holds the subscription table, there is
\* no such statement: the event is dead-lettered, or waits.
DeleteItems ==
  /\ worker = "consuming" /\ hand = NoHand
  /\ created /\ api \notin {"locking", "locked"}
  /\ \E s \in Subs : hand' = [sub |-> s, removed |-> items[s],
                              crosses |-> api = "filled"]
  /\ UNCHANGED <<column, created, sources, items, api, filled, worker, attempt,
                 crossed>>

\* It inserts the event's items, if there are any, and commits.
InsertItems ==
  /\ hand # NoHand
  /\ \E new \in {{}, {"real"}} :
        items' = [items EXCEPT ![hand.sub] = (@ \ hand.removed) \cup new]
  /\ crossed' = IF hand.crosses THEN crossed \cup {hand.sub}
                ELSE crossed \ {hand.sub}
  /\ hand' = NoHand
  /\ UNCHANGED <<column, created, sources, api, filled, worker, attempt>>

StartupNext ==
  \/ MigrateSchema \/ Backfill \/ Serve \/ ApiStops
  \/ Bootstrap \/ WorkerStops \/ DeleteItems \/ InsertItems

-----------------------------------------------------------------------------
(* Properties *)

\* A placeholder never stands beside the real items, which would count the
\* subscription twice: starting the API again adds none where there are items,
\* and the next event with items removes it.  Excluded is an event that is
\* handled between the API's insertion and its commit, or across the insertion.
PlaceholdersGiveWay ==
  \A s \in Subs \ crossed : items[s] # {"placeholder", "real"}

\* When events are consumed they can be persisted: the tables are there, and the
\* source of every connector the worker's deployment lists.
SourcesAreReady ==
  worker = "consuming" => column # "none" /\ WorkerConnectors \subseteq sources

\* The API and the worker may start in either order and as often as they like:
\* both of the above.
StartOrderIsFree == PlaceholdersGiveWay /\ SourcesAreReady
=============================================================================
