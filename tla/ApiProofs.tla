------------------------------ MODULE ApiProofs ------------------------------
(***************************************************************************)
(* Proofs about the HTTP process: its start beside the worker, the tokens  *)
(* of a connected company, and what users keep; for any subscriptions,     *)
(* clients, users, requests and ids, and any bounds.                       *)
(***************************************************************************)
EXTENDS ApiProcess, TLAPS

-----------------------------------------------------------------------------
(* The start *)

StartTypeOK ==
  /\ items \in [Subs -> SUBSET {"placeholder", "real"}]
  /\ hand \in [sub : Subs \cup {NoSub}, removed : SUBSET {"placeholder", "real"},
               crosses : BOOLEAN]
  /\ filled \subseteq Subs

\* What makes PlaceholdersGiveWay inductive: placeholders wait to be committed
\* only for subscriptions without items, or crossed ones; a handler that has a
\* transaction open then is marked; and one that is not marked has seen, and
\* deleted, all there is.
StartInv ==
  /\ StartTypeOK
  /\ api \notin {"locked", "filled"} => filled = {}
  /\ \A s \in filled \ crossed : items[s] = {}
  /\ api \in {"locked", "filled"} /\ hand # NoHand => hand.crosses
  /\ hand # NoHand /\ ~hand.crosses => items[hand.sub] \subseteq hand.removed
  /\ StartOrderIsFree

\* The invariant of the startup holds at first ...
LEMMA StartInit == Init => StartInv
<1> SUFFICES ASSUME StartupInit PROVE StartInv
  BY DEF Init
<1>1. StartTypeOK
  BY DEF StartupInit, StartTypeOK, NoHand
<1> QED
  BY <1>1 DEF StartupInit, StartInv, StartOrderIsFree, PlaceholdersGiveWay,
     SourcesAreReady

\* ... and is kept by every step.
LEMMA StartStep == ASSUME StartInv, StartupNext PROVE StartInv'
<1> USE DEF StartInv, StartTypeOK, StartOrderIsFree, PlaceholdersGiveWay,
            SourcesAreReady
<1>1. CASE MigrateSchema
  BY <1>1 DEF MigrateSchema
<1>2. CASE Backfill
  BY <1>2 DEF Backfill, Missing, NoHand
<1>3. CASE Serve
  BY <1>3 DEF Serve
<1>4. CASE ApiStops
  BY <1>4 DEF ApiStops
<1>5. CASE Bootstrap
  BY <1>5 DEF Bootstrap
<1>6. CASE WorkerStops
  BY <1>6 DEF WorkerStops, NoHand
<1>7. CASE DeleteItems
  <2>1. PICK s \in Subs : hand' = [sub |-> s, removed |-> items[s],
                                  crosses |-> api = "filled"]
    BY <1>7 DEF DeleteItems
  <2>2. /\ hand'.sub = s /\ hand'.removed = items[s]
        /\ hand'.crosses = (api = "filled") /\ api # "locked"
    BY <1>7, <2>1 DEF DeleteItems
  <2>3. UNCHANGED <<column, sources, items, api, filled, worker, crossed>>
    BY <1>7 DEF DeleteItems
  <2>4. StartTypeOK'
    BY <2>1, <2>3
  <2>5. (api \in {"locked", "filled"} /\ hand # NoHand => hand.crosses)'
    BY <2>2, <2>3
  <2>6. (hand # NoHand /\ ~hand.crosses => items[hand.sub] \subseteq hand.removed)'
    BY <2>2, <2>3
  <2> QED
    BY <2>3, <2>4, <2>5, <2>6
<1>8. CASE InsertItems
  <2>1. PICK new \in {{}, {"real"}} :
          items' = [items EXCEPT ![hand.sub] = (@ \ hand.removed) \cup new]
    BY <1>8 DEF InsertItems
  <2>2. /\ UNCHANGED <<column, sources, api, filled, worker>>
        /\ hand # NoHand /\ hand' = NoHand
        /\ crossed' = IF hand.crosses THEN crossed \cup {hand.sub}
                      ELSE crossed \ {hand.sub}
    BY <1>8 DEF InsertItems
  <2>3. StartTypeOK'
    BY <2>1, <2>2 DEF NoHand
  <2>4. \A s \in Subs \ {hand.sub} : items'[s] = items[s]
    BY <2>1
  <2>5. hand.sub \in Subs /\ ~hand.crosses => items'[hand.sub] \in {{}, {"real"}}
    BY <2>1, <2>2
  <2>6. (\A s \in filled \ crossed : items[s] = {})'
    BY <2>2, <2>4
  <2>7. PlaceholdersGiveWay'
    BY <2>2, <2>4, <2>5
  <2>8. /\ (api \notin {"locked", "filled"} => filled = {})'
        /\ (api \in {"locked", "filled"} /\ hand # NoHand => hand.crosses)'
        /\ (hand # NoHand /\ ~hand.crosses => items[hand.sub] \subseteq hand.removed)'
        /\ SourcesAreReady'
    BY <2>2 DEF NoHand
  <2> QED
    BY <2>3, <2>6, <2>7, <2>8
<1> QED
  BY <1>1, <1>2, <1>3, <1>4, <1>5, <1>6, <1>7, <1>8 DEF StartupNext

\* The API and the worker start in any order and as often as they like: no
\* placeholder stands beside real items but by an event that crossed the API's
\* transaction, and events are consumed only where they can be persisted.
THEOREM StartsInAnyOrder == Spec => []StartOrderIsFree
<1>1. StartInv /\ [Next]_vars => StartInv'
  <2> SUFFICES ASSUME StartInv, [Next]_vars PROVE StartInv'
    OBVIOUS
  <2>1. CASE StartupNext
    BY <2>1, StartStep
  <2>2. CASE UNCHANGED startVars
    BY <2>2 DEF startVars, StartInv, StartTypeOK, StartOrderIsFree,
       PlaceholdersGiveWay, SourcesAreReady
  <2> QED
    BY <2>1, <2>2 DEF Next, Tokens, Work, Start, vars
<1>2. StartInv => StartOrderIsFree
  BY DEF StartInv
<1> QED
  BY <1>1, <1>2, StartInit, PTL DEF Spec

-----------------------------------------------------------------------------
(* The tokens *)

Steps == {"idle", "ready", "refreshing", "answered", "sending", "done", "failed"}

TokenTypeOK ==
  /\ issued \in Nat
  /\ row \in [access : 0..issued, refresh : 0..issued]
  /\ visit \in [access : 0..issued, refresh : 0..issued]
  /\ config \in [Clients -> [access : 0..issued, refresh : 0..issued, env : BOOLEAN]]
  /\ step \in [Clients -> Steps]
  /\ retried \in [Clients -> BOOLEAN]
  /\ alone \subseteq Clients

\* The tokens of a new connection are accepted, and nobody has them yet.
VisitInv ==
  visit # NoTokens =>
    /\ visit.refresh \in good \ {0}
    /\ row.refresh # visit.refresh
    /\ \A c \in Clients : config[c].refresh # visit.refresh

\* Unless something was spoilt, every answer that will be stored is accepted,
\* and so is what is stored, or there is such an answer.
StoredInv ==
  visit = NoTokens /\ ~spoilt =>
    /\ \A c \in Clients : step[c] = "answered" => config[c].refresh \in good
    /\ \/ row = NoTokens
       \/ row.refresh \in good
       \/ \E c \in Clients : step[c] = "answered"

\* A second attempt holds a live token; who is alone can refresh.
CallInv ==
  /\ \A c \in Clients :
       /\ step[c] \in {"idle", "ready"} => ~retried[c]
       /\ retried[c] /\ step[c] \in {"answered", "sending"} => config[c].access \in live
  /\ alone # {} => visit = NoTokens
  /\ \A c \in alone :
       /\ config[c].refresh \in good
       /\ config[c].env => step[c] # "failed"

TokenInv == TokenTypeOK /\ VisitInv /\ StoredInv /\ CallInv

\* The invariant of the tokens holds at first ...
LEMMA TokenInit == Init => TokenInv
BY DEF Init, TokensInit, TokenInv, TokenTypeOK, VisitInv, StoredInv, CallInv,
   NoTokens, NoConfig, Steps

\* A client that closes, or dies with nothing to store that is not stored.
LEMMA LeavesStep ==
  ASSUME TokenInv, NEW c \in Clients, Leaves(c), ~spoilt' => ~spoilt,
         step[c] = "answered" /\ ~spoilt' => config[c].refresh = row.refresh
  PROVE  TokenInv'
<1> USE DEF TokenInv, TokenTypeOK, VisitInv, StoredInv, CallInv, Steps
<1>1. /\ step' = [step EXCEPT ![c] = "idle"]
      /\ config' = [config EXCEPT ![c] = NoConfig]
      /\ retried' = [retried EXCEPT ![c] = FALSE]
      /\ alone' = alone \ {c}
      /\ UNCHANGED <<issued, good, live, overdue, row, visit>>
  BY DEF Leaves, Goes
<1>2. NoConfig \in [access : 0..issued, refresh : 0..issued, env : BOOLEAN]
  BY DEF NoConfig
<1>3. TokenTypeOK'
  BY <1>1, <1>2
<1>4. VisitInv'
  BY <1>1 DEF NoConfig
<1>5. StoredInv'
  BY <1>1
<1>6. CallInv'
  BY <1>1
<1> QED
  BY <1>3, <1>4, <1>5, <1>6

\* ... and is kept by every step.
LEMMA TokenStep == ASSUME TokenInv, TokensNext PROVE TokenInv'
<1> USE DEF TokenInv, TokenTypeOK, VisitInv, StoredInv, CallInv, Steps
<1>1. CASE ComesDue
  BY <1>1 DEF ComesDue
<1>2. CASE Expires
  BY <1>2 DEF Expires, Resting
<1>3. CASE Exchange
  BY <1>3 DEF Exchange, Issue, NoTokens
<1>4. CASE SaveVisit
  <2>1. /\ visit # NoTokens /\ row' = visit /\ visit' = NoTokens /\ alone' = {}
        /\ UNCHANGED <<issued, good, live, config, step, retried>>
    BY <1>4 DEF SaveVisit
  <2>2. ~spoilt' => \A c \in Clients : step[c] # "answered"
    BY <1>4 DEF SaveVisit, Unstored
  <2>3. TokenTypeOK' /\ VisitInv'
    BY <2>1 DEF NoTokens
  <2> QED
    BY <2>1, <2>2, <2>3
<1>5. ASSUME NEW c \in Clients, LoadSourceConfig(c) \/ RunBackfill(c) PROVE TokenInv'
  <2>1. PICK env \in BOOLEAN : Loads(c, env)
    BY <1>5 DEF LoadSourceConfig, RunBackfill
  <2>2. /\ step[c] = "idle" /\ step' = [step EXCEPT ![c] = "ready"]
        /\ config' = [config EXCEPT ![c] =
             [access |-> row.access, refresh |-> row.refresh, env |-> env]]
        /\ UNCHANGED <<issued, good, live, row, visit, retried, spoilt>>
    BY <2>1 DEF Loads, Goes
  <2>3. TokenTypeOK' /\ VisitInv' /\ StoredInv'
    <3>1. alone' \subseteq Clients
      BY <2>1 DEF Loads
    <3> QED
      BY <2>2, <3>1
  <2>4. alone' \subseteq alone \cup {c}
    BY <2>1 DEF Loads
  <2>5. c \in alone' => /\ row # NoTokens /\ ~spoilt /\ visit = NoTokens
                        /\ \A d \in Clients : step[d] # "answered"
    BY <2>1 DEF Loads, Unstored
  <2>6. CallInv'
    BY <2>2, <2>4, <2>5
  <2> QED
    BY <2>3, <2>6
<1>6. ASSUME NEW c \in Clients, EnsureAccessToken(c) PROVE TokenInv'
  BY <1>6 DEF EnsureAccessToken, Goes
<1>7. ASSUME NEW c \in Clients, Refresh(c) PROVE TokenInv'
  <2>1. PICK rotates \in BOOLEAN :
          /\ good' = (IF rotates THEN good \ {config[c].refresh} ELSE good)
                       \cup {issued + 1}
          /\ config' = [config EXCEPT
               ![c].access = issued + 1,
               ![c].refresh = IF rotates THEN issued + 1 ELSE @]
          /\ spoilt' = (spoilt \/ (rotates /\ Unstored # {}))
    BY <1>7 DEF Refresh, Issue
  <2>2. /\ issued' = issued + 1 /\ live' = live \cup {issued + 1}
        /\ step[c] = "refreshing" /\ step' = [step EXCEPT ![c] = "answered"]
        /\ alone' = alone \cap {c} /\ config[c].refresh \in good
        /\ UNCHANGED <<row, visit, retried>>
    BY <1>7 DEF Refresh, Issue, Goes
  <2>3. /\ config'[c].refresh = IF rotates THEN issued + 1 ELSE config[c].refresh
        /\ config'[c].access = issued + 1
        /\ \A d \in Clients \ {c} : config'[d] = config[d]
    BY <2>1
  <2>4. rotates /\ ~spoilt' => \A d \in Clients : step[d] # "answered"
    BY <2>1 DEF Unstored
  <2>5. TokenTypeOK'
    <3>1. \A n \in 0..issued : n \in 0..issued'
      BY <2>2
    <3>2. config' \in [Clients -> [access : 0..issued', refresh : 0..issued',
                                  env : BOOLEAN]]
      <4> DEFINE Config == [access : 0..issued', refresh : 0..issued', env : BOOLEAN]
      <4>1. \A d \in Clients : config[d] \in Config
        BY <3>1
      <4>2. config'[c] = [access |-> issued + 1, env |-> config[c].env,
                          refresh |-> IF rotates THEN issued + 1 ELSE config[c].refresh]
        BY ZenonT(40), <2>1
      <4>3. config'[c] \in Config
        BY <2>2, <4>1, <4>2
      <4>4. config' = [config EXCEPT ![c] = config'[c]]
        BY <2>1
      <4> QED
        BY <4>1, <4>3, <4>4
    <3> QED
      BY <2>1, <2>2, <3>1, <3>2
  <2>6. VisitInv'
    BY <2>1, <2>2, <2>3
  <2>7. StoredInv'
    <3> SUFFICES ASSUME visit = NoTokens, ~spoilt'
                 PROVE  \A d \in Clients : step'[d] = "answered" =>
                          config'[d].refresh \in good'
      BY <2>2
    <3>1. config'[c].refresh \in good'
      BY <2>1, <2>2, <2>3
    <3>2. \A d \in Clients \ {c} : step'[d] = "answered" => ~rotates
      BY <2>2, <2>4
    <3> QED
      BY <2>1, <2>2, <2>3, <3>1, <3>2
  <2>8. CallInv'
    BY <2>1, <2>2, <2>3
  <2> QED
    BY <2>5, <2>6, <2>7, <2>8
<1>8. ASSUME NEW c \in Clients, RefreshRefused(c) PROVE TokenInv'
  BY <1>8 DEF RefreshRefused, Goes
<1>9. ASSUME NEW c \in Clients, PersistTokens(c) PROVE TokenInv'
  BY <1>9 DEF PersistTokens, Goes, Overlay
<1>10. ASSUME NEW c \in Clients, PersistFails(c) PROVE TokenInv'
  BY <1>10 DEF PersistFails, Goes, LostRotation, Unstored
<1>11. ASSUME NEW c \in Clients, Request(c) PROVE TokenInv'
  BY <1>11 DEF Request, Goes
<1>12. ASSUME NEW c \in Clients, RequestRefused(c) PROVE TokenInv'
  BY <1>12 DEF RequestRefused, Goes, AfterRefusal
<1>13. ASSUME NEW c \in Clients, Outage(c) PROVE TokenInv'
  BY <1>13 DEF Outage, Goes
<1>14. ASSUME NEW c \in Clients, NextCall(c) PROVE TokenInv'
  BY <1>14 DEF NextCall, Goes
<1>15. ASSUME NEW c \in Clients, Close(c) PROVE TokenInv'
  BY <1>15, LeavesStep DEF Close
<1>16. ASSUME NEW c \in Clients, Dies(c) PROVE TokenInv'
  BY <1>16, LeavesStep DEF Dies, LostRotation, Unstored
<1> QED
  BY <1>1, <1>2, <1>3, <1>4, <1>5, <1>6, <1>7, <1>8, <1>9, <1>10, <1>11, <1>12,
     <1>13, <1>14, <1>15, <1>16 DEF TokensNext

\* What the clients hold and what is stored fit together at every point of a
\* refresh (connectors/quickbooks/client.py).
THEOREM TokensInductive == Spec => []TokenInv
<1>1. TokenInv /\ [Next]_vars => TokenInv'
  <2> SUFFICES ASSUME TokenInv, [Next]_vars PROVE TokenInv'
    OBVIOUS
  <2>1. CASE TokensNext
    BY <2>1, TokenStep
  <2>2. CASE UNCHANGED tokenVars
    BY <2>2 DEF tokenVars, TokenInv, TokenTypeOK, VisitInv, StoredInv, CallInv
  <2> QED
    BY <2>1, <2>2 DEF Next, Tokens, Work, Start, vars
<1> QED
  BY <1>1, TokenInit, PTL DEF Spec

\* However many clients refresh, and in whatever order, the stored refresh token
\* works once every answer is stored, unless a rotation was lost or overlapped.
THEOREM StoredTokensWork == Spec => []StoredTokenWorks
<1>1. TokenInv => StoredTokenWorks
  BY DEF TokenInv, StoredInv, StoredTokenWorks, Unstored
<1> QED
  BY <1>1, TokensInductive, PTL

\* A client nothing interfered with makes its calls: an access token that is due
\* or refused is refreshed, and the second attempt is not refused.
THEOREM CallsOfLonersSucceed == Spec => []CallsSucceed
<1>1. TokenInv => CallsSucceed
  BY DEF TokenInv, CallInv, CallsSucceed
<1> QED
  BY <1>1, TokensInductive, PTL

-----------------------------------------------------------------------------
(* What users keep *)

Stages == {"idle", "token", "insert", "key", "check", "write"}

RowsOK ==
  /\ dashboards \subseteq [id : used, owner : users, by : users]
  /\ charts \subseteq [id : used, owner : users, by : users]
  /\ sections \subseteq [id : used, dash : used, by : users]
  /\ placements \subseteq [id : used, dash : used, sec : used, chart : used, by : users]
  /\ keys \subseteq [id : used, owner : users, revoked : BOOLEAN]

RequestsOK ==
  LET named == used \cup {Nobody}
  IN  request \in [Requests -> [at : Stages, op : Ops \cup {"none"},
                               user : Users \cup {Nobody}, key : named, dash : named,
                               sec : named, chart : named, place : named]]

\* Primary keys, of the tables whose rows others refer to.
KeysInv ==
  /\ \A x, y \in dashboards : x.id = y.id => x = y
  /\ \A x, y \in charts : x.id = y.id => x = y
  /\ \A x, y \in sections : x.id = y.id => x = y

\* DashboardsAreWhole, without choosing the owner.
OwnersInv ==
  /\ \A x \in dashboards : x.by = x.owner
  /\ \A x \in charts : x.by = x.owner
  /\ \A s \in sections : \E d \in dashboards : d.id = s.dash /\ d.owner = s.by
  /\ \A p \in placements :
        /\ \E s \in sections : s.id = p.sec /\ s.dash = p.dash
        /\ \E d \in dashboards : d.id = p.dash /\ d.owner = p.by
        /\ \E c \in charts : c.id = p.chart

\* What was checked stays true until the write: rows may have gone, but their
\* ids are not given to others, and no row changes hands.
Promise(q) ==
  /\ q.at \in {"key", "check", "write"} => q.user \in users
  /\ q.op \in DashboardOps => q.dash \in used
  /\ q.op = "add_chart" => q.sec \in used /\ q.chart \in used
  /\ q.at = "write" /\ q.op \in DashboardOps =>
       \A d \in dashboards : d.id = q.dash => d.owner = q.user
  /\ q.at = "write" /\ q.op = "add_chart" =>
       \A s \in sections : s.id = q.sec => s.dash = q.dash

WorkspaceInv ==
  /\ RowsOK /\ RequestsOK /\ KeysInv /\ OwnersInv
  /\ \A r \in Requests : Promise(request[r])

\* The invariant of the workspace holds at first ...
LEMMA WorkInit == Init => WorkspaceInv
BY DEF Init, WorkspaceInit, WorkspaceInv, RowsOK, RequestsOK, KeysInv, OwnersInv,
   Promise, Idle, Stages, DashboardOps

\* Rows appear under ids never used, and keep their owner or dashboard.
Grows ==
  /\ users \subseteq users' /\ used \subseteq used'
  /\ \A x \in dashboards' : \/ x.id \notin used
                            \/ \E y \in dashboards : y.id = x.id /\ y.owner = x.owner
  /\ \A x \in charts' : \/ x.id \notin used
                        \/ \E y \in charts : y.id = x.id /\ y.owner = x.owner
  /\ \A x \in sections' : \/ x.id \notin used
                          \/ \E y \in sections : y.id = x.id /\ y.dash = x.dash

\* A request whose promise held then keeps it.
LEMMA PromiseKept ==
  ASSUME Grows, NEW q, Promise(q) PROVE Promise(q)'
<1>1. /\ q.at \in {"key", "check", "write"} => q.user \in users'
      /\ q.op \in DashboardOps => q.dash \in used'
      /\ q.op = "add_chart" => q.sec \in used' /\ q.chart \in used'
  BY DEF Grows, Promise
<1>2. q.at = "write" /\ q.op \in DashboardOps =>
        \A d \in dashboards' : d.id = q.dash => d.owner = q.user
  BY DEF Grows, Promise
<1>3. q.at = "write" /\ q.op = "add_chart" =>
        \A s \in sections' : s.id = q.sec => s.dash = q.dash
  BY DEF Grows, Promise
<1> QED
  BY <1>1, <1>2, <1>3 DEF Promise

\* The answer of a request.
LEMMA AnswerKept ==
  ASSUME WorkspaceInv, Grows, NEW r \in Requests, Answered(r)
  PROVE  RequestsOK' /\ \A s \in Requests : Promise(request[s])'
<1>1. RequestsOK'
  BY DEF WorkspaceInv, RequestsOK, Grows, Answered, Idle, Stages
<1>2. Promise(Idle)'
  BY DEF Promise, Idle, DashboardOps
<1>3. \A s \in Requests : request'[s] \in {Idle, request[s]}
  BY DEF WorkspaceInv, RequestsOK, Answered
<1>4. \A s \in Requests : Promise(request[s])
  BY DEF WorkspaceInv
<1> QED
  BY <1>1, <1>2, <1>3, <1>4, PromiseKept

\* A request moves on.
LEMMA MoveKept ==
  ASSUME WorkspaceInv, Grows, NEW r \in Requests, NEW place \in Stages, At(r, place),
         Promise(request[r])'
  PROVE  RequestsOK' /\ \A s \in Requests : Promise(request[s])'
<1> DEFINE q == [request[r] EXCEPT !.at = place]
<1>1. request[r] \in [at : Stages, op : Ops \cup {"none"}, user : Users \cup {Nobody},
                      key : used \cup {Nobody}, dash : used \cup {Nobody},
                      sec : used \cup {Nobody}, chart : used \cup {Nobody},
                      place : used \cup {Nobody}]
  BY DEF WorkspaceInv, RequestsOK
<1>2. request' = [request EXCEPT ![r] = q]
  BY DEF At
<1>3. RequestsOK'
  BY <1>1, <1>2 DEF WorkspaceInv, RequestsOK, Grows
<1>4. \A s \in Requests \ {r} : request'[s] = request[s]
  BY <1>2 DEF WorkspaceInv, RequestsOK
<1>5. \A s \in Requests : Promise(request[s])
  BY DEF WorkspaceInv
<1> QED
  BY <1>3, <1>4, <1>5, PromiseKept

\* Rows that stay as they are.
LEMMA RowsKept ==
  ASSUME RowsOK, KeysInv, OwnersInv, users \subseteq users',
         UNCHANGED <<keys, dashboards, sections, charts, placements, used>>
  PROVE  RowsOK' /\ KeysInv' /\ OwnersInv' /\ Grows
<1>1. RowsOK'
  BY DEF RowsOK
<1>2. KeysInv' /\ OwnersInv'
  BY DEF KeysInv, OwnersInv
<1>3. Grows
  BY DEF Grows
<1> QED
  BY <1>1, <1>2, <1>3

\* ... and is kept by each step of a request.
LEMMA AskStep ==
  ASSUME WorkspaceInv, NEW r \in Requests, Ask(r) PROVE WorkspaceInv'
<1>1. UNCHANGED <<users, keys, dashboards, sections, charts, placements, used>>
  BY DEF Ask, tables
<1>2. RowsOK' /\ KeysInv' /\ OwnersInv' /\ Grows
  BY <1>1, RowsKept DEF WorkspaceInv
<1>3. PICK u \in Users, op \in Ops :
        \E d \in Choices(op, "dash", Ids(dashboards)),
           s \in Choices(op, "sec", Ids(sections)),
           c \in Choices(op, "chart", Ids(charts)),
           p \in Choices(op, "place", Ids(placements)),
           k \in {Nobody} \cup {x.id : x \in {y \in keys : y.owner = u}} :
           /\ op = "revoke_key" => k # Nobody
           /\ op = "create_key" => k = Nobody
           /\ request' = [request EXCEPT ![r] =
                [at |-> IF k # Nobody /\ op \notin KeyOps THEN "key" ELSE "token",
                 op |-> op, user |-> u, key |-> k, dash |-> d,
                 sec |-> s, chart |-> c, place |-> p]]
  BY Zenon DEF Ask
<1>4. PICK d \in Choices(op, "dash", Ids(dashboards)),
           s \in Choices(op, "sec", Ids(sections)),
           c \in Choices(op, "chart", Ids(charts)),
           p \in Choices(op, "place", Ids(placements)),
           k \in {Nobody} \cup {x.id : x \in {y \in keys : y.owner = u}} :
           request' = [request EXCEPT ![r] =
             [at |-> IF k # Nobody /\ op \notin KeyOps THEN "key" ELSE "token",
              op |-> op, user |-> u, key |-> k, dash |-> d,
              sec |-> s, chart |-> c, place |-> p]]
  BY <1>3
<1> DEFINE q == [at |-> IF k # Nobody /\ op \notin KeyOps THEN "key" ELSE "token",
                 op |-> op, user |-> u, key |-> k, dash |-> d,
                 sec |-> s, chart |-> c, place |-> p]
<1>5. /\ Ids(dashboards) \subseteq used /\ Ids(sections) \subseteq used
      /\ Ids(charts) \subseteq used /\ Ids(placements) \subseteq used
      /\ Ids(keys) \subseteq used
  BY DEF WorkspaceInv, RowsOK, Ids
<1>6. /\ d \in used \cup {Nobody} /\ s \in used \cup {Nobody}
      /\ c \in used \cup {Nobody} /\ p \in used \cup {Nobody}
      /\ k \in used \cup {Nobody}
  BY <1>4, <1>5 DEF Choices, Ids
<1>7. k # Nobody => u \in users
  BY <1>4 DEF WorkspaceInv, RowsOK
<1>8. op \in DashboardOps => d \in used
  BY <1>4, <1>5 DEF Choices, Names
<1>9. op = "add_chart" => s \in used /\ c \in used
  BY <1>4, <1>5 DEF Choices, Names
<1>10. Promise(q)
  BY <1>7, <1>8, <1>9 DEF Promise
<1>11. RequestsOK'
  <2>1. q \in [at : Stages, op : Ops \cup {"none"}, user : Users \cup {Nobody},
               key : used \cup {Nobody}, dash : used \cup {Nobody},
               sec : used \cup {Nobody}, chart : used \cup {Nobody},
               place : used \cup {Nobody}]
    BY <1>6 DEF Stages
  <2> QED
    BY <2>1, <1>1, <1>4 DEF WorkspaceInv, RequestsOK
<1>12. \A t \in Requests : request'[t] \in {q, request[t]}
  BY <1>4 DEF WorkspaceInv, RequestsOK
<1>13. \A t \in Requests : Promise(request[t])
  BY DEF WorkspaceInv
<1>14. \A t \in Requests : Promise(request[t])'
  BY <1>10, <1>12, <1>13, <1>2, PromiseKept
<1> QED
  BY <1>2, <1>11, <1>14 DEF WorkspaceInv

\* A request whose user is known gets through, to the checks or the write.
LEMMA AuthenticatedKept ==
  ASSUME WorkspaceInv, Grows, NEW r \in Requests, Authenticated(r),
         request[r].user \in users'
  PROVE  RequestsOK' /\ \A s \in Requests : Promise(request[s])'
<1> DEFINE place == IF request[r].op \in DashboardOps THEN "check" ELSE "write"
<1>1. At(r, place) /\ place \in Stages
  BY DEF Authenticated, Stages
<1>2. \E p : p = request[r] /\ Promise(p)'
  BY PromiseKept DEF WorkspaceInv
<1>3. /\ request'[r].at = place /\ request'[r].op = request[r].op
      /\ request'[r].user = request[r].user /\ request'[r].dash = request[r].dash
      /\ request'[r].sec = request[r].sec /\ request'[r].chart = request[r].chart
  BY <1>1 DEF WorkspaceInv, RequestsOK, At
<1>4. request'[r].at = "write" => request[r].op \notin DashboardOps
  BY <1>3
<1>5. Promise(request[r])'
  BY <1>2, <1>3, <1>4 DEF Promise, DashboardOps
<1> QED
  BY <1>1, <1>5, MoveKept

LEMMA SelectUserStep ==
  ASSUME WorkspaceInv, NEW r \in Requests, SelectUser(r) PROVE WorkspaceInv'
<1>1. UNCHANGED <<users, keys, dashboards, sections, charts, placements, used>>
  BY DEF SelectUser, tables
<1>2. RowsOK' /\ KeysInv' /\ OwnersInv' /\ Grows
  BY <1>1, RowsKept DEF WorkspaceInv
<1>3. CASE request[r].user \in users
  BY <1>1, <1>2, <1>3, AuthenticatedKept DEF SelectUser, WorkspaceInv
<1>4. CASE request[r].user \notin users
  <2>1. At(r, "insert") /\ "insert" \in Stages
    BY <1>4 DEF SelectUser, Stages
  <2>2. Promise(request[r])'
    <3>1. Promise(request[r])
      BY DEF WorkspaceInv
    <3>2. /\ request'[r].at = "insert" /\ request'[r].op = request[r].op
          /\ request'[r].user = request[r].user /\ request'[r].dash = request[r].dash
          /\ request'[r].sec = request[r].sec /\ request'[r].chart = request[r].chart
      BY <2>1 DEF WorkspaceInv, RequestsOK, At
    <3> QED
      BY <1>1, <3>1, <3>2 DEF Promise
  <2> QED
    BY <1>2, <2>1, <2>2, MoveKept DEF WorkspaceInv
<1> QED
  BY <1>3, <1>4

LEMMA InsertUserStep ==
  ASSUME WorkspaceInv, NEW r \in Requests, InsertUser(r) PROVE WorkspaceInv'
<1>1. /\ users \subseteq users' /\ request[r].user \in users'
      /\ UNCHANGED <<keys, dashboards, sections, charts, placements, used>>
  BY DEF InsertUser
<1>2. RowsOK' /\ KeysInv' /\ OwnersInv' /\ Grows
  BY <1>1, RowsKept DEF WorkspaceInv
<1>3. Answered(r) \/ Authenticated(r)
  BY DEF InsertUser
<1> QED
  BY <1>1, <1>2, <1>3, AnswerKept, AuthenticatedKept DEF WorkspaceInv

LEMMA ResolveKeyStep ==
  ASSUME WorkspaceInv, NEW r \in Requests, ResolveKey(r) PROVE WorkspaceInv'
<1>1. UNCHANGED <<users, keys, dashboards, sections, charts, placements, used>>
  BY DEF ResolveKey, tables
<1>2. RowsOK' /\ KeysInv' /\ OwnersInv' /\ Grows
  BY <1>1, RowsKept DEF WorkspaceInv
<1>3. request[r].user \in users'
  BY <1>1 DEF ResolveKey, WorkspaceInv, Promise
<1>4. Answered(r) \/ Authenticated(r)
  BY DEF ResolveKey
<1> QED
  BY <1>2, <1>3, <1>4, AnswerKept, AuthenticatedKept DEF WorkspaceInv

LEMMA CheckStep ==
  ASSUME WorkspaceInv, NEW r \in Requests, Check(r) PROVE WorkspaceInv'
<1>1. UNCHANGED <<users, keys, dashboards, sections, charts, placements, used>>
  BY DEF Check, tables
<1>2. RowsOK' /\ KeysInv' /\ OwnersInv' /\ Grows
  BY <1>1, RowsKept DEF WorkspaceInv
<1>3. CASE Allowed(request[r])
  <2>1. At(r, "write") /\ "write" \in Stages
    BY <1>3 DEF Check, Stages
  <2>2. Promise(request[r]) /\ request[r].at = "check"
    BY DEF WorkspaceInv, Check
  <2>3. /\ request'[r].at = "write" /\ request'[r].op = request[r].op
        /\ request'[r].user = request[r].user /\ request'[r].dash = request[r].dash
        /\ request'[r].sec = request[r].sec /\ request'[r].chart = request[r].chart
    BY <2>1 DEF WorkspaceInv, RequestsOK, At
  <2>4. \A d \in dashboards : d.id = request[r].dash => d.owner = request[r].user
    BY <1>3 DEF Allowed, Owns, WorkspaceInv, KeysInv
  <2>5. request[r].op = "add_chart" =>
          \A s \in sections : s.id = request[r].sec => s.dash = request[r].dash
    BY <1>3 DEF Allowed, Holds, WorkspaceInv, KeysInv
  <2>6. Promise(request[r])'
    BY <1>1, <2>2, <2>3, <2>4, <2>5 DEF Promise
  <2> QED
    BY <1>2, <2>1, <2>6, MoveKept DEF WorkspaceInv
<1>4. CASE ~Allowed(request[r])
  BY <1>2, <1>4, AnswerKept DEF Check, WorkspaceInv
<1> QED
  BY <1>3, <1>4

\* Every write answers its request: what is left is what it does to the rows.
LEMMA WriteKept ==
  ASSUME WorkspaceInv, NEW r \in Requests, NEW op, Writes(r, op),
         Grows, RowsOK', KeysInv', OwnersInv'
  PROVE  WorkspaceInv'
BY AnswerKept DEF WorkspaceInv, Writes

\* Who writes is a user, and the part of a dashboard he writes is his.
LEMMA WriterIsUser ==
  ASSUME WorkspaceInv, NEW r \in Requests, NEW op, Writes(r, op)
  PROVE  /\ request[r].user \in users /\ request[r].op = op
         /\ Promise(request[r]) /\ request[r].at = "write"
BY DEF WorkspaceInv, Writes, Promise

LEMMA DashboardStep ==
  ASSUME WorkspaceInv, NEW r \in Requests,
         CreateDashboard(r) \/ UpdateDashboard(r) \/ DeleteDashboard(r)
  PROVE  WorkspaceInv'
<1> DEFINE q == request[r]
<1> USE DEF WorkspaceInv
<1>1. CASE CreateDashboard(r)
  <2>1. Writes(r, "create_dashboard") /\ q.user \in users
    BY <1>1, WriterIsUser DEF CreateDashboard
  <2>2. PICK d \in DashboardIds \ used :
          /\ dashboards' = dashboards \cup {[id |-> d, owner |-> q.user, by |-> q.user]}
          /\ used' = used \cup {d}
    BY <1>1 DEF CreateDashboard, Fresh
  <2>3. UNCHANGED <<users, keys, sections, charts, placements>>
    BY <1>1 DEF CreateDashboard
  <2>4. RowsOK'
    BY <2>1, <2>2, <2>3 DEF RowsOK
  <2>5. KeysInv'
    BY <2>2, <2>3 DEF RowsOK, KeysInv
  <2>6. OwnersInv'
    BY <2>2, <2>3 DEF OwnersInv
  <2>7. Grows
    BY <2>2, <2>3 DEF Grows
  <2> QED
    BY <2>1, <2>4, <2>5, <2>6, <2>7, WriteKept
<1>2. CASE UpdateDashboard(r)
  <2> DEFINE hits == {x \in dashboards : x.id = q.dash /\ x.owner = q.user}
  <2>1. /\ Writes(r, "update_dashboard") /\ q.user \in users
        /\ UNCHANGED <<users, keys, sections, charts, placements, used>>
        /\ dashboards' = (dashboards \ hits) \cup {[x EXCEPT !.by = q.user] : x \in hits}
    BY <1>2, WriterIsUser DEF UpdateDashboard, Edited
  <2>2. dashboards' \subseteq dashboards
    BY <2>1 DEF RowsOK, OwnersInv
  <2>3. dashboards \subseteq dashboards'
    BY <2>1 DEF RowsOK, OwnersInv
  <2>4. dashboards' = dashboards
    BY <2>2, <2>3
  <2> QED
    BY <2>1, <2>4, RowsKept, WriteKept
<1>3. CASE DeleteDashboard(r)
  <2> DEFINE gone == {x.id : x \in {y \in dashboards : y.id = q.dash /\ y.owner = q.user}}
  <2>1. /\ Writes(r, "delete_dashboard")
        /\ dashboards' = {x \in dashboards : x.id \notin gone}
        /\ sections' = {x \in sections : x.dash \notin gone}
        /\ placements' = {x \in placements : x.dash \notin gone}
        /\ UNCHANGED <<users, keys, charts, used>>
    BY <1>3 DEF DeleteDashboard
  <2> HIDE DEF gone
  <2>2. RowsOK'
    BY <2>1 DEF RowsOK
  <2>3. KeysInv'
    BY <2>1 DEF KeysInv
  <2>4. OwnersInv'
    BY <2>1 DEF OwnersInv
  <2>5. Grows
    BY <2>1 DEF Grows
  <2> QED
    BY <2>1, <2>2, <2>3, <2>4, <2>5, WriteKept
<1> QED
  BY <1>1, <1>2, <1>3

LEMMA SectionStep ==
  ASSUME WorkspaceInv, NEW r \in Requests,
         CreateSection(r) \/ UpdateSection(r) \/ DeleteSection(r)
  PROVE  WorkspaceInv'
<1> DEFINE q == request[r]
<1> USE DEF WorkspaceInv
<1>1. CASE CreateSection(r)
  <2>1. /\ Writes(r, "create_section") /\ q.user \in users
        /\ \A d \in dashboards : d.id = q.dash => d.owner = q.user
    BY <1>1, WriterIsUser DEF CreateSection, Promise, DashboardOps
  <2>2. UNCHANGED <<users, keys, dashboards, charts, placements>>
    BY <1>1 DEF CreateSection
  <2>3. CASE q.dash \in Ids(dashboards)
    <3>1. PICK s \in SectionIds \ used :
            /\ sections' = sections \cup {[id |-> s, dash |-> q.dash, by |-> q.user]}
            /\ used' = used \cup {s}
      BY <1>1, <2>3 DEF CreateSection, Fresh
    <3>2. \E d \in dashboards : d.id = q.dash /\ d.owner = q.user
      BY <2>1, <2>3 DEF Ids
    <3>3. RowsOK'
      BY <2>1, <2>2, <3>1, <3>2 DEF RowsOK
    <3>4. KeysInv'
      BY <2>2, <3>1 DEF RowsOK, KeysInv
    <3>5. OwnersInv'
      BY <2>2, <3>1, <3>2 DEF OwnersInv
    <3>6. Grows
      BY <2>2, <3>1 DEF Grows
    <3> QED
      BY <2>1, <3>3, <3>4, <3>5, <3>6, WriteKept
  <2>4. CASE q.dash \notin Ids(dashboards)
    <3>1. UNCHANGED <<sections, used>>
      BY <1>1, <2>4 DEF CreateSection
    <3> QED
      BY <2>1, <2>2, <3>1, RowsKept, WriteKept
  <2> QED
    BY <2>3, <2>4
<1>2. CASE UpdateSection(r)
  <2> DEFINE hits == {x \in sections : x.id = q.sec /\ x.dash = q.dash}
  <2>1. /\ Writes(r, "update_section")
        /\ \A d \in dashboards : d.id = q.dash => d.owner = q.user
        /\ UNCHANGED <<users, keys, dashboards, charts, placements, used>>
        /\ sections' = (sections \ hits) \cup {[x EXCEPT !.by = q.user] : x \in hits}
    BY <1>2, WriterIsUser DEF UpdateSection, Edited, Promise, DashboardOps
  <2>2. \A x \in hits : x.by = q.user
    BY <2>1 DEF OwnersInv
  <2>3. \A x \in hits : [x EXCEPT !.by = q.user] = x
    BY <2>2 DEF RowsOK
  <2>4. sections' = sections
    BY <2>1, <2>3
  <2> QED
    BY <2>1, <2>4, RowsKept, WriteKept
<1>3. CASE DeleteSection(r)
  <2> DEFINE gone == {x.id : x \in {y \in sections : y.id = q.sec /\ y.dash = q.dash}}
  <2>1. /\ Writes(r, "delete_section")
        /\ sections' = {x \in sections : x.id \notin gone}
        /\ placements' = {x \in placements : x.sec \notin gone}
        /\ UNCHANGED <<users, keys, dashboards, charts, used>>
    BY <1>3 DEF DeleteSection
  <2> HIDE DEF gone
  <2>2. RowsOK'
    BY <2>1 DEF RowsOK
  <2>3. KeysInv'
    BY <2>1 DEF KeysInv
  <2>4. OwnersInv'
    BY <2>1 DEF OwnersInv
  <2>5. Grows
    BY <2>1 DEF Grows
  <2> QED
    BY <2>1, <2>2, <2>3, <2>4, <2>5, WriteKept
<1> QED
  BY <1>1, <1>2, <1>3

LEMMA ChartStep ==
  ASSUME WorkspaceInv, NEW r \in Requests,
         CreateChart(r) \/ UpdateChart(r) \/ DeleteChart(r)
  PROVE  WorkspaceInv'
<1> DEFINE q == request[r]
<1> USE DEF WorkspaceInv
<1>1. CASE CreateChart(r)
  <2>1. Writes(r, "create_chart") /\ q.user \in users
    BY <1>1, WriterIsUser DEF CreateChart
  <2>2. PICK c \in ChartIds \ used :
          /\ charts' = charts \cup {[id |-> c, owner |-> q.user, by |-> q.user]}
          /\ used' = used \cup {c}
    BY <1>1 DEF CreateChart, Fresh
  <2>3. UNCHANGED <<users, keys, dashboards, sections, placements>>
    BY <1>1 DEF CreateChart
  <2>4. RowsOK'
    BY <2>1, <2>2, <2>3 DEF RowsOK
  <2>5. KeysInv'
    BY <2>2, <2>3 DEF RowsOK, KeysInv
  <2>6. OwnersInv'
    BY <2>2, <2>3 DEF OwnersInv
  <2>7. Grows
    BY <2>2, <2>3 DEF Grows
  <2> QED
    BY <2>1, <2>4, <2>5, <2>6, <2>7, WriteKept
<1>2. CASE UpdateChart(r)
  <2> DEFINE hits == {x \in charts : x.id = q.chart /\ x.owner = q.user}
  <2>1. /\ Writes(r, "update_chart")
        /\ UNCHANGED <<users, keys, dashboards, sections, placements, used>>
        /\ charts' = (charts \ hits) \cup {[x EXCEPT !.by = q.user] : x \in hits}
    BY <1>2 DEF UpdateChart, Edited
  <2>2. \A x \in hits : [x EXCEPT !.by = q.user] = x
    BY DEF RowsOK, OwnersInv
  <2>3. charts' = charts
    BY <2>1, <2>2
  <2> QED
    BY <2>1, <2>3, RowsKept, WriteKept
<1>3. CASE DeleteChart(r)
  <2> DEFINE gone == {x.id : x \in {y \in charts : y.id = q.chart /\ y.owner = q.user}}
  <2>1. /\ Writes(r, "delete_chart")
        /\ charts' = {x \in charts : x.id \notin gone}
        /\ placements' = {x \in placements : x.chart \notin gone}
        /\ UNCHANGED <<users, keys, dashboards, sections, used>>
    BY <1>3 DEF DeleteChart
  <2> HIDE DEF gone
  <2>2. RowsOK'
    BY <2>1 DEF RowsOK
  <2>3. KeysInv'
    BY <2>1 DEF KeysInv
  <2>4. OwnersInv'
    BY <2>1 DEF OwnersInv
  <2>5. Grows
    BY <2>1 DEF Grows
  <2> QED
    BY <2>1, <2>2, <2>3, <2>4, <2>5, WriteKept
<1> QED
  BY <1>1, <1>2, <1>3

LEMMA PlacementStep ==
  ASSUME WorkspaceInv, NEW r \in Requests, AddChart(r) \/ RemoveChart(r)
  PROVE  WorkspaceInv'
<1> DEFINE q == request[r]
<1> USE DEF WorkspaceInv
<1>1. CASE AddChart(r)
  <2>1. /\ Writes(r, "add_chart")
        /\ \A d \in dashboards : d.id = q.dash => d.owner = q.user
        /\ \A s \in sections : s.id = q.sec => s.dash = q.dash
        /\ q.dash \in used /\ q.sec \in used /\ q.chart \in used /\ q.user \in users
    BY <1>1, WriterIsUser DEF AddChart, Promise, DashboardOps
  <2>2. UNCHANGED <<users, keys, dashboards, sections, charts>>
    BY <1>1 DEF AddChart
  <2>3. CASE UNCHANGED <<placements, used>>
    BY <2>1, <2>2, <2>3, RowsKept, WriteKept
  <2>4. CASE ~UNCHANGED <<placements, used>>
    <3>1. /\ q.dash \in Ids(dashboards) /\ q.sec \in Ids(sections)
          /\ q.chart \in Ids(charts)
      BY <1>1, <2>4 DEF AddChart
    <3>2. PICK i \in PlacementIds \ used :
            /\ placements' = placements \cup
                 {[id |-> i, dash |-> q.dash, sec |-> q.sec, chart |-> q.chart,
                   by |-> q.user]}
            /\ used' = used \cup {i}
      BY <1>1, <2>4 DEF AddChart, Fresh
    <3>3. RowsOK'
      BY <2>1, <2>2, <3>2 DEF RowsOK
    <3>4. KeysInv'
      BY <2>2 DEF KeysInv
    <3>5. /\ \E s \in sections : s.id = q.sec /\ s.dash = q.dash
          /\ \E d \in dashboards : d.id = q.dash /\ d.owner = q.user
          /\ \E c \in charts : c.id = q.chart
      BY <2>1, <3>1 DEF Ids
    <3>6. OwnersInv'
      BY <2>2, <3>2, <3>5 DEF OwnersInv
    <3>7. Grows
      BY <2>2, <3>2 DEF Grows
    <3> QED
      BY <2>1, <3>3, <3>4, <3>6, <3>7, WriteKept
  <2> QED
    BY <2>3, <2>4
<1>2. CASE RemoveChart(r)
  <2>1. /\ Writes(r, "remove_chart") /\ placements' \subseteq placements
        /\ UNCHANGED <<users, keys, dashboards, sections, charts, used>>
    BY <1>2 DEF RemoveChart
  <2>2. RowsOK' /\ KeysInv' /\ OwnersInv'
    BY <2>1 DEF RowsOK, KeysInv, OwnersInv
  <2>3. Grows
    BY <2>1 DEF Grows
  <2> QED
    BY <2>1, <2>2, <2>3, WriteKept
<1> QED
  BY <1>1, <1>2

LEMMA KeyStep ==
  ASSUME WorkspaceInv, NEW r \in Requests, CreateKey(r) \/ RevokeKey(r)
  PROVE  WorkspaceInv'
<1> DEFINE q == request[r]
<1> USE DEF WorkspaceInv
<1>1. CASE CreateKey(r)
  <2>1. Writes(r, "create_key") /\ q.user \in users
    BY <1>1, WriterIsUser DEF CreateKey
  <2>2. PICK k \in KeyIds \ used :
          /\ keys' = keys \cup {[id |-> k, owner |-> q.user, revoked |-> FALSE]}
          /\ used' = used \cup {k}
    BY <1>1 DEF CreateKey, Fresh
  <2>3. UNCHANGED <<users, dashboards, sections, charts, placements>>
    BY <1>1 DEF CreateKey
  <2>4. RowsOK'
    <3>1. keys' \subseteq [id : used', owner : users', revoked : BOOLEAN]
      <4> DEFINE Row == [id : used', owner : users', revoked : BOOLEAN]
                 new == [id |-> k, owner |-> q.user, revoked |-> FALSE]
      <4>1. \A x \in keys : x \in Row
        BY <2>2, <2>3 DEF RowsOK
      <4>2. new \in Row
        BY <2>1, <2>2, <2>3
      <4>3. keys' = keys \cup {new}
        BY <2>2
      <4> HIDE DEF Row, new
      <4>4. keys' \subseteq Row
        BY <4>1, <4>2, <4>3
      <4> QED
        BY <4>4 DEF Row
    <3>2. /\ dashboards \subseteq [id : used', owner : users', by : users']
          /\ charts \subseteq [id : used', owner : users', by : users']
          /\ sections \subseteq [id : used', dash : used', by : users']
          /\ placements \subseteq [id : used', dash : used', sec : used', chart : used',
                                   by : users']
      BY <2>2, <2>3 DEF RowsOK
    <3> QED
      BY <2>3, <3>1, <3>2 DEF RowsOK
  <2>5. KeysInv' /\ OwnersInv'
    BY <2>3 DEF KeysInv, OwnersInv
  <2>6. Grows
    BY <2>2, <2>3 DEF Grows
  <2> QED
    BY <2>1, <2>4, <2>5, <2>6, WriteKept
<1>2. CASE RevokeKey(r)
  <2>1. /\ Writes(r, "revoke_key")
        /\ keys' = {IF k.id = q.key /\ k.owner = q.user
                    THEN [k EXCEPT !.revoked = TRUE] ELSE k : k \in keys}
        /\ UNCHANGED <<users, dashboards, sections, charts, placements, used>>
    BY <1>2 DEF RevokeKey
  <2>2. RowsOK'
    BY <2>1 DEF RowsOK
  <2>3. KeysInv' /\ OwnersInv'
    BY <2>1 DEF KeysInv, OwnersInv
  <2>4. Grows
    BY <2>1 DEF Grows
  <2> QED
    BY <2>1, <2>2, <2>3, <2>4, WriteKept
<1> QED
  BY <1>1, <1>2

\* The rows that users keep have owners, and a request acts for the user it
\* resolved (api/routers/dashboards.py, api/deps.py).
THEOREM WorkspaceInductive == Spec => []WorkspaceInv
<1>1. ASSUME WorkspaceInv, [Next]_vars PROVE WorkspaceInv'
  <2>1. CASE Work
    <3>1. PICK r \in Requests :
             \/ Ask(r) \/ SelectUser(r) \/ InsertUser(r) \/ ResolveKey(r) \/ Check(r)
             \/ CreateDashboard(r) \/ UpdateDashboard(r) \/ DeleteDashboard(r)
             \/ CreateSection(r) \/ UpdateSection(r) \/ DeleteSection(r)
             \/ AddChart(r) \/ RemoveChart(r)
             \/ CreateChart(r) \/ UpdateChart(r) \/ DeleteChart(r)
             \/ CreateKey(r) \/ RevokeKey(r)
      BY <2>1 DEF Work, WorkspaceNext
    <3> QED
      BY <1>1, <3>1, AskStep, SelectUserStep, InsertUserStep, ResolveKeyStep,
         CheckStep, DashboardStep, SectionStep, ChartStep, PlacementStep, KeyStep
  <2>2. CASE UNCHANGED workspaceVars
    <3>1. RowsOK' /\ KeysInv' /\ OwnersInv' /\ Grows
      BY <1>1, <2>2, RowsKept DEF workspaceVars, WorkspaceInv
    <3>2. RequestsOK' /\ \A r \in Requests : Promise(request[r])'
      BY <1>1, <2>2 DEF workspaceVars, WorkspaceInv, RequestsOK, Promise
    <3> QED
      BY <3>1, <3>2 DEF WorkspaceInv
  <2> QED
    BY <1>1, <2>1, <2>2 DEF Next, Tokens, Start, vars
<1> QED
  BY <1>1, WorkInit, PTL DEF Spec

\* An owner is well defined.
LEMMA OwnerIs ==
  ASSUME KeysInv, NEW d \in dashboards PROVE OwnerOf(d.id) = d.owner
<1>1. \A x \in dashboards : x.id = d.id <=> x = d
  BY DEF KeysInv
<1>2. (CHOOSE x \in dashboards : x.id = d.id) = d
  BY <1>1
<1> QED
  BY <1>2 DEF OwnerOf

\* However requests interleave their checks, deletions and insertions, a
\* dashboard holds only what its owner put there, and nothing that has gone.
THEOREM DashboardsStayWhole == Spec => []DashboardsAreWhole
<1>1. ASSUME WorkspaceInv PROVE DashboardsAreWhole
  <2>1. \A x \in dashboards : x.owner \in users /\ x.by = x.owner
    BY <1>1 DEF WorkspaceInv, RowsOK, OwnersInv
  <2>2. \A x \in charts : x.owner \in users /\ x.by = x.owner
    BY <1>1 DEF WorkspaceInv, RowsOK, OwnersInv
  <2>3. \A x \in sections : x.dash \in Ids(dashboards) /\ x.by = OwnerOf(x.dash)
    BY <1>1, OwnerIs DEF WorkspaceInv, OwnersInv, Ids
  <2>4. ASSUME NEW p \in placements
        PROVE  /\ Holds(p.dash, p.sec) /\ p.chart \in Ids(charts)
               /\ p.by = OwnerOf(p.dash)
    BY <1>1, OwnerIs DEF WorkspaceInv, OwnersInv, Holds, Ids
  <2> QED
    BY <2>1, <2>2, <2>3, <2>4 DEF DashboardsAreWhole
<1> QED
  BY <1>1, WorkspaceInductive, PTL
=============================================================================
