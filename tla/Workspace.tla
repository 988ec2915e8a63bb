------------------------------ MODULE Workspace ------------------------------
(***************************************************************************)
(* What users keep through the HTTP API: API keys (api_keys.py, deps.py),  *)
(* and dashboards with sections and saved charts (dashboards.py).  A       *)
(* request is served by its own coroutine and database session: it is      *)
(* authenticated (auth.py), checks, and writes, with other requests in     *)
(* between.  Statements see what is committed when they start.             *)
(*                                                                         *)
(* A row's content is who wrote it last (by); ids are never used twice.    *)
(***************************************************************************)
EXTENDS FiniteSets

CONSTANTS
  Users, Requests,
  DashboardIds, SectionIds, ChartIds, PlacementIds, KeyIds,
  Nobody      \* a field that is not set

VARIABLES
  users,        \* app_user
  keys,         \* api_key
  dashboards, sections, charts,
  placements,   \* dashboard_chart
  used,         \* ids that were given out
  request       \* request -> what it asks and how far it is

tables == <<users, keys, dashboards, sections, charts, placements, used>>
workspaceVars == <<users, keys, dashboards, sections, charts, placements, used,
                   request>>

Idle == [at |-> "idle", op |-> "none", user |-> Nobody, key |-> Nobody,
          dash |-> Nobody, sec |-> Nobody, chart |-> Nobody,
         place |-> Nobody]

WorkspaceInit ==
  /\ users = {} /\ keys = {} /\ dashboards = {} /\ sections = {} /\ charts = {}
  /\ placements = {} /\ used = {}
  /\ request = [r \in Requests |-> Idle]

-----------------------------------------------------------------------------
(* Authentication *)

At(r, place) == request' = [request EXCEPT ![r].at = place]
Answered(r) == request' = [request EXCEPT ![r] = Idle]

KeyOps == {"create_key", "revoke_key"}
DashboardOps == {"create_section", "update_section", "delete_section",
                 "add_chart", "remove_chart"}
Ops == KeyOps \cup DashboardOps
         \cup {"create_dashboard", "update_dashboard", "delete_dashboard",
               "create_chart", "update_chart", "delete_chart"}

\* The ids an operation takes.
Names(op, kind) ==
  CASE kind = "dash" -> op \in DashboardOps \cup {"update_dashboard", "delete_dashboard"}
    [] kind = "sec" -> op \in {"update_section", "delete_section", "add_chart"}
    [] kind = "chart" -> op \in {"add_chart", "update_chart", "delete_chart"}
    [] kind = "place" -> op = "remove_chart"

Choices(op, kind, ids) == IF Names(op, kind) THEN ids ELSE {Nobody}
Ids(table) == {x.id : x \in table}

\* A user works with ids of any dashboard, section, chart or placement, by a link
\* or an old page.
Ask(r) ==
  /\ request[r].at = "idle"
  /\ \E u \in Users, op \in Ops :
     \E d \in Choices(op, "dash", Ids(dashboards)),
        s \in Choices(op, "sec", Ids(sections)),
        c \in Choices(op, "chart", Ids(charts)),
        p \in Choices(op, "place", Ids(placements)),
        k \in {Nobody} \cup {x.id : x \in {y \in keys : y.owner = u}} :
        /\ op = "revoke_key" => k # Nobody
        /\ op = "create_key" => k = Nobody
        /\ request' = [request EXCEPT ![r] =
             [at |-> IF k # Nobody /\ op \notin KeyOps THEN "key" ELSE "token",
              op |-> op, user |-> u, key |-> k, dash |-> d,
              sec |-> s, chart |-> c, place |-> p]]
  /\ UNCHANGED tables

\* The SELECTs of a write on a part of a dashboard come first.
Authenticated(r) ==
  At(r, IF request[r].op \in DashboardOps THEN "check" ELSE "write")

\* upsert_user's SELECT, and the UPDATE of a user who is there: no row of
\* app_user is ever deleted.
SelectUser(r) ==
  /\ request[r].at = "token"
  /\ IF request[r].user \in users THEN Authenticated(r) ELSE At(r, "insert")
  /\ UNCHANGED tables

\* The INSERT of upsert_user.  Of two first requests of a user the second one
\* raises, and that request is answered 500.
InsertUser(r) ==
  /\ request[r].at = "insert"
  /\ IF request[r].user \in users THEN Answered(r) ELSE Authenticated(r)
  /\ users' = users \cup {request[r].user}
  /\ UNCHANGED <<keys, dashboards, sections, charts, placements, used>>

\* _resolve_api_key.  The router and the handler each authenticate the request;
\* the second time decides.
ResolveKey(r) ==
  /\ request[r].at = "key"
  /\ IF \E k \in keys : k.id = request[r].key /\ ~k.revoked
     THEN Authenticated(r) ELSE Answered(r)
  /\ UNCHANGED tables

-----------------------------------------------------------------------------
(* Checks *)

Owns(u, d) == \E x \in dashboards : x.id = d /\ x.owner = u
Holds(d, s) == \E x \in sections : x.id = s /\ x.dash = d

\* Mutant of Allowed: the section is taken as it comes.
AllowedAnySection(q) == Owns(q.user, q.dash)

\* The SELECTs before a write, 404 otherwise.  Whose the chart is, nothing asks.
Allowed(q) ==
  /\ Owns(q.user, q.dash)
  /\ q.op = "add_chart" => Holds(q.dash, q.sec)

Check(r) ==
  /\ request[r].at = "check"
  /\ IF Allowed(request[r]) THEN At(r, "write") ELSE Answered(r)
  /\ UNCHANGED tables

-----------------------------------------------------------------------------
(* Writes: each is the rest of its request's transaction *)

Writes(r, op) == request[r].at = "write" /\ request[r].op = op /\ Answered(r)

Fresh(ids) == ids \ used

CreateDashboard(r) ==
  /\ Writes(r, "create_dashboard")
  /\ \E d \in Fresh(DashboardIds) :
        /\ dashboards' = dashboards \cup
             {[id |-> d, owner |-> request[r].user, by |-> request[r].user]}
        /\ used' = used \cup {d}
  /\ UNCHANGED <<users, keys, sections, charts, placements>>

\* UPDATE ... SET name, description WHERE id = :did AND user_id = :uid
Edited(table, hits, u) == (table \ hits) \cup {[x EXCEPT !.by = u] : x \in hits}

UpdateDashboard(r) ==
  LET q == request[r]
  IN  /\ Writes(r, "update_dashboard")
      /\ dashboards' = Edited(dashboards,
           {x \in dashboards : x.id = q.dash /\ x.owner = q.user}, q.user)
      /\ UNCHANGED <<users, keys, sections, charts, placements, used>>

\* ON DELETE CASCADE takes the sections and the placements along.
DeleteDashboard(r) ==
  LET q == request[r]
      gone == {x.id : x \in {y \in dashboards : y.id = q.dash /\ y.owner = q.user}}
  IN  /\ Writes(r, "delete_dashboard")
      /\ dashboards' = {x \in dashboards : x.id \notin gone}
      /\ sections' = {x \in sections : x.dash \notin gone}
      /\ placements' = {x \in placements : x.dash \notin gone}
      /\ UNCHANGED <<users, keys, charts, used>>

\* The foreign key makes the INSERT raise when the dashboard has gone.
CreateSection(r) ==
  LET q == request[r]
  IN  /\ Writes(r, "create_section")
      /\ \E s \in Fresh(SectionIds) :
            IF q.dash \in Ids(dashboards)
            THEN /\ sections' = sections \cup {[id |-> s, dash |-> q.dash, by |-> q.user]}
                 /\ used' = used \cup {s}
            ELSE UNCHANGED <<sections, used>>
      /\ UNCHANGED <<users, keys, dashboards, charts, placements>>

UpdateSection(r) ==
  LET q == request[r]
  IN  /\ Writes(r, "update_section")
      /\ sections' = Edited(sections,
           {x \in sections : x.id = q.sec /\ x.dash = q.dash}, q.user)
      /\ UNCHANGED <<users, keys, dashboards, charts, placements, used>>

DeleteSection(r) ==
  LET q == request[r]
      gone == {x.id : x \in {y \in sections : y.id = q.sec /\ y.dash = q.dash}}
  IN  /\ Writes(r, "delete_section")
      /\ sections' = {x \in sections : x.id \notin gone}
      /\ placements' = {x \in placements : x.sec \notin gone}
      /\ UNCHANGED <<users, keys, dashboards, charts, used>>

\* Three foreign keys, and a chart is on a dashboard once; 500 otherwise.
AddChart(r) ==
  LET q == request[r]
      fits == /\ q.dash \in Ids(dashboards)
              /\ q.sec \in Ids(sections) /\ q.chart \in Ids(charts)
              /\ ~\E p \in placements : p.dash = q.dash /\ p.chart = q.chart
  IN  /\ Writes(r, "add_chart")
      /\ \E i \in Fresh(PlacementIds) :
            IF fits
            THEN /\ placements' = placements \cup
                      {[id |-> i, dash |-> q.dash, sec |-> q.sec, chart |-> q.chart,
                       by |-> q.user]}
                 /\ used' = used \cup {i}
            ELSE UNCHANGED <<placements, used>>
      /\ UNCHANGED <<users, keys, dashboards, sections, charts>>

RemoveChart(r) ==
  LET q == request[r]
  IN  /\ Writes(r, "remove_chart")
      /\ placements' = {p \in placements : ~(p.id = q.place /\ p.dash = q.dash)}
      /\ UNCHANGED <<users, keys, dashboards, sections, charts, used>>

CreateChart(r) ==
  /\ Writes(r, "create_chart")
  /\ \E c \in Fresh(ChartIds) :
        /\ charts' = charts \cup
             {[id |-> c, owner |-> request[r].user, by |-> request[r].user]}
        /\ used' = used \cup {c}
  /\ UNCHANGED <<users, keys, dashboards, sections, placements>>

UpdateChart(r) ==
  LET q == request[r]
  IN  /\ Writes(r, "update_chart")
      /\ charts' = Edited(charts,
           {x \in charts : x.id = q.chart /\ x.owner = q.user}, q.user)
      /\ UNCHANGED <<users, keys, dashboards, sections, placements, used>>

DeleteChart(r) ==
  LET q == request[r]
      gone == {x.id : x \in {y \in charts : y.id = q.chart /\ y.owner = q.user}}
  IN  /\ Writes(r, "delete_chart")
      /\ charts' = {x \in charts : x.id \notin gone}
      /\ placements' = {p \in placements : p.chart \notin gone}
      /\ UNCHANGED <<users, keys, dashboards, sections, used>>

CreateKey(r) ==
  /\ Writes(r, "create_key")
  /\ \E k \in Fresh(KeyIds) :
        /\ keys' = keys \cup {[id |-> k, owner |-> request[r].user, revoked |-> FALSE]}
        /\ used' = used \cup {k}
  /\ UNCHANGED <<users, dashboards, sections, charts, placements>>

RevokeKey(r) ==
  LET q == request[r]
  IN  /\ Writes(r, "revoke_key")
      /\ keys' = {IF k.id = q.key /\ k.owner = q.user
                  THEN [k EXCEPT !.revoked = TRUE] ELSE k : k \in keys}
      /\ UNCHANGED <<users, dashboards, sections, charts, placements, used>>

WorkspaceNext ==
  \E r \in Requests :
     \/ Ask(r) \/ SelectUser(r) \/ InsertUser(r) \/ ResolveKey(r) \/ Check(r)
     \/ CreateDashboard(r) \/ UpdateDashboard(r) \/ DeleteDashboard(r)
     \/ CreateSection(r) \/ UpdateSection(r) \/ DeleteSection(r)
     \/ AddChart(r) \/ RemoveChart(r)
     \/ CreateChart(r) \/ UpdateChart(r) \/ DeleteChart(r)
     \/ CreateKey(r) \/ RevokeKey(r)

-----------------------------------------------------------------------------
(* Properties *)

OwnerOf(d) == (CHOOSE x \in dashboards : x.id = d).owner

\* A dashboard is written by its owner alone: it and its sections have only his
\* content, and on it stand only charts that he put there, each in a section of
\* this dashboard.  No interleaving of checks, deletions and insertions leaves a
\* section or a placement behind, or a placement without its chart.  The chart
\* itself may be another user's, who alone edits it, and whose deletion takes the
\* placement along.
DashboardsAreWhole ==
  /\ \A x \in dashboards : x.owner \in users /\ x.by = x.owner
  /\ \A x \in charts : x.owner \in users /\ x.by = x.owner
  /\ \A x \in sections : x.dash \in Ids(dashboards) /\ x.by = OwnerOf(x.dash)
  /\ \A p \in placements :
        /\ Holds(p.dash, p.sec) /\ p.chart \in Ids(charts)
        /\ p.by = OwnerOf(p.dash)
=============================================================================
