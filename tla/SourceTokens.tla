---------------------------- MODULE SourceTokens ----------------------------
(***************************************************************************)
(* The OAuth tokens of a QuickBooks company: kept in connector_source,     *)
(* copied into the config of every client, refreshed by whichever client   *)
(* needs to (connectors/quickbooks/client.py), and replaced when the       *)
(* company is connected again (connectors/quickbooks/routes.py).           *)
(*                                                                         *)
(* Tokens are numbers in the order of their issue, 0 stands for none.      *)
(***************************************************************************)
EXTENDS Integers, FiniteSets

CONSTANTS
  Clients,        \* of webhook requests and of backfills
  MaxTokens,      \* tokens the provider issues
  MaxTokenFaults  \* lost answers, failed writes, outages, stopped clients

VARIABLES
  issued,    \* tokens issued so far (external, as the next two)
  good,      \* refresh tokens the provider accepts
  live,      \* access tokens the provider accepts
  overdue,   \* access tokens less than a minute before their expiry, or past it
  row,       \* the tokens in connector_source.config
  visit,     \* the tokens the OAuth callback holds and has not stored
  config,    \* client -> its copy, and whether it has the app's credentials
  step,      \* client -> where it is
  retried,   \* client -> was this call answered 401 before
  tokenFaults,
  spoilt,    \* history: a rotation was lost, or overlapped another refresh
  alone      \* history: clients nothing has interfered with since they loaded

provider == <<issued, good, live, overdue>>
tokenVars == <<issued, good, live, overdue, row, visit, config, step, retried,
               tokenFaults, spoilt, alone>>

NoTokens == [access |-> 0, refresh |-> 0]
NoConfig == [access |-> 0, refresh |-> 0, env |-> FALSE]

TokensInit ==
  /\ issued = 0 /\ good = {} /\ live = {} /\ overdue = {}
  /\ row = NoTokens /\ visit = NoTokens
  /\ config = [c \in Clients |-> NoConfig]
  /\ step = [c \in Clients |-> "idle"]
  /\ retried = [c \in Clients |-> FALSE]
  /\ tokenFaults = 0 /\ spoilt = FALSE /\ alone = {}

\* Clients that were answered a refresh and have not stored it.
Unstored == {c \in Clients : step[c] = "answered"}

\* Without its answer stored, the row would be left behind.
LostRotation(c) == c \in Unstored /\ config[c].refresh # row.refresh

Fault == tokenFaults < MaxTokenFaults /\ tokenFaults' = tokenFaults + 1

-----------------------------------------------------------------------------
(* The provider *)

Issue(accepted) ==
  /\ issued < MaxTokens
  /\ issued' = issued + 1
  /\ live' = live \cup {issued + 1}
  /\ good' = accepted \cup {issued + 1}

\* A client holds the answer of its second attempt for less than an hour.
Resting(a) == \A c \in Clients : retried[c] => config[c].access # a

ComesDue ==
  /\ \E a \in live \ overdue : Resting(a) /\ overdue' = overdue \cup {a}
  /\ UNCHANGED <<issued, good, live, row, visit, config, step, retried,
                 tokenFaults, spoilt, alone>>

\* The end of its hour, or earlier.
Expires ==
  /\ \E a \in live : Resting(a) /\ live' = live \ {a}
  /\ UNCHANGED <<issued, good, overdue, row, visit, config, step, retried,
                 tokenFaults, spoilt, alone>>

-----------------------------------------------------------------------------
(* Connecting the company *)

\* oauth_callback exchanges the code.  Earlier authorisations may end by it.
Exchange ==
  /\ visit = NoTokens
  /\ \E kept \in {{}, good} : Issue(kept)
  /\ visit' = [access |-> issued + 1, refresh |-> issued + 1]
  /\ alone' = {}
  /\ UNCHANGED <<overdue, row, config, step, retried, tokenFaults, spoilt>>

\* INSERT ... ON CONFLICT (id) DO UPDATE SET config = EXCLUDED.config
SaveVisit ==
  /\ visit # NoTokens
  /\ row' = visit /\ visit' = NoTokens
  /\ spoilt' = (Unstored # {})
  /\ alone' = {}
  /\ UNCHANGED <<issued, good, live, overdue, config, step, retried, tokenFaults>>

-----------------------------------------------------------------------------
(* A client *)

Goes(c, place) == step' = [step EXCEPT ![c] = place]

\* The row's tokens, and the app's credentials if it has them.
Loads(c, env) ==
  /\ step[c] = "idle"
  /\ config' = [config EXCEPT ![c] =
       [access |-> row.access, refresh |-> row.refresh, env |-> env]]
  /\ Goes(c, "ready")
  /\ alone' = IF row # NoTokens /\ ~spoilt /\ visit = NoTokens /\ Unstored = {}
              THEN alone \cup {c} ELSE alone \ {c}
  /\ UNCHANGED <<issued, good, live, overdue, row, visit, retried, tokenFaults,
                 spoilt>>

\* _load_source_config lays the row's tokens over the environment's settings,
\* client_id and client_secret among them.
LoadSourceConfig(c) == Loads(c, TRUE)

\* A backfill's config is the row alone, and there is none without a row.
RunBackfill(c) == row # NoTokens /\ Loads(c, FALSE)

\* _ensure_access_token
EnsureAccessToken(c) ==
  /\ step[c] = "ready"
  /\ LET a == config[c].access
     IN  Goes(c, IF a # 0 /\ a \notin overdue THEN "sending" ELSE "refreshing")
  /\ UNCHANGED <<issued, good, live, overdue, row, visit, config, retried,
                 tokenFaults, spoilt, alone>>

\* _refresh, up to the answer.  The provider may keep the refresh token.
Refresh(c) ==
  /\ step[c] = "refreshing"
  /\ config[c].env /\ config[c].refresh \in good
  /\ \E rotates \in BOOLEAN :
        /\ Issue(IF rotates THEN good \ {config[c].refresh} ELSE good)
        /\ config' = [config EXCEPT
             ![c].access = issued + 1,
             ![c].refresh = IF rotates THEN issued + 1 ELSE @]
        /\ spoilt' = (spoilt \/ (rotates /\ Unstored # {}))
  /\ Goes(c, "answered")
  /\ alone' = alone \cap {c}
  /\ UNCHANGED <<overdue, row, visit, retried, tokenFaults>>

\* QuickBooksAPIError: no credentials, or the provider refuses.
RefreshRefused(c) ==
  /\ step[c] = "refreshing"
  /\ ~config[c].env \/ config[c].refresh \notin good
  /\ Goes(c, "failed")
  /\ UNCHANGED <<issued, good, live, overdue, row, visit, config, retried,
                 tokenFaults, spoilt, alone>>

\* Mutant of Overlay: the refresh token is taken for a constant.
OverlayAccess(c) ==
  IF row = NoTokens THEN row ELSE [row EXCEPT !.access = config[c].access]

\* _persist_tokens overlays all its fields on the row's, if there is a row.
Overlay(c) == IF row = NoTokens THEN row
              ELSE [access |-> config[c].access, refresh |-> config[c].refresh]

PersistTokens(c) ==
  /\ step[c] = "answered"
  /\ row' = Overlay(c)
  /\ Goes(c, "sending")
  /\ UNCHANGED <<issued, good, live, overdue, visit, config, retried,
                 tokenFaults, spoilt, alone>>

\* Its exceptions are swallowed.
PersistFails(c) ==
  /\ step[c] = "answered" /\ Fault
  /\ Goes(c, "sending")
  /\ spoilt' = (spoilt \/ LostRotation(c))
  /\ alone' = {}
  /\ UNCHANGED <<issued, good, live, overdue, row, visit, config, retried>>

\* _request, with a live token
Request(c) ==
  /\ step[c] = "sending" /\ config[c].access \in live
  /\ Goes(c, "done")
  /\ UNCHANGED <<issued, good, live, overdue, row, visit, config, retried,
                 tokenFaults, spoilt, alone>>

\* Mutant of AfterRefusal: no second attempt.
GiveUpAtOnce(c) == "failed"

\* What a first 401 leads to.
AfterRefusal(c) == IF retried[c] THEN "failed" ELSE "refreshing"

\* 401: the access token is dropped, and the call made once more.
RequestRefused(c) ==
  /\ step[c] = "sending" /\ config[c].access \notin live
  /\ Goes(c, AfterRefusal(c))
  /\ config' = [config EXCEPT ![c].access = IF retried[c] THEN @ ELSE 0]
  /\ retried' = [retried EXCEPT ![c] = TRUE]
  /\ UNCHANGED <<issued, good, live, overdue, row, visit, tokenFaults, spoilt,
                 alone>>

\* Any other status, or no answer at all.
Outage(c) ==
  /\ step[c] \in {"sending", "refreshing"} /\ Fault
  /\ Goes(c, "failed")
  /\ alone' = alone \ {c}
  /\ UNCHANGED <<issued, good, live, overdue, row, visit, config, retried, spoilt>>

\* A webhook goes on to its next entity whether this one failed or not
\* (get_entity returns None), a backfill after a page that did not fail.
NextCall(c) ==
  /\ step[c] = "done" \/ (config[c].env /\ step[c] = "failed")
  /\ Goes(c, "ready")
  /\ retried' = [retried EXCEPT ![c] = FALSE]
  /\ UNCHANGED <<issued, good, live, overdue, row, visit, config, tokenFaults,
                 spoilt, alone>>

Leaves(c) ==
  /\ Goes(c, "idle")
  /\ config' = [config EXCEPT ![c] = NoConfig]
  /\ retried' = [retried EXCEPT ![c] = FALSE]
  /\ alone' = alone \ {c}
  /\ UNCHANGED <<issued, good, live, overdue, row, visit>>

Close(c) ==
  /\ step[c] \in {"done", "failed"}
  /\ Leaves(c)
  /\ UNCHANGED <<tokenFaults, spoilt>>

\* The process stops, or the answer of a refresh never arrives.
Dies(c) ==
  /\ step[c] \notin {"idle", "done", "failed"} /\ Fault
  /\ Leaves(c)
  /\ spoilt' = (spoilt \/ LostRotation(c))

TokensNext ==
  \/ ComesDue \/ Expires \/ Exchange \/ SaveVisit
  \/ \E c \in Clients :
        \/ LoadSourceConfig(c) \/ RunBackfill(c)
        \/ EnsureAccessToken(c) \/ Refresh(c) \/ RefreshRefused(c)
        \/ PersistTokens(c) \/ PersistFails(c) \/ Request(c) \/ RequestRefused(c)
        \/ Outage(c) \/ NextCall(c) \/ Close(c) \/ Dies(c)

-----------------------------------------------------------------------------
(* Properties *)

\* With no token on its way into the row, the stored refresh token is one the
\* provider accepts: whichever clients refreshed and in whatever order, the
\* company need not be connected again.  Excluded is what no client can help:
\* a rotation that was lost, and a refresh that overlapped a new connection, or a
\* rotation by another client, and is stored over it.
StoredTokenWorks ==
  row # NoTokens /\ visit = NoTokens /\ Unstored = {} /\ ~spoilt
    => row.refresh \in good

\* A webhook's call fails only for a reason: an outage, or another client or a
\* new connection that replaced tokens after this client had loaded them.  An
\* access token that expired or was withdrawn is not one.
CallsSucceed ==
  \A c \in alone : config[c].env => step[c] # "failed"
=============================================================================
