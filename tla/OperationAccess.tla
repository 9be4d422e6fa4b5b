-------------------------- MODULE OperationAccess --------------------------
(***************************************************************************)
(* Who may do what, by which door: the endpoints with the role each asks   *)
(* for (api.py, api_routes/), the tools with theirs (tools/registry.py,    *)
(* tools/catalog/), which the chat, POST /mcp/call and the stdio server    *)
(* mcp_server.py open, and the sessions of auth_service.py behind them.    *)
(* An operation is named by its endpoint or tool and known by what it      *)
(* changes.                                                                *)
(***************************************************************************)
EXTENDS ToolCatalogue, Naturals, FiniteSets

CONSTANTS
    Users, UserRole,    \* accounts, and the role each was created with
    AuthTokens, NoUser, NoToken,
    AuthRequired        \* IIMC_AUTH_REQUIRED

ASSUME AccessAssumption ==
    /\ IsFiniteSet(AuthTokens) /\ UserRole \in [Users -> Roles]
    /\ NoUser \notin Users /\ NoToken \notin AuthTokens /\ AuthRequired \in BOOLEAN

VARIABLES
    authSessions,   \* rows of auth_sessions, by token
    request,        \* the request under way, or the last one
    loggedOut       \* history: tokens whose logout has returned

accessVars == <<authSessions, request, loggedOut>>

(***************************************************************************)
(* Endpoints, by the dependency that guards them.                          *)
(***************************************************************************)
AgentRoutes == [NobodyElse EXCEPT
    !.viewer = {"GET agents", "POST agents/run", "GET leaderboard", "GET authored", "POST committee"},
    !.researcher = {"POST rescore", "POST authored"}]

ContestRoutes == [NobodyElse EXCEPT
    !.viewer = {"GET findings", "GET digest", "GET contests", "GET standings"},
    !.researcher = {"POST sweep", "POST acknowledge", "POST digest", "POST contests", "POST close",
                    "POST seasons", "POST enroll", "POST tick"}]

WatchRoutes == [NobodyElse EXCEPT
    !.viewer = {"GET watches", "POST watches/check", "GET openalgo"},
    !.approver = {"DELETE watches", "POST emergency"}]

IntentRoutes == [NobodyElse EXCEPT
    !.viewer = {"GET intents"},
    !.researcher = {"POST intents", "POST direct-order", "POST submit"},
    !.approver = {"GET pending", "POST decision"}]

PortfolioRoutes == [NobodyElse EXCEPT
    !.viewer = {"GET portfolios"},
    !.researcher = {"POST reconcile", "POST cancel", "POST portfolios", "POST risk-check", "POST release"},
    !.approver = {"POST fills", "POST trading-control"}]

KnowledgeRoutes == [NobodyElse EXCEPT
    !.viewer = {"GET documents", "POST search"},
    !.researcher = {"POST documents"}]

DatasetRoutes == [NobodyElse EXCEPT
    !.viewer = {"GET data/health", "GET backfill/status", "GET datasets"},
    !.researcher = {"POST backfill/run", "POST ohlcv"}]

ImportRoutes == [NobodyElse EXCEPT
    !.viewer = {"GET freshness", "GET strategies"},
    !.researcher = {"POST openalgo-history", "POST features", "POST derive-features"}]

NewsRoutes == [NobodyElse EXCEPT
    !.viewer = {"GET fundamentals", "GET market-news"},
    !.researcher = {"POST statements", "POST market-news/fetch", "POST backtests"}]

BackupRoutes == [NobodyElse EXCEPT
    !.viewer = {"GET operations/summary"},
    !.approver = {"GET backups", "POST backups", "GET verify", "GET retention", "POST preview",
                  "GET alerts", "POST evaluate", "POST acknowledge-alert"},
    !.admin = {"POST execute", "POST storage-plan", "POST storage-export"}]

OperationsRoutes == [NobodyElse EXCEPT
    !.viewer = {"GET settings", "GET tools", "GET tasks"},
    !.approver = {"GET metrics", "GET jobs", "POST jobs/run", "POST tasks/run-due"}]

DashboardRoutes == [NobodyElse EXCEPT
    !.viewer = {"GET dashboard", "PUT preferences", "GET status", "GET readiness", "GET research/context"}]

BriefRoutes == [NobodyElse EXCEPT
    !.viewer = {"GET briefs", "GET monitor", "GET instruments"},
    !.researcher = {"POST briefs", "POST backtest/run"}]

SpecRoutes == [NobodyElse EXCEPT
    !.viewer = {"GET evaluations", "GET specs"},
    !.researcher = {"POST specs", "POST specs/compile", "PUT specs", "DELETE specs", "POST specs/validate"},
    !.approver = {"POST evaluations/run", "POST retrieval/run"}]

RunRoutes == [NobodyElse EXCEPT
    !.viewer = {"GET trades.csv", "GET screens", "GET screens/run", "GET runs", "POST runs/compare"},
    !.researcher = {"POST specs/backtest", "POST screens", "POST robustness", "POST robustness/submit"}]

ReportRoutes == [NobodyElse EXCEPT
    !.viewer = {"GET robustness", "GET run", "GET timeline", "GET reports"},
    !.researcher = {"POST robustness/reports", "POST reports"}]

Endpoints == {AgentRoutes, ContestRoutes, WatchRoutes, IntentRoutes, PortfolioRoutes, KnowledgeRoutes,
              DatasetRoutes, ImportRoutes, NewsRoutes, BackupRoutes, OperationsRoutes, DashboardRoutes,
              BriefRoutes, SpecRoutes, RunRoutes, ReportRoutes}

RoutesUpTo(role) == UNION {UNION {group[r] : r \in {x \in Roles : AtLeast(role, x)}} : group \in Endpoints}
AllRoutes == RoutesUpTo("admin")

(***************************************************************************)
(* What operations change, by whichever door.                              *)
(***************************************************************************)
Changes == [
    approval    |-> {"approve_pending_order", "POST decision"},
    risk        |-> {"POST trading-control", "POST fills"},
    allOrders   |-> {"square_off_all", "cancel_all_orders", "POST emergency"},
    purge       |-> {"POST execute", "POST storage-plan", "POST storage-export"},
    operations  |-> {"POST backups", "GET verify", "POST preview", "POST evaluate", "POST acknowledge-alert",
                     "POST jobs/run", "POST tasks/run-due", "POST evaluations/run", "POST retrieval/run"},
    intents     |-> {"prepare_direct_order", "prepare_sandbox_order_intent", "prepare_live_order_intent",
                     "reconcile_sandbox_intent", "POST intents", "POST direct-order", "POST submit",
                     "POST reconcile", "POST cancel"},
    portfolios  |-> {"POST portfolios", "POST risk-check", "POST release"},
    datasets    |-> {"import_openalgo_history", "POST backfill/run", "POST ohlcv", "POST openalgo-history",
                     "POST features", "POST derive-features", "POST statements"},
    specs       |-> {"create_custom_strategy_spec", "update_custom_strategy_spec", "POST specs",
                     "POST specs/compile", "PUT specs", "DELETE specs"},
    runs        |-> {"run_backtest", "run_custom_strategy_spec", "run_robustness_experiment", "POST backtests",
                     "POST backtest/run", "POST specs/backtest", "POST robustness", "POST robustness/submit"},
    reports     |-> {"create_run_report", "create_research_brief", "POST reports", "POST robustness/reports",
                     "POST briefs"},
    contests    |-> {"POST contests", "POST close", "POST seasons", "POST enroll", "POST tick", "POST rescore",
                     "POST sweep", "POST acknowledge", "POST digest", "POST authored"},
    lists       |-> {"add_watchlist_symbol", "remove_watchlist_symbol", "create_price_alert", "POST screens"},
    news        |-> {"get_market_news", "POST market-news/fetch"},
    knowledge   |-> {"fetch_web_document", "find_and_analyze_document", "deep_research_report", "POST documents"},
    watches     |-> {"create_watch", "remove_watch", "check_watches", "POST watches/check", "DELETE watches"},
    notes       |-> {"remember", "PUT preferences", "assess_dataset_freshness", "search_knowledge",
                     "get_openalgo_snapshot", "run_screen", "POST agents/run", "POST committee"}]

ChangedBy(name) == {e \in DOMAIN Changes : name \in Changes[e]}

(***************************************************************************)
(* Sessions.                                                               *)
(***************************************************************************)
NoSession == [user |-> NoUser, expired |-> FALSE, revoked |-> FALSE]
Doors == {"none", "route", "mcp", "chat", "stdio"}

NoRequest == [pc |-> "free", door |-> "none", name |-> "none", token |-> NoToken,
              role |-> "viewer", outcome |-> "none"]

AccessTypeOK ==
    /\ authSessions \in [AuthTokens -> [user : Users \cup {NoUser}, expired : BOOLEAN, revoked : BOOLEAN]]
    /\ request \in [pc : {"free", "authenticate", "handle", "done"}, door : Doors,
                    name : AllTools \cup AllRoutes \cup {"none"}, token : AuthTokens \cup {NoToken},
                    role : Roles, outcome : {"none", "done", "refused"}]
    /\ loggedOut \subseteq AuthTokens

AccessInit ==
    /\ authSessions = [t \in AuthTokens |-> NoSession]
    /\ request = NoRequest
    /\ loggedOut = {}

\* A new token; the password was checked in an earlier block, which matters to
\* nothing since accounts are never changed.
Login(user, t) ==
    /\ authSessions[t] = NoSession /\ t \notin loggedOut
    /\ authSessions' = [authSessions EXCEPT ![t].user = user]
    /\ UNCHANGED <<request, loggedOut>>

SessionExpires(t) ==
    /\ authSessions[t].user # NoUser
    /\ authSessions' = [authSessions EXCEPT ![t].expired = TRUE]
    /\ UNCHANGED <<request, loggedOut>>

\* The signature alone would do.
MutHonoured(t) == ~authSessions[t].expired

\* The endpoint authenticates as well, so only a live session logs out.
Honoured(t) ==
    /\ authSessions[t].user # NoUser
    /\ ~authSessions[t].revoked
    /\ ~authSessions[t].expired

Logout(t) ==
    /\ Honoured(t)
    /\ authSessions' = [authSessions EXCEPT ![t].revoked = TRUE]
    /\ loggedOut' = loggedOut \cup {t}
    /\ UNCHANGED request

(***************************************************************************)
(* A request: the role of its caller, then the gate of its door.           *)
(***************************************************************************)
Arrive(door, name, t) ==
    /\ request.pc = "free"
    /\ door = "route" => name \in AllRoutes
    /\ door \in {"mcp", "chat", "stdio"} => name \in AllTools
    /\ request' = [NoRequest EXCEPT !.pc = "authenticate", !.door = door, !.name = name, !.token = t]
    /\ UNCHANGED <<authSessions, loggedOut>>

Finish(outcome) == request' = [request EXCEPT !.pc = "done", !.outcome = outcome]
Handles(role) == request' = [request EXCEPT !.pc = "handle", !.role = role]

\* The stdio server hands out the registry as it was built.
MutAuthenticate ==
    /\ request.pc = "authenticate"
    /\ IF request.door = "stdio" \/ ~AuthRequired THEN Handles("admin")
       ELSE IF request.token # NoToken /\ Honoured(request.token)
            THEN Handles(UserRole[authSessions[request.token].user])
            ELSE Finish("refused")
    /\ UNCHANGED <<authSessions, loggedOut>>

\* current_principal.  The stdio server has no caller: it is a researcher.
Authenticate ==
    /\ request.pc = "authenticate"
    /\ CASE request.door = "stdio" -> Handles("researcher")
         [] request.door # "stdio" /\ ~AuthRequired -> Handles("admin")
         [] OTHER -> IF request.token # NoToken /\ Honoured(request.token)
                     THEN LET user == authSessions[request.token].user
                          IN user # NoUser /\ Handles(UserRole[user])
                     ELSE Finish("refused")
    /\ UNCHANGED <<authSessions, loggedOut>>

MutPermitted(door, name, role) ==
    IF door = "route" THEN name \in RoutesUpTo(role)
    ELSE door = "mcp" \/ name \in ToolsUpTo(role)

\* require_role for an endpoint; allowed_for_role for a tool, behind the viewer
\* that /chat and /mcp/call ask for.
Permitted(door, name, role) ==
    IF door = "route" THEN name \in RoutesUpTo(role) ELSE name \in ToolsUpTo(role)

Handle ==
    /\ request.pc = "handle"
    /\ Finish(IF Permitted(request.door, request.name, request.role) THEN "done" ELSE "refused")
    /\ UNCHANGED <<authSessions, loggedOut>>

\* One request follows another.
Respond ==
    /\ request.pc = "done"
    /\ request' = NoRequest
    /\ UNCHANGED <<authSessions, loggedOut>>

SessionStep ==
    \/ \E user \in Users, t \in AuthTokens : Login(user, t)
    \/ \E t \in AuthTokens : SessionExpires(t) \/ Logout(t)

RequestStep ==
    \/ \E t \in AuthTokens \cup {NoToken} :
          \/ \E name \in AllRoutes : Arrive("route", name, t)
          \/ \E name \in AllTools, door \in {"mcp", "chat", "stdio"} : Arrive(door, name, t)
    \/ Authenticate \/ Handle \/ Respond

AccessNext == SessionStep \/ RequestStep

AccessSpec == AccessInit /\ [][AccessNext]_accessVars

(***************************************************************************)
(* Properties                                                              *)
(***************************************************************************)
\* What an effect takes, at every door: approvals, fills, the kill switch and the
\* emergency actions an approver; purges an admin; whatever else outlives the
\* request a researcher, but for knowledge, watches and notes.
Takes(effect) ==
    CASE effect = "purge" -> "admin"
      [] effect \in {"approval", "risk", "allOrders", "operations"} -> "approver"
      [] effect \in {"knowledge", "watches", "notes"} -> "viewer"
      [] OTHER -> "researcher"

\* No door is weaker than the others: what an operation changes was the caller's to
\* change, whether it came by an endpoint, the chat, MCP over HTTP or over stdio;
\* and, where sign-in is required, over HTTP only for a token that had a session.
EveryDoorAsksTheSame ==
    request.outcome = "done" =>
        /\ \A e \in ChangedBy(request.name) : AtLeast(request.role, Takes(e))
        /\ AuthRequired /\ request.door # "stdio" => request.token # NoToken

\* The stdio server reaches no approval, no emergency action and nothing of the
\* operators (mcp_server.py:16).
StdioStaysBelowApproval ==
    request.door = "stdio" /\ request.outcome = "done" =>
        ChangedBy(request.name) \cap {"approval", "risk", "allOrders", "purge", "operations"} = {}

\* Whoever comes in by whichever door changes what is theirs to change.
AccessIsGuarded == AccessTypeOK /\ EveryDoorAsksTheSame /\ StdioStaysBelowApproval

\* A token that was logged out, or has expired, opens nothing from then on: once
\* its row is dead no request that still has to authenticate gets through.
DeadTokensStayDead ==
    [][(request.pc = "authenticate" /\ request'.pc = "handle" /\ request.door # "stdio" /\ AuthRequired)
          => request.token \notin loggedOut /\ ~authSessions[request.token].expired]_accessVars

\* The roles are "enforced end to end" (docs/LOCAL_DEVELOPMENT.md:54): the same
\* change asks for the same role at the endpoint and in the chat.
DoorsAgreeOnWatches ==
    request.outcome = "done" /\ request.name \in {"remove_watch", "DELETE watches"} =>
        AtLeast(request.role, "approver")
=============================================================================
