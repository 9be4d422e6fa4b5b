-------------------------- MODULE IntentRouting --------------------------
(***************************************************************************)
(* How a chat message finds its tool: orchestration/core.py.  The offline  *)
(* orchestrator is a cascade of rules, first match wins; the Groq one asks *)
(* it first and a language model only when the rules settle nothing; the   *)
(* OpenAI one asks its model at once.  A message is the set of its cues    *)
(* (the patterns of orchestration/text.py and of the rules it matches) and *)
(* of the facts found in it: records, symbols, conditions it names.        *)
(***************************************************************************)
EXTENDS Naturals, Sequences, FiniteSets, FiniteSetsExt

CONSTANTS
    RouterRoles,
    ToolsFor,           \* role -> the registry's subset for it
    ReadOnly,           \* tools that say they change nothing
    Provider,           \* "offline", "groq" or "openai"
    HasFallbackModel

\* What a rule that does not look at the registry calls is a viewer's, and the
\* compound answers only read.
ASSUME RoutingAssumption ==
    /\ RouterRoles # {} /\ Provider \in {"offline", "groq", "openai"} /\ HasFallbackModel \in BOOLEAN
    /\ \A r \in RouterRoles :
          {"assess_dataset_freshness", "search_knowledge", "get_risk_decisions", "get_order_timeline",
           "get_performance", "get_backtest_result", "list_strategies", "get_dataset_detail",
           "list_datasets"} \subseteq ToolsFor[r]
    /\ {"list_datasets", "list_strategies", "get_market_quote"} \subseteq ReadOnly

VARIABLES
    ask,                \* the message under way: cues, facts, role
    route,              \* where its routing stands and what was decided
    primaryRateLimited  \* _primary_rate_limited

routeVars == <<ask, route, primaryRateLimited>>

(***************************************************************************)
(* Rules.  A rule fires on its cue unless a vetoing cue stands beside it,  *)
(* if the message has the facts it needs, none of those it lacks, and the  *)
(* role's registry the tools of its gate.  It invokes tools or replies: a  *)
(* final reply is authoritative, a draft may be replaced by a model's.     *)
(***************************************************************************)
Rule(cue, gate, tools, reply) ==
    [cue |-> cue, unless |-> {}, needs |-> {}, lacks |-> {}, gate |-> gate, tools |-> tools, reply |-> reply]

Acts(cue, tool) == Rule(cue, {tool}, <<tool>>, "none")
Reads(cue, tool) == Rule(cue, {}, <<tool>>, "none")     \* without a look at the registry
Says(cue, reply) == Rule(cue, {}, <<>>, reply)
Asks(cue, tool) == Rule(cue, {tool}, <<>>, "draft")     \* for what the tool would need

Unless(rule, cues) == [rule EXCEPT !.unless = cues]
Needs(rule, facts) == [rule EXCEPT !.needs = facts]
Lacks(rule, facts) == [rule EXCEPT !.lacks = facts]

OpeningRules == <<
    Says("greeting", "final"),
    Says("bypass safety", "final"),
    Says("off topic", "final"),
    Says("open advice", "final"),
    Lacks(Unless(Says("concepts compared", "draft"), {"my"}), {"ticker"}),
    Needs(Unless(Acts("which is stronger", "compare_investments"), {"strategy words"}), {"two symbols"})>>

OrderRules == <<
    Acts("approve order", "approve_pending_order"),
    Acts("square off", "square_off_all"),
    Acts("cancel orders", "cancel_all_orders"),
    Acts("help", "get_platform_summary"),
    Says("help", "draft"),
    Rule("datasets and strategies", {"list_datasets", "list_strategies"}, <<"list_datasets", "list_strategies">>, "none"),
    Acts("platform summary", "get_platform_summary"),
    Acts("openalgo status", "get_openalgo_monitor"),
    Acts("paper trade workflow", "get_execution_readiness")>>

StrategyRules == <<
    Needs(Acts("walk forward", "validate_strategy_walk_forward"), {"symbol"}),
    Needs(Acts("find a strategy", "run_strategy_optimization"), {"symbol"}),
    Acts("create a strategy", "compile_custom_strategy_spec"),
    Acts("recall", "recall_memory"),
    Needs(Acts("remember", "remember"), {"note"}),
    Acts("history import", "import_openalgo_history")>>

AccountRules == <<
    Acts("several books", "get_openalgo_monitor"),
    Unless(Acts("one book", "get_openalgo_snapshot"), {"sandbox intent"}),
    Acts("search instrument", "search_instruments"),
    Acts("validate symbol", "validate_instrument_symbol"),
    Acts("market status", "get_market_quote"),
    Acts("price", "get_market_quote"),
    Acts("outlook", "get_market_news"),
    Unless(Acts("news", "get_market_news"), {"create a strategy"})>>

PersonaRules == <<
    Needs(Unless(Rule("persona", {"list_strategy_personas", "get_strategy_persona"}, <<"get_strategy_persona">>, "none"),
                 {"custom strategy"}), {"persona named"}),
    Unless(Acts("persona", "list_strategy_personas"), {"custom strategy"}),
    Needs(Unless(Rule("trading style", {"list_strategy_personas", "get_strategy_persona"}, <<"get_strategy_persona">>, "none"),
                 {"custom strategy", "what is"}), {"persona named"}),
    Unless(Acts("trading style", "list_strategy_personas"), {"custom strategy", "what is"}),
    Needs(Acts("mark to market", "mark_portfolio_to_market"), {"portfolio"}),
    Asks("mark to market", "mark_portfolio_to_market")>>

WatchRules == <<
    Acts("add to watchlist", "add_watchlist_symbol"),
    Acts("remove from watchlist", "remove_watchlist_symbol"),
    Acts("show watchlist", "list_watchlist"),
    Unless(Acts("check watches", "check_watches"), {"watchlist"}),
    Unless(Acts("list watches", "list_watches"), {"watchlist"}),
    Acts("stop watching", "remove_watch"),
    Needs(Unless(Acts("watch for", "create_watch"), {"watchlist"}), {"condition", "symbol"}),
    Needs(Acts("technical screen", "run_technical_screen"), {"screen terms"}),
    Needs(Acts("alert", "create_price_alert"), {"price level"}),
    Acts("list alerts", "list_price_alerts"),
    Acts("option chain", "get_option_chain")>>

DocumentRules == <<
    Needs(Acts("fetch", "fetch_web_document"), {"url"}),
    Needs(Unless(Acts("analyse a document", "find_and_analyze_document"), {"create a strategy", "fundamentals"}),
          {"subject"}),
    Unless(Asks("analyse a document", "find_and_analyze_document"), {"create a strategy", "fundamentals"}),
    Acts("run a screen", "run_screen"),
    Needs(Acts("analyse fundamentals", "analyze_fundamentals"), {"symbol"}),
    Asks("analyse fundamentals", "analyze_fundamentals")>>

ResearchRules == <<
    Needs(Unless(Acts("deep dive", "deep_research_report"), {"fundamentals", "brief", "create a strategy"}), {"symbol"}),
    Needs(Unless(Acts("research", "deep_research"),
                 {"fundamentals", "document", "brief", "research context", "create a strategy"}), {"symbol"}),
    Unless(Acts("research context", "get_research_context"), {"news"}),
    Acts("research brief", "create_research_brief"),
    Acts("execution readiness", "get_execution_readiness"),
    Unless(Acts("readiness", "check_platform_readiness"), {"openalgo status"}),
    Acts("openalgo book", "get_openalgo_snapshot")>>

IntentRules == <<
    Acts("pending approvals", "list_pending_approvals"),
    Needs(Acts("direct order", "prepare_direct_order"), {"order terms"}),
    Needs(Acts("sandbox intent", "prepare_sandbox_order_intent"), {"risk decision"}),
    Asks("sandbox intent", "prepare_sandbox_order_intent"),
    Acts("list intents", "list_sandbox_intents"),
    Needs(Acts("reconcile", "reconcile_sandbox_intent"), {"intent"}),
    Lacks(Needs(Reads("freshness", "assess_dataset_freshness"), {"dataset"}), {"intent"}),
    Lacks(Says("freshness", "draft"), {"intent"}),
    Reads("documentation", "search_knowledge"),
    Needs(Reads("risk", "get_risk_decisions"), {"run"}),
    Lacks(Says("risk decision", "draft"), {"run"})>>

RunRules == <<
    Needs(Acts("compare runs", "compare_runs"), {"two runs"}),
    Needs(Acts("report", "create_run_report"), {"run"}),
    Needs(Acts("timeline", "get_run_timeline"), {"run"}),
    Needs(Acts("robustness", "get_robustness_experiment"), {"experiment"}),
    Acts("list robustness", "list_robustness_experiments"),
    Needs(Acts("live value", "mark_portfolio_to_market"), {"portfolio"}),
    Needs(Acts("portfolio", "get_portfolio_snapshot"), {"portfolio"}),
    Lacks(Says("portfolio exposure", "draft"), {"portfolio"}),
    Acts("list portfolios", "list_portfolios")>>

LiveRules == <<
    Needs(Acts("prepare live order", "prepare_live_order_intent"), {"risk decision"}),
    Asks("prepare live order", "prepare_live_order_intent"),
    Says("place live order", "final"),
    Needs(Reads("orders", "get_order_timeline"), {"run"}),
    Lacks(Says("order history", "draft"), {"run"}),
    Needs(Unless(Reads("performance", "get_performance"), {"my"}), {"run"}),
    Lacks(Unless(Says("performance", "draft"), {"my"}), {"run"})>>

BacktestRules == <<
    Acts("list specs", "list_custom_strategy_specs"),
    Needs(Acts("run spec", "run_custom_strategy_spec"), {"spec", "dataset"}),
    Needs(Asks("run spec", "run_custom_strategy_spec"), {"spec"}),
    Unless(Acts("capabilities", "get_custom_strategy_capabilities"), {"create a strategy", "backtest"}),
    Needs(Reads("run id", "get_backtest_result"), {"run"}),
    Unless(Acts("backtest", "run_backtest"), {"my strategy"}),
    Asks("backtest", "run_backtest"),
    Reads("strategies", "list_strategies"),
    Needs(Reads("dataset id", "get_dataset_detail"), {"dataset"}),
    Reads("datasets", "list_datasets")>>

ClosingRules == <<
    Says("thanks", "final"),
    Needs(Unless(Says("what is", "final"), {"my", "ratios"}), {"known concept"}),
    Unless(Says("what is", "draft"), {"my", "ratios"}),
    Needs(Unless(Acts("ratios", "get_market_quote"), {"document"}), {"symbol"}),
    Unless(Acts("ratios", "get_market_news"), {"document"}),
    Acts("movers", "get_market_news"),
    Acts("sector", "get_market_news"),
    Acts("my positions", "get_openalgo_snapshot"),
    Rule("one against another", {"get_market_quote"}, <<"get_market_quote", "get_market_quote">>, "none")>>

\* The same rules with the refusal below the orders.
MutRules == OrderRules \o OpeningRules \o StrategyRules \o AccountRules \o PersonaRules \o WatchRules
         \o DocumentRules \o ResearchRules \o IntentRules \o RunRules \o LiveRules \o BacktestRules \o ClosingRules

Rules == OpeningRules \o OrderRules \o StrategyRules \o AccountRules \o PersonaRules \o WatchRules
         \o DocumentRules \o ResearchRules \o IntentRules \o RunRules \o LiveRules \o BacktestRules \o ClosingRules

Cues == {Rules[i].cue : i \in DOMAIN Rules} \cup UNION {Rules[i].unless : i \in DOMAIN Rules}
Facts == UNION {Rules[i].needs \cup Rules[i].lacks : i \in DOMAIN Rules}

\* A message has at most two cues, and the facts one rule is about, all or none.
CuePairs == {{}} \cup {{a, b} : a, b \in Cues}
FactSets == {{}, Facts} \cup {Rules[i].needs : i \in DOMAIN Rules}
Asked == [cues : CuePairs, facts : FactSets, role : RouterRoles]

(***************************************************************************)
(* OfflineOrchestrator.select_tool.                                        *)
(***************************************************************************)
MutFires(rule, q) ==
    /\ rule.cue \in q.cues /\ rule.unless \cap q.cues = {}
    /\ rule.needs \subseteq q.facts /\ rule.lacks \cap q.facts = {}

Fires(rule, q) ==
    /\ rule.cue \in q.cues /\ rule.unless \cap q.cues = {}
    /\ rule.needs \subseteq q.facts /\ rule.lacks \cap q.facts = {}
    /\ rule.gate \subseteq ToolsFor[q.role]

Decision(tools, reply) == [tools |-> tools, reply |-> reply]
ClosestAction == Decision(<<>>, "draft")

SelectByRules(q) ==
    LET firing == {i \in DOMAIN Rules : Fires(Rules[i], q)}
    IN IF firing = {} THEN ClosestAction
       ELSE LET first == Rules[Min(firing)] IN Decision(first.tools, first.reply)

MutSettled(d) == d.tools # <<>>
Settled(d) == d.tools # <<>> \/ d.reply = "final"

(***************************************************************************)
(* One message at a time through the orchestrator of build_orchestrator.   *)
(***************************************************************************)
RoutePcs == {"free", "rules", "model", "fallback", "done"}
NoAsk == [cues |-> {}, facts |-> {}, role |-> CHOOSE r \in RouterRoles : TRUE]
NoRoute == [pc |-> "free", decision |-> ClosestAction, by |-> "none"]

RouteTypeOK ==
    /\ ask.role \in RouterRoles /\ ask.cues \subseteq Cues /\ ask.facts \subseteq Facts
    /\ route.pc \in RoutePcs /\ route.by \in {"none", "rules", "model", "fallback", "raised"}
    /\ route.decision.reply \in {"none", "final", "draft", "model"}
    /\ primaryRateLimited \in BOOLEAN

RouteInit ==
    /\ ask = NoAsk /\ route = NoRoute
    /\ primaryRateLimited = FALSE

Say(q) ==
    /\ ask' = q
    /\ route' = [NoRoute EXCEPT !.pc = IF Provider = "openai" THEN "model" ELSE "rules"]
    /\ UNCHANGED primaryRateLimited

Decide(d, by) == route' = [pc |-> "done", decision |-> d, by |-> by]

\* Offline the rules have the last word, with Groq if they settle the message.
RunRulesFirst ==
    /\ route.pc = "rules"
    /\ LET d == SelectByRules(ask)
       IN IF Provider = "offline" \/ Settled(d) THEN Decide(d, "rules")
          ELSE route' = [route EXCEPT !.pc = IF primaryRateLimited THEN "fallback" ELSE "model", !.decision = d]
    /\ UNCHANGED <<ask, primaryRateLimited>>

\* The model may name any tools, registered or not; the tests of ChatTurn follow.
ModelAnswers(tools) ==
    /\ route.pc = "model"
    /\ Decide(Decision(tools, IF tools = <<>> THEN "model" ELSE "none"), "model")
    /\ UNCHANGED <<ask, primaryRateLimited>>

ModelRateLimited ==
    /\ route.pc = "model"
    /\ CASE Provider = "groq" /\ HasFallbackModel -> /\ primaryRateLimited' = TRUE
                                                     /\ route' = [route EXCEPT !.pc = "fallback"]
         [] Provider = "groq" /\ ~HasFallbackModel -> /\ Decide(route.decision, "rules")
                                                      /\ UNCHANGED primaryRateLimited
         [] OTHER -> Decide(ClosestAction, "raised") /\ UNCHANGED primaryRateLimited
    /\ UNCHANGED ask

\* A routing failure: a broken call to a tool, or the model is out of reach.
ModelFails ==
    /\ route.pc = "model"
    /\ IF Provider = "groq" THEN Decide(route.decision, "rules") ELSE Decide(ClosestAction, "raised")
    /\ UNCHANGED <<ask, primaryRateLimited>>

\* Any other exception reaches the endpoint.
ModelRaises ==
    /\ route.pc = "model"
    /\ Decide(ClosestAction, "raised")
    /\ UNCHANGED <<ask, primaryRateLimited>>

\* _fallback_plain_decision offers no tools; without an answer the rules' draft stands.
FallbackAnswers ==
    /\ route.pc = "fallback"
    /\ \/ Decide(Decision(<<>>, "model"), "fallback")
       \/ Decide(route.decision, "rules")
    /\ UNCHANGED <<ask, primaryRateLimited>>

NextMessage ==
    /\ route.pc = "done"
    /\ ask' = NoAsk /\ route' = NoRoute
    /\ UNCHANGED primaryRateLimited

\* What a model may select, for the tests that follow: nothing, one tool, or two.
ModelSelections == {<<>>, <<"square_off_all">>, <<"get_market_quote", "invented">>}

RouteNext ==
    \/ route.pc = "free" /\ \E q \in Asked : Say(q)
    \/ RunRulesFirst
    \/ \E tools \in ModelSelections : ModelAnswers(tools)
    \/ ModelRateLimited \/ ModelFails \/ ModelRaises \/ FallbackAnswers \/ NextMessage

RouteSpec == RouteInit /\ [][RouteNext]_routeVars

(***************************************************************************)
(* Properties                                                              *)
(***************************************************************************)
\* A message that asks to skip a safety step, or to act on one it declines to, ends
\* at the platform's own refusal: no tool, and no model that could answer instead,
\* whatever else the message asks for.
BypassReachesNothing ==
    ask.cues \cap {"bypass safety", "off topic", "open advice"} # {} /\ route.pc = "done" /\ Provider # "openai" =>
        route.by = "rules" /\ route.decision.tools = <<>> /\ route.decision.reply = "final"

\* The rules that do not look at the registry and the compound answers agree with the
\* catalogue: what the rules select is the role's to call, and passes the chat's
\* tests on compound requests.
RulesSelectWithinRole ==
    route.pc = "done" /\ route.by = "rules" =>
        LET tools == route.decision.tools
        IN /\ \A i \in DOMAIN tools : tools[i] \in ToolsFor[ask.role]
           /\ Len(tools) > 1 => Len(tools) <= 4 /\ \A i \in DOMAIN tools : tools[i] \in ReadOnly

\* The rules answer what only they may, and only with what the role may use.
RoutingIsSafe == RouteTypeOK /\ BypassReachesNothing /\ RulesSelectWithinRole
=============================================================================
