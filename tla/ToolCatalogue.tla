--------------------------- MODULE ToolCatalogue ---------------------------
(***************************************************************************)
(* The tools of tools/registry.py and tools/catalog/: each with the role   *)
(* it asks for, and what it says of its side effects.                      *)
(***************************************************************************)

EXTENDS Naturals

Ranks == [viewer |-> 0, researcher |-> 1, approver |-> 2, admin |-> 3]
Roles == DOMAIN Ranks
AtLeast(role, minimum) == Ranks[role] >= Ranks[minimum]

(***************************************************************************)
(* Tools, by required_role; one that names none is a viewer's.             *)
(***************************************************************************)
NobodyElse == [r \in Roles |-> {}]

BrokerTools == [NobodyElse EXCEPT
    !.approver = {"square_off_all", "cancel_all_orders"},
    !.researcher = {"prepare_direct_order"}]

QuoteTools == [NobodyElse EXCEPT
    !.viewer = {"mark_portfolio_to_market", "run_technical_screen", "get_option_chain", "get_openalgo_snapshot"}]

OrderTools == [NobodyElse EXCEPT
    !.researcher = {"prepare_sandbox_order_intent", "prepare_live_order_intent", "reconcile_sandbox_intent"},
    !.approver = {"approve_pending_order", "list_pending_approvals"}]

DataTools == [NobodyElse EXCEPT
    !.viewer = {"list_datasets", "get_dataset_detail", "assess_dataset_freshness", "get_data_health"},
    !.researcher = {"import_openalgo_history"}]

KnowledgeTools == [NobodyElse EXCEPT
    !.viewer = {"list_knowledge_documents", "search_knowledge", "find_and_analyze_document",
                "analyze_knowledge_document"},
    !.researcher = {"fetch_web_document"}]

MarketTools == [NobodyElse EXCEPT
    !.viewer = {"list_watchlist", "list_price_alerts"},
    !.researcher = {"add_watchlist_symbol", "remove_watchlist_symbol", "create_price_alert"}]

InstrumentTools == [NobodyElse EXCEPT
    !.viewer = {"run_screen", "search_instruments", "validate_instrument_symbol", "get_market_quote",
                "resolve_option_symbol"},
    !.researcher = {"get_market_news"}]

WatchTools == [NobodyElse EXCEPT
    !.viewer = {"get_platform_summary", "create_watch", "list_watches", "remove_watch", "check_watches",
                "check_platform_readiness"}]

PlatformTools == [NobodyElse EXCEPT
    !.viewer = {"get_execution_readiness", "get_openalgo_monitor", "list_sandbox_intents",
                "list_strategy_personas", "get_strategy_persona", "list_portfolios", "get_portfolio_snapshot"}]

ResearchTools == [NobodyElse EXCEPT
    !.viewer = {"analyze_fundamentals", "deep_research", "deep_research_report", "compare_investments"}]

MemoryTools == [NobodyElse EXCEPT
    !.viewer = {"analyse_portfolio", "remember", "recall_memory", "get_research_context"},
    !.researcher = {"create_research_brief"}]

StrategyTools == [NobodyElse EXCEPT
    !.viewer = {"run_strategy_optimization", "validate_strategy_walk_forward", "list_strategies",
                "get_custom_strategy_capabilities"}]

SpecTools == [NobodyElse EXCEPT
    !.viewer = {"compile_custom_strategy_spec", "list_custom_strategy_specs"},
    !.researcher = {"create_custom_strategy_spec", "update_custom_strategy_spec"}]

BacktestTools == [NobodyElse EXCEPT
    !.viewer = {"get_backtest_result", "get_performance", "get_risk_decisions", "get_order_timeline",
                "get_run_timeline"},
    !.researcher = {"run_custom_strategy_spec", "run_backtest"}]

RunTools == [NobodyElse EXCEPT
    !.viewer = {"compare_runs", "list_reports", "get_robustness_experiment", "list_robustness_experiments"},
    !.researcher = {"create_run_report", "run_robustness_experiment"}]

Catalogue == {BrokerTools, QuoteTools, OrderTools, DataTools, KnowledgeTools, MarketTools, InstrumentTools,
              WatchTools, PlatformTools, ResearchTools, MemoryTools, StrategyTools, SpecTools,
              BacktestTools, RunTools}

\* allowed_for_role.
ToolsUpTo(role) == UNION {UNION {group[r] : r \in {x \in Roles : AtLeast(role, x)}} : group \in Catalogue}
AllTools == ToolsUpTo("admin")

\* is_read_only: what the text of side_effects says of itself.
CallsItselfReadOnly == AllTools \
    {"square_off_all", "cancel_all_orders", "prepare_direct_order", "prepare_sandbox_order_intent",
     "prepare_live_order_intent", "approve_pending_order", "reconcile_sandbox_intent",
     "assess_dataset_freshness", "import_openalgo_history", "search_knowledge", "fetch_web_document",
     "find_and_analyze_document", "add_watchlist_symbol", "remove_watchlist_symbol", "create_price_alert",
     "get_market_news", "create_watch", "remove_watch", "check_watches", "remember",
     "create_research_brief", "run_strategy_optimization", "validate_strategy_walk_forward",
     "create_custom_strategy_spec", "update_custom_strategy_spec", "run_custom_strategy_spec",
     "run_backtest", "create_run_report", "run_robustness_experiment"}
=============================================================================
