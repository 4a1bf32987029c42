--------------------------- MODULE CandidateGates ---------------------------
(***************************************************************************)
(* What scripts/research_higher_timeframe.py makes of the configurations it *)
(* backtests: the gates a row must pass, walk forward, costs and baselines, *)
(* and the summaries, which count the rows again by tests of their own.    *)
(* What a backtest measures is a choice; returns are kept as the number of *)
(* cost scenarios they survive, drawdowns in steps of the three limits.    *)
(***************************************************************************)
EXTENDS Integers, Sequences, FiniteSets, FiniteSetsExt

CONSTANTS
    Outcomes,           \* what a backtest may measure
    FoundSources,       \* the sources research ends with
    MinTrades,          \* MIN_RESEARCH_TRADES
    MinTradesPerFold,   \* MIN_RESEARCH_TRADES_PER_SPLIT
    StrictDrawdown, PaperDrawdown, ResearchDrawdown,
    FocusedTrades,      \* what min_focused_trades may be
    MaxResults          \* bound: configurations evaluated

ASSUME GateAssumption ==
    /\ MinTrades \in Nat \ {0} /\ MinTradesPerFold \in Nat \ {0}
    /\ {StrictDrawdown, PaperDrawdown, ResearchDrawdown} \subseteq Nat
    /\ FocusedTrades \subseteq Nat \ {0} /\ MaxResults \in Nat

VARIABLES
    request,    \* what the research was asked for
    sources,    \* where the bars of each timeframe come from
    results,    \* the rows so far
    summary     \* what is said of them

gateVars == <<request, sources, results, summary>>

Scenario == [zero_cost_sanity |-> 1, maker_low_slippage |-> 2,
             maker_current |-> 3, current_taker |-> 4]
Survives(o, scenario) == o.level >= Scenario[scenario]
Strong(o, scenario) == o.strong >= Scenario[scenario]

NoSummary == [done |-> FALSE, valid |-> FALSE, viable |-> {}, eligible |-> {},
              candidates |-> {}, recommendation |-> "none", terminal |-> "none", blocked |-> {}]

NoRequest == [mode |-> "none", frames |-> {}, v9 |-> FALSE, model |-> FALSE,
              fees |-> "current_taker", focused |-> MinTrades]

GateInit ==
    /\ request = NoRequest
    /\ sources = <<>>
    /\ results = {}
    /\ summary = NoSummary

\* Deviation: the size of the series decides.
V9EnabledBySize(frames, size) == size

\* The last series of configurations is for 1H alone, and of its own size.
V9Enabled(frames, size) == size /\ frames = {"1H"}

\* The sources of all timeframes are found before any row is evaluated.
BeginResearch ==
    /\ request = NoRequest
    /\ \E mode \in {"standard", "reality", "focus"}, frames \in {{"1H"}, {"15Min", "1H"}},
          size, model \in BOOLEAN, fees \in {"current_taker", "maker_current"},
          focused \in FocusedTrades :
        /\ mode # "focus" => ~size /\ focused = MinTrades
        /\ mode = "focus" => fees = "current_taker"
        /\ request' = [mode |-> mode, frames |-> frames, model |-> model, fees |-> fees,
                       v9 |-> mode = "focus" /\ V9Enabled(frames, size), focused |-> focused]
        /\ sources' \in [frames -> FoundSources]
    /\ UNCHANGED <<results, summary>>

\* Dips stand for the strategies below the hour, breakouts for those of any
\* timeframe, expansions for those from the hour on, with the filter that holds
\* and waits.
Configs ==
    IF request.mode = "focus"
    THEN (IF request.v9 THEN {"breakout"} ELSE {"breakout", "expansion"}) \X request.frames
    ELSE ({"breakout"} \X request.frames) \cup ({"dip"} \X (request.frames \ {"1H"}))
         \cup ({"expansion", "risk_off"} \X (request.frames \ {"15Min"}))

(***************************************************************************)
(* One row                                                                 *)
(***************************************************************************)

NothingMeasured == [trades |-> 0, level |-> 0, strong |-> 0, drawdown |-> 0,
                    concentrated |-> FALSE, target |-> 0, hold |-> FALSE, dca |-> FALSE,
                    folds |-> <<>>]

\* Without valid bars nothing is measured; a filter makes no trades.
Measured(config, o) ==
    IF ~sources[config[2]].valid THEN [NothingMeasured EXCEPT !.target = o.target]
    ELSE IF config[1] = "risk_off"
         THEN [o EXCEPT !.trades = 0, !.strong = 0, !.folds = <<>>, !.concentrated = FALSE,
                        !.level = IF o.level > 2 THEN 4 ELSE 0]
         ELSE o

Thick(folds) == {i \in DOMAIN folds : folds[i].trades >= MinTradesPerFold}
FoldCount(folds) == IF folds = <<>> THEN 4 ELSE Len(folds)

WalksForward(folds) ==
    LET enough == Max({2, (Len(folds) + 1) \div 2})
    IN  /\ Len(folds) >= 2
        /\ Cardinality({i \in DOMAIN folds : folds[i].gains}) >= enough
        /\ Cardinality(Thick(folds)) >= enough
        /\ SumFunction([i \in DOMAIN folds |-> folds[i].trades]) >= MinTrades

\* The tests of a gate with their reasons, and the reasons of those that apply.
Where(tests) == {t[1] : t \in {u \in tests : u[2]}}

Unfit(config) ==
    LET source == sources[config[2]]
    IN  { <<"research_data_source_invalid", ~source.valid>>,
          <<"data_source_not_collected_market_data", source.kind # "collected">> }

Baselines(o) ==
    { <<"does_not_beat_buy_and_hold_risk_adjusted", ~o.hold>>,
      <<"does_not_beat_dca_risk_adjusted", ~o.dca>> }

\* target: 0 does not cover the cost of a round trip, 1 only that, 2 what
\* promotion asks for.
ReadinessReasons(config, o) ==
    Where(Unfit(config) \cup
        { <<"net_return_not_positive", ~Survives(o, request.fees)>>,
          <<"profit_factor_net_below_1_05", ~Strong(o, request.fees)>>,
          <<"number_of_trades_below", o.trades < MinTrades>>,
          <<"max_drawdown_above_configured_limit", o.drawdown > StrictDrawdown>>,
          <<"single_trade_return_concentration_too_high", o.concentrated>>,
          <<"take_profit_not_above_round_trip_cost", o.target = 0>>,
          <<"take_profit_below_promotion_required_return", o.target < 2>>,
          <<"walk_forward_not_passed", ~WalksForward(o.folds)>>,
          <<"fallback_prediction_not_allowed", sources[config[2]].kind = "synthetic">> })

RealityReasons(config, o) ==
    Where({ <<"does_not_beat_relevant_baseline_risk_adjusted", ~o.hold /\ ~o.dca>>,
            <<"risk_off_hold_filter_not_trainable_entry_strategy", config[1] = "risk_off">> })

FocusReasons(config, o) ==
    Where(Unfit(config) \cup Baselines(o) \cup
        { <<"synthetic_data_used", sources[config[2]].kind = "synthetic">>,
          <<"timeframe_not_1h_or_valid_4h", config[2] # "1H">>,
          <<"number_of_trades_below", o.trades < request.focused>>,
          <<"folds_with_min_trades_below_3", Cardinality(Thick(o.folds)) < 3>>,
          <<"walk_forward_not_passed", ~WalksForward(o.folds)>>,
          <<"current_taker_net_return_not_positive", ~Survives(o, "current_taker")>>,
          <<"current_taker_profit_factor_below_1_05", ~Strong(o, "current_taker")>>,
          <<"max_drawdown_above_configured_limit", o.drawdown > StrictDrawdown>>,
          <<"single_trade_return_concentration_too_high", o.concentrated>> })

MakerReasons(config, o) ==
    Where(Unfit(config) \cup Baselines(o) \cup
        { <<"synthetic_data_used", sources[config[2]].kind = "synthetic">>,
          <<"timeframe_not_1h", config[2] # "1H">>,
          <<"strategy_not_volatility_breakout", config[1] # "breakout">>,
          <<"number_of_trades_below", o.trades < request.focused>>,
          <<"folds_with_min_trades_not_all_4", Cardinality(Thick(o.folds)) # FoldCount(o.folds)>>,
          <<"walk_forward_not_passed", ~WalksForward(o.folds)>>,
          <<"maker_current_net_return_not_positive", ~Survives(o, "maker_current")>>,
          <<"maker_current_profit_factor_below_1_05", ~Strong(o, "maker_current")>>,
          <<"max_drawdown_above_configured_limit", o.drawdown > StrictDrawdown>> })

\* The looser drawdown of research, and no test of the source's name.
CandidateReasons(config, o) ==
    Where(Baselines(o) \cup
        { <<"research_data_source_invalid", ~sources[config[2]].valid>>,
          <<"synthetic_data_used", sources[config[2]].kind = "synthetic">>,
          <<"timeframe_not_1h", config[2] # "1H">>,
          <<"strategy_not_volatility_breakout", config[1] # "breakout">>,
          <<"number_of_trades_below_20", o.trades < MinTrades>>,
          <<"walk_forward_not_passed", ~WalksForward(o.folds)>>,
          <<"folds_with_min_trades_below_required",
            Cardinality(Thick(o.folds)) # FoldCount(o.folds)>>,
          <<"maker_current_net_return_not_positive", ~Survives(o, "maker_current")>>,
          <<"maker_current_profit_factor_below_1_05", ~Strong(o, "maker_current")>>,
          <<"max_drawdown_above_research_limit", o.drawdown > ResearchDrawdown>> })

\* The flags and the scores of one evaluated configuration.
GatedRow(config, o) ==
    LET ready == ReadinessReasons(config, o)
        viable == CASE request.mode = "standard" -> ready = {}
                    [] request.mode = "reality" -> ready \cup RealityReasons(config, o) = {}
                    [] request.mode = "focus" -> FocusReasons(config, o) = {}
    IN  [config |-> config, o |-> o, viable |-> viable,
         eligible |-> viable /\ request.model,
         maker |-> IF request.mode = "focus" THEN MakerReasons(config, o) ELSE {},
         candidate |-> request.mode = "focus" /\ CandidateReasons(config, o) = {},
         paper |-> /\ request.mode = "focus" /\ CandidateReasons(config, o) = {}
                   /\ o.drawdown <= PaperDrawdown]

EvaluateConfig ==
    /\ request # NoRequest /\ ~summary.done
    /\ Cardinality(results) < MaxResults
    /\ \E config \in Configs, o \in Outcomes :
            results' = results \cup {GatedRow(config, Measured(config, o))}
    /\ UNCHANGED <<request, sources, summary>>

(***************************************************************************)
(* What is said of the rows                                                *)
(***************************************************************************)

TerminalBlockers == {
    "max_drawdown_above_configured_limit", "maker_current_net_return_not_positive",
    "maker_current_profit_factor_below_1_05", "number_of_trades_below_20",
    "walk_forward_not_passed", "folds_with_min_trades_below_required",
    "does_not_beat_buy_and_hold_risk_adjusted", "does_not_beat_dca_risk_adjusted",
    "statistically_weak", "invalid_data_source"}

\* Deviation: only a reason that has the name of a blocker counts.
BlockerFromName(reason) == {reason} \cap TerminalBlockers

BlockerFrom(reason) ==
    CASE reason = "max_drawdown_above_configured_limit" -> {}
      [] reason = "folds_with_min_trades_not_all_4" -> {"folds_with_min_trades_below_required"}
      [] reason \in {"research_data_source_invalid", "data_source_not_collected_market_data",
                     "synthetic_data_used"} -> {"invalid_data_source"}
      [] reason = "number_of_trades_below" -> {"number_of_trades_below_20"}
      [] OTHER -> {reason} \cap TerminalBlockers

\* The tests of CandidateReasons, made a second time and not quite the same.
Blockers(row, valid) ==
    LET source == sources[row.config[2]]
        o == row.o
    IN  (UNION {BlockerFrom(reason) : reason \in row.maker}) \cup
        Where(Baselines(o) \cup
            { <<"max_drawdown_above_configured_limit", o.drawdown > ResearchDrawdown>>,
              <<"maker_current_net_return_not_positive", ~Survives(o, "maker_current")>>,
              <<"maker_current_profit_factor_below_1_05", ~Strong(o, "maker_current")>>,
              <<"number_of_trades_below_20", o.trades < MinTrades>>,
              <<"statistically_weak", o.trades < MinTrades>>,
              <<"walk_forward_not_passed", ~WalksForward(o.folds)>>,
              <<"folds_with_min_trades_below_required",
                Cardinality(Thick(o.folds)) < Min({4, FoldCount(o.folds)})>>,
              <<"invalid_data_source", ~valid \/ source.kind # "collected">> })

ResultValid == \A frame \in request.frames :
                    sources[frame].valid /\ sources[frame].kind # "synthetic"

CountedRows == IF ResultValid THEN results ELSE {}

Enough == {row \in results : row.o.trades >= MinTrades}

\* A family is rejected at 15Min unless a row of it is proven.
FifteenRejected ==
    \E family \in {"dip", "breakout"} : \A row \in results :
        row.config = <<family, "15Min">> =>
            ~(row.viable /\ WalksForward(row.o.folds) /\ (row.o.hold \/ row.o.dca))

StandardAdvice ==
    IF ~ResultValid THEN "collect_more_data"
    ELSE IF \E row \in results : row.eligible THEN "run_paper_forward_research_only"
    ELSE IF \E row \in results : row.viable THEN "candidate_found_keep_trading_disabled"
    ELSE IF /\ \E row \in Enough : row.config[1] = "dip"
            /\ \A row \in results : row.config[1] # "breakout"
         THEN "rejected_strategy"
    ELSE "improve_strategy"

RealityAdvice ==
    LET higher == {row \in results : row.config[2] = "1H" /\ row.config[1] # "dip"}
    IN  IF ~ResultValid THEN "insufficient_data"
        ELSE IF \E row \in higher : row.viable THEN "candidate_found_keep_trading_disabled"
        ELSE IF \E row \in results : Survives(row.o, "maker_current")
             THEN "investigate_execution_model"
        ELSE IF ~FifteenRejected THEN "no_edge_found"
        ELSE IF higher # {} THEN "move_to_higher_timeframe_research"
        ELSE "reject_current_15min_strategies"

\* How far trades went before they were stopped is a choice.
Diagnoses ==
    IF ~ResultValid \/ Enough = {} THEN {"more_data_needed"}
    ELSE IF /\ \E row \in results : Survives(row.o, "zero_cost_sanity")
            /\ \A row \in results : ~Survives(row.o, "current_taker")
         THEN {"cost_drag_only"}
    ELSE {"exit_logic_problem", "entry_quality_problem", "refine_volatility_breakout_more"}

\* Every diagnosis is a recommendation, so none is made from the rows.
FocusAdvice(diagnosis) ==
    IF ResultValid /\ \E row \in results : row.viable
    THEN "candidate_found_keep_trading_disabled"
    ELSE diagnosis

\* All rows of the last series are looked at, be they valid or not.
TerminalState ==
    IF ~request.v9 \/ results = {} THEN "none"
    ELSE IF \E row \in results : row.candidate THEN "found" ELSE "failed"

Say(advice) ==
    summary' = [done |-> TRUE, valid |-> ResultValid,
                viable |-> {row \in CountedRows : row.viable},
                eligible |-> {row \in CountedRows : row.eligible},
                candidates |-> {row \in CountedRows : row.candidate},
                recommendation |-> advice, terminal |-> TerminalState,
                blocked |-> IF request.v9
                            THEN {<<row, Blockers(row, ResultValid)>> : row \in results}
                            ELSE {}]

Summarizing(mode) ==
    request.mode = mode /\ ~summary.done /\ UNCHANGED <<request, sources, results>>

SummarizeStandard == Summarizing("standard") /\ Say(StandardAdvice)
SummarizeReality == Summarizing("reality") /\ Say(RealityAdvice)
SummarizeFocus ==
    Summarizing("focus") /\ \E diagnosis \in Diagnoses : Say(FocusAdvice(diagnosis))

GateNext ==
    BeginResearch \/ EvaluateConfig
    \/ SummarizeStandard \/ SummarizeReality \/ SummarizeFocus

GateSpec == GateInit /\ [][GateNext]_gateVars

(***************************************************************************)
(* Properties                                                              *)
(***************************************************************************)

Advice == {"none", "collect_more_data", "run_paper_forward_research_only",
    "candidate_found_keep_trading_disabled", "rejected_strategy", "improve_strategy",
    "insufficient_data", "investigate_execution_model", "no_edge_found",
    "move_to_higher_timeframe_research", "reject_current_15min_strategies",
    "more_data_needed", "cost_drag_only", "exit_logic_problem", "entry_quality_problem",
    "refine_volatility_breakout_more"}

\* The shape of requests, sources and summaries.
GateTypeOK ==
    /\ request.mode \in {"none", "standard", "reality", "focus"}
    /\ request.frames \subseteq {"15Min", "1H"}
    /\ sources \in [request.frames -> FoundSources]
    /\ Cardinality(results) <= MaxResults
    /\ \A row \in results : row.config \in Configs
    /\ summary.recommendation \in Advice
    /\ summary.terminal \in {"none", "found", "failed"}
    /\ summary.viable \cup summary.eligible \cup summary.candidates \subseteq results

\* When the last series of configurations is given up, every one of its rows
\* has a blocker, although blockers are not the reasons that rejected it: those
\* are tests written a second time.
TerminalExplained ==
    summary.terminal = "failed" => \A entry \in summary.blocked : entry[2] # {}

\* The two verdicts on the last series agree, though one counts valid rows and
\* the other all; and advice to go on has a row behind it that walked forward
\* on valid bars which nobody made up.
VerdictsAgree ==
    summary.done =>
        /\ (summary.terminal = "found") <=> (request.v9 /\ summary.candidates # {})
        /\ LET onward == summary.recommendation \in {"run_paper_forward_research_only",
                                                     "candidate_found_keep_trading_disabled"}
           IN  IF request.mode = "reality" THEN onward => summary.viable # {}
               ELSE onward <=> summary.viable # {}
        /\ \A row \in summary.viable \cup summary.candidates :
              /\ WalksForward(row.o.folds)
              /\ \A frame \in request.frames :
                    sources[frame].valid /\ sources[frame].kind # "synthetic"

=============================================================================
