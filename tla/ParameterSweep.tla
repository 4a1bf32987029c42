--------------------------- MODULE ParameterSweep ---------------------------
(***************************************************************************)
(* scripts/sweep_strategy_params.py: settings varied over a grid, each     *)
(* variant scored on predictions that variants with the same labels share, *)
(* gated, ranked and summed up in a file, from which                       *)
(* scripts/apply_candidate_config.py writes .env.candidate.                *)
(*                                                                         *)
(* A parameter is its place in a tuple of them, a value its place in the   *)
(* tuple of its values, a strategy its place in STRATEGY_NAMES.  What the  *)
(* trades of a variant come to is a choice, in percent, and so is how many *)
(* of them left on an ambiguous candle.  The predictions are the model's,  *)
(* never a fallback, and trading on a fallback is switched off: those two  *)
(* gates are left out.                                                     *)
(***************************************************************************)
EXTENDS Sampling, FiniteSetsExt

CONSTANTS
    Sizes,          \* how many values each swept parameter has
    LabelParameters,\* those the labels depend on: take profit, stop loss, horizon
    Bases,          \* bound: the settings sweeps start from
    SweepLimits,    \* bound: values of max_configs, 0 for none
    StrategyCount,  \* strategies a variant is scored for, each by itself
    SplitCounts,    \* bound: folds the predictions were made in
    Results,        \* bound: what the trades of a variant come to, by strategy
    MinSweepTrades, MaxSweepDrawdown, MaxShare, MaxAmbiguous   \* gates, the last two in percent

ASSUME SweepAssumption ==
    /\ LabelParameters \subseteq DOMAIN Sizes
    /\ Sizes \in Seq(Nat \ {0})
    /\ SweepLimits \subseteq Nat /\ SplitCounts \subseteq Nat /\ StrategyCount \in Nat
    /\ MinSweepTrades \in Nat \ {0} /\ MaxShare \in 0..99 /\ MaxAmbiguous \in Nat
    /\ \A result \in Results, n \in 1..StrategyCount :
            /\ result[n].trades \in Seq([split : Nat \ {0}, net : Int])
            /\ result[n].ambiguous \in Nat

VARIABLES
    sweep,          \* idle, running, or done
    todo,           \* parameter sets not yet evaluated
    predictions,    \* prediction_cache: from the key, what was labelled and into how many splits
    configurations, \* configurations_by_id
    sweepRows,      \* evaluated parameter sets
    sweepSummary,   \* strategy_param_sweep_summary.json
    candidate       \* .env.candidate

sweepVars == <<sweep, todo, predictions, configurations, sweepRows, sweepSummary, candidate>>

NoFile == [found |-> FALSE]

SweepInit ==
    /\ sweep = "idle"
    /\ todo = <<>> /\ sweepRows = <<>>
    /\ predictions = <<>> /\ configurations = <<>>
    /\ sweepSummary = NoFile /\ candidate = NoFile

(***************************************************************************)
(* Parameter sets                                                          *)
(***************************************************************************)

Variants == [i \in 1..Volume(Sizes) |-> AtIndex(Sizes, i - 1)]

\* Evenly spaced, and then from the first one what rounding lost.
BoundedVariants(slots) ==
    LET total == Len(Variants)
        spaced == [k \in 1..slots |-> Rounded((k - 1) * (total - 1), slots - 1)]
        filled == spaced \o InOrder(0..(total - 1) \ Range(spaced), total)
    IN  IF slots <= 0 \/ slots >= total THEN Variants
        ELSE IF slots = 1 THEN FirstOf(Variants, 1)
        ELSE [k \in 1..slots |-> Variants[filled[k] + 1]]

\* The settings as they are come first.  seen never finds them again: repr()
\* tells their floats from the integers swept.  Without slots for a variant all
\* of them are there, and the first one is added before the limit is tested.
ParameterSets(base, limit) ==
    LET ordered == BoundedVariants(IF limit = 0 THEN 0 ELSE limit - 1)
        count == IF limit = 0 THEN Len(ordered) ELSE IF limit = 1 THEN 1 ELSE limit - 1
        variants == FirstOf(ordered, count)
    IN  <<[id |-> <<"baseline", 0>>, values |-> base]>>
        \o [i \in DOMAIN variants |-> [id |-> <<"economic", i>>, values |-> variants[i]]]

StartSweep ==
    /\ sweep = "idle"
    /\ \E base \in Bases, limit \in SweepLimits : todo' = ParameterSets(base, limit)
    /\ sweep' = "running"
    /\ UNCHANGED <<predictions, configurations, sweepRows, sweepSummary, candidate>>

Labels(values) == [p \in LabelParameters |-> values[p]]

\* Deviation: of two parameters the labels depend on only one is in the key.
CacheKeyOfOne(values) == [p \in {Min(LabelParameters)} |-> values[p]]

CacheKey(values) == [p \in LabelParameters |-> values[p]]

(***************************************************************************)
(* Evaluation                                                              *)
(***************************************************************************)

Returns(trades) == [i \in DOMAIN trades |-> trades[i].net]

\* Every trade is simulated by itself: those of a split come to what they come
\* to among all.
SplitReturns(trades, splits) ==
    [k \in 1..splits |->
        Total([i \in DOMAIN trades |-> IF trades[i].split = k THEN trades[i].net ELSE 0],
              Len(trades))]

Sum(returns) == Total(returns, Len(returns))
Gains(returns) == Sum([i \in DOMAIN returns |-> IF returns[i] > 0 THEN returns[i] ELSE 0])
Losses(returns) == Gains(returns) - Sum(returns)

\* How far their sum fell below the highest it had been.
Drawdown(returns) ==
    LET at[k \in 0..Len(returns)] ==
            IF k = 0 THEN [sum |-> 0, peak |-> 0, worst |-> 0]
            ELSE LET sum == at[k - 1].sum + returns[k]
                     peak == Max({at[k - 1].peak, sum})
                 IN  [sum |-> sum, peak |-> peak, worst |-> Max({at[k - 1].worst, peak - sum})]
    IN  at[Len(returns)].worst

\* One gain is more than its share of all of them.
Dominates(returns) ==
    \E i \in DOMAIN returns :
        returns[i] > 0 /\ 100 * returns[i] > MaxShare * Gains(returns)

RejectionReasons(result, splits) ==
    LET returns == Returns(result.trades)
    IN  (IF Len(returns) < MinSweepTrades THEN {"trades"} ELSE {})
        \cup (IF Drawdown(returns) > MaxSweepDrawdown THEN {"drawdown"} ELSE {})
        \cup (IF Gains(returns) = 0 \/ 100 * Gains(returns) < 105 * Losses(returns)
              THEN {"profit_factor"} ELSE {})
        \cup (IF Sum(returns) <= 0 THEN {"net_return", "expectancy"} ELSE {})
        \cup (IF result.ambiguous > MaxAmbiguous THEN {"ambiguous_candles"} ELSE {})
        \cup (IF Dominates(returns) THEN {"single_trade"} ELSE {})
        \cup (IF Dominates(SplitReturns(result.trades, splits)) THEN {"one_split"} ELSE {})
        \cup (IF result.frequent THEN {"trade_frequency"} ELSE {})

ProfitableSplits(trades, splits) ==
    Cardinality({k \in 1..splits : SplitReturns(trades, splits)[k] > 0})

\* In hundredths, rounded down; whatever is rejected is below whatever is not.
RankScore(result, splits, reasons) ==
    LET returns == Returns(result.trades)
        lost == Losses(returns)
        factor == IF lost = 0 THEN 500 ELSE Min({500, (100 * Gains(returns)) \div lost})
    IN  IF reasons # {} THEN -1000000 + Sum(returns)
        ELSE 10000 * Sum(returns) + 10 * factor + (1000 * Sum(returns)) \div Len(returns)
             + 10 * Len(returns) + 200 * ProfitableSplits(result.trades, splits)
             - 1000 * Drawdown(returns) - 100 * result.ambiguous

\* A dict with an entry set.
WithEntry(dict, key, value) ==
    [k \in DOMAIN dict \cup {key} |-> IF k = key THEN value ELSE dict[k]]

TradedWithin(trades, splits) == \A i \in DOMAIN trades : trades[i].split <= splits

SweepRow(set, strategy, prediction, result) ==
    LET splits == prediction.splits
        reasons == IF splits = 0 THEN {"no_walk_forward_validation_folds"}
                   ELSE RejectionReasons(result, splits)
    IN  [id |-> set.id, strategy |-> strategy, labels |-> prediction.labels, reasons |-> reasons,
         profitable |-> IF splits = 0 THEN 0 ELSE ProfitableSplits(result.trades, splits),
         score |-> IF splits = 0 THEN -1000000 ELSE RankScore(result, splits, reasons)]

\* Labels and predictions are made by the first set that needs them; with too
\* few rows there are no splits.  Trades are made in the splits there are.
EvaluateSet ==
    /\ sweep = "running" /\ todo # <<>>
    /\ LET set == Head(todo)
           key == CacheKey(set.values)
       IN  \E splits \in SplitCounts, result \in Results :
            /\ key \in DOMAIN predictions => splits = predictions[key].splits
            /\ splits = 0 \/ \A n \in 1..StrategyCount : TradedWithin(result[n].trades, splits)
            /\ LET prediction == IF key \in DOMAIN predictions THEN predictions[key]
                                 ELSE [labels |-> Labels(set.values), splits |-> splits]
               IN  /\ predictions' = WithEntry(predictions, key, prediction)
                   /\ sweepRows' = sweepRows \o
                        [n \in 1..StrategyCount |-> SweepRow(set, n, prediction, result[n])]
            /\ configurations' = WithEntry(configurations, set.id, set.values)
    /\ todo' = Tail(todo)
    /\ UNCHANGED <<sweep, sweepSummary, candidate>>

(***************************************************************************)
(* Summary and candidate                                                   *)
(***************************************************************************)

\* Before the first row with a lower score.
Placed(ranked, row) ==
    LET ahead == {i \in DOMAIN ranked : ranked[i].score >= row.score}
    IN  Append(Kept(ranked, ahead), row) \o Kept(ranked, DOMAIN ranked \ ahead)

\* sorted() is stable.
Ranked ==
    LET ranked[n \in 0..Len(sweepRows)] ==
            IF n = 0 THEN <<>> ELSE Placed(ranked[n - 1], sweepRows[n])
    IN  ranked[Len(sweepRows)]

Accepted == Kept(Ranked, {i \in DOMAIN Ranked : Ranked[i].reasons = {}})
Stable == Kept(Accepted, {i \in DOMAIN Accepted : Accepted[i].profitable >= 2})

WriteSummary ==
    /\ sweep = "running" /\ todo = <<>>
    /\ sweepSummary' = [found |-> TRUE, configurations |-> configurations,
                   best |-> FirstOf(Accepted, 10),
                   recommended |-> FirstOf(IF Stable # <<>> THEN Stable ELSE Accepted, 3)]
    /\ sweep' = "done"
    /\ UNCHANGED <<todo, predictions, configurations, sweepRows, candidate>>

\* Any set the summary has, recommended or not; what trades is switched off.
WriteCandidate ==
    /\ sweepSummary.found
    /\ \E id \in DOMAIN sweepSummary.configurations :
        candidate' = [found |-> TRUE, id |-> id, values |-> sweepSummary.configurations[id],
                      trading |-> FALSE]
    /\ UNCHANGED <<sweep, todo, predictions, configurations, sweepRows, sweepSummary>>

SweepNext == StartSweep \/ EvaluateSet \/ WriteSummary \/ WriteCandidate

SweepSpec == SweepInit /\ [][SweepNext]_sweepVars

(***************************************************************************)
(* Properties                                                              *)
(***************************************************************************)

\* What the summary recommends was scored on labels made from its own values,
\* has gained in two splits at least, and is the only row of its strategy under
\* an id that names nothing else; it is among the best, at the same place, and
\* whatever was accepted with a higher score is recommended before it.
RecommendedHoldsUp ==
    sweepSummary.found =>
        \A i \in DOMAIN sweepSummary.recommended :
            LET row == sweepSummary.recommended[i]
            IN  /\ row.labels = Labels(sweepSummary.configurations[row.id])
                /\ row.reasons = {} /\ row.profitable >= 2
                /\ sweepSummary.best[i] = row
                /\ \A j \in DOMAIN sweepRows :
                    LET other == sweepRows[j]
                    IN  /\ other.id = row.id /\ other.strategy = row.strategy => other = row
                        /\ other.reasons = {} /\ other.score > row.score =>
                            \E k \in 1..(i - 1) : sweepSummary.recommended[k] = other

\* With one limit in SweepLimits: no more sets are tried than were asked for.
SweepIsBounded ==
    \E limit \in SweepLimits : Cardinality(DOMAIN configurations) + Len(todo) <= limit

\* No two sets have the same values.
SetsDiffer ==
    \A id1, id2 \in DOMAIN configurations :
        configurations[id1] = configurations[id2] => id1 = id2

\* The candidate written is one that was recommended.
CandidateIsRecommended ==
    candidate.found =>
        candidate.id \in {sweepSummary.recommended[i].id : i \in DOMAIN sweepSummary.recommended}

=============================================================================
