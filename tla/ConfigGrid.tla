----------------------------- MODULE ConfigGrid -----------------------------
(***************************************************************************)
(* The configurations scripts/research_higher_timeframe.py tries: a grid   *)
(* for each strategy, thinned out evenly to a limit, and for the focus on  *)
(* volatility tracks around anchors.  A value of a parameter is its place  *)
(* in the tuple it is taken from, a configuration the places of its values *)
(* and an id; the numbers behind them do not matter here.                  *)
(***************************************************************************)
EXTENDS Sampling, FiniteSets

CONSTANTS
    FrameRequests,  \* bound: the sequences of timeframes asked for
    GridLimits,     \* bound: max_configs and max_buy_dip_configs
    Shape,          \* how many values each parameter of a strategy or track has
    TwinAt,         \* the values a seed of the focus stands for, as places in its grid
    MinV7, BaseV7, MinV8, CountV9   \* VOLATILITY_FOCUS_V7_MIN_CONFIGS and so on

ASSUME GridAssumption ==
    /\ GridLimits \subseteq Nat \ {0}
    /\ MinV7 \in Nat /\ BaseV7 \in Nat /\ MinV8 \in Nat /\ CountV9 \in Nat

VARIABLES
    ask,        \* the strategy, the timeframes and the limit research was given
    tried       \* the configurations it evaluates, in this order

gridVars == <<ask, tried>>

NoAsk == [strategy |-> "none", frames |-> <<>>, limit |-> 0]
GridInit == ask = NoAsk /\ tried = <<>>

(***************************************************************************)
(* Grids and samples                                                       *)
(***************************************************************************)

\* Places make up what rounding lost, first come first served.
EvenlySpaced(total, desired) ==
    LET spaced == {0, total - 1} \cup
                  {Rounded(k * (total - 1), desired - 1) : k \in 0..(desired - 1)}
        unused == InOrder((0..(total - 1)) \ spaced, total)
        filled == spaced \cup {unused[i] : i \in 1..(desired - Cardinality(spaced))}
    IN  IF desired = 1 THEN <<0>>
        ELSE SubSeq(InOrder(filled, total), 1, desired)

Sampled(seq, desired) ==
    IF Len(seq) <= desired THEN seq
    ELSE LET at == EvenlySpaced(Len(seq), desired)
         IN  [i \in 1..desired |-> seq[at[i] + 1]]

\* seen_specs: a specification that is there already is not added again.
Distinct(seq) ==
    FoldLeft(LAMBDA specs, spec : IF spec \in Range(specs) THEN specs ELSE Append(specs, spec),
             <<>>, seq)

\* The whole grid of a strategy over timeframes; ids count it through.
Grid(strategy, prefix, frames) ==
    LET shape == <<Len(frames)>> \o Shape[strategy]
    IN  [i \in 1..Volume(shape) |->
            LET at == AtIndex(shape, i - 1)
            IN  [strategy |-> strategy, frame |-> frames[at[1] + 1], at |-> Tail(at),
                 id |-> <<prefix, i - 1>>]]

Among(frames, supported) == SelectSeq(frames, LAMBDA frame : frame \in supported)
Legacy == {"5Min", "15Min"}
V3 == {"15Min", "1H"}
HTF == {"1H", "4H", "1D"}
FocusFrames == {"15Min", "1H", "4H"}

(***************************************************************************)
(* Strategies                                                              *)
(***************************************************************************)

TrendPullback(frames) == Grid("trend_pullback", "htf", Among(frames, Legacy))

BuyTheDip(frames, limit) ==
    Sampled(Grid("buy_the_dip", "btd", Among(frames, Legacy)), limit)

UptrendPullback(frames, limit) ==
    Sampled(Grid("uptrend_pullback", "utp", Among(frames, V3)), limit)

VolatilityBreakout(frames, limit) ==
    Sampled(Grid("volatility_breakout", "vbo", Among(frames, V3)), limit)

TrendContinuation(frames, limit) ==
    Sampled(Grid("trend_continuation", "htft", Among(frames, HTF)), limit)

ExpansionBreakout(frames, limit) ==
    Sampled(Grid("expansion_breakout", "htfb", Among(frames, HTF)), limit)

RiskOffFilter(frames, limit) ==
    Sampled(Grid("risk_off", "htfr", Among(frames, HTF)), limit)

\* Samples of samples.
V3Configs(frames, limit) ==
    Sampled(UptrendPullback(frames, limit) \o VolatilityBreakout(frames, limit), limit)

HTFConfigs(frames, limit) ==
    Sampled(TrendContinuation(frames, limit) \o ExpansionBreakout(frames, limit)
            \o RiskOffFilter(frames, limit), limit)

(***************************************************************************)
(* The focus on volatility                                                 *)
(***************************************************************************)

FocusStrategies == <<"volatility_breakout", "expansion_breakout">>
Bare(strategy, frame) == [strategy |-> strategy, frame |-> frame, at |-> <<>>]

\* A seed of each strategy and timeframe, without the keys of the quality
\* filters that the grid behind the seeds has: as specifications the two differ.
FocusSpecs(frames) ==
    LET seeds == [i \in 1..(2 * Len(frames)) |->
                    Bare(FocusStrategies[1 + (i % 2)], frames[(i + 1) \div 2])]
        shape == <<2, Len(frames)>> \o Shape["focus"]
        grid == [i \in 1..Volume(shape) |->
                    LET at == AtIndex(shape, i - 1)
                    IN  [strategy |-> FocusStrategies[at[1] + 1], frame |-> frames[at[2] + 1],
                         at |-> SubSeq(at, 3, Len(at))]]
    IN  Distinct(seeds \o grid)

\* The anchors are kept, the rest is thinned out.
SampledSpecs(specs, desired, anchorCount) ==
    LET anchors == FirstOf(specs, IF anchorCount < desired THEN anchorCount ELSE desired)
        others == SubSeq(specs, Len(anchors) + 1, Len(specs))
    IN  IF Len(specs) <= desired THEN specs
        ELSE IF desired = Len(anchors) THEN anchors
        ELSE anchors \o Sampled(others, desired - Len(anchors))


\* The anchor under every exit mode, a sample, and from the start of the grid
\* what these had in common.
Track(track, desired) ==
    LET shape == Shape[track]
        Spec(at) == [strategy |-> track, frame |-> "1H", at |-> at]
        anchors == [mode \in 1..shape[1] |->
                        Spec([k \in DOMAIN shape |-> IF k = 1 THEN mode - 1 ELSE 0])]
        wanted == IF desired > shape[1] THEN desired - shape[1] ELSE 1
        all == [i \in 1..Volume(shape) |-> Spec(AtIndex(shape, i - 1))]
    IN  IF desired = 0 THEN <<>>
        ELSE FirstOf(Distinct(anchors \o Sampled(all, wanted) \o all), desired)

Identified(specs, prefix) ==
    [i \in DOMAIN specs |-> specs[i] @@ [id |-> <<prefix, i - 1>>]]

TwoTracks(first, prefix, second, prefix2, limit) ==
    LET one == Identified(Track(first, limit \div 2), prefix)
    IN  one \o Identified(Track(second, limit - Len(one)), prefix2)

V7Specs(limit) == TwoTracks("a", "v7a", "b", "v7b", limit)
V8Specs(limit) == TwoTracks("m", "v8m", "t", "v8t", limit)

Distance(at) == Cardinality({k \in DOMAIN at : at[k] # 0})

\* Level by level away from the anchor, of which every value is the first one;
\* the others are in the order of their distance from it.
V9Specs(limit) ==
    LET shape == Shape["m9"]
        all == [i \in 1..Volume(shape) |-> AtIndex(shape, i - 1)]
        Level(distance) == SelectSeq(all, LAMBDA at : Distance(at) = distance)
        levels == FlattenSeq([d \in 1..(Len(shape) + 1) |-> Level(d - 1)])
    IN  Identified([i \in 1..Len(FirstOf(levels, limit)) |->
                        [strategy |-> "m9", frame |-> "1H", at |-> levels[i]]], "v9m")

V7Enabled(frames, limit) == limit >= MinV7 /\ frames = <<"1H">>
V8Enabled(frames, limit) == limit >= MinV8 /\ frames = <<"1H">>
V9Enables(frames, limit) == limit = CountV9 /\ frames = <<"1H">>

\* A key that is missing gets its default, so a seed becomes a point of the grid.
Defaulted(spec) ==
    IF spec.at = <<>> THEN [spec EXCEPT !.at = TwinAt[spec.strategy]] ELSE spec

\* Specifications without an id get one by their place among all of them.
FocusConfigs(frames, limit) ==
    LET base == IF BaseV7 < limit \div 4 THEN BaseV7 ELSE limit \div 4
        specs ==
            IF V9Enables(frames, limit) THEN V9Specs(limit)
            ELSE IF V8Enabled(frames, limit) THEN V8Specs(limit)
            ELSE IF V7Enabled(frames, limit)
                 THEN V7Specs(limit - base) \o SampledSpecs(FocusSpecs(frames), base, 2)
            ELSE SampledSpecs(FocusSpecs(frames), limit, 2 * Len(frames))
    IN  [i \in 1..Len(FirstOf(specs, limit)) |->
            Defaulted(specs[i]) @@ [id |-> <<IF specs[i].strategy = "expansion_breakout"
                                  THEN "vff_htfb" ELSE "vff_vbo", i - 1>>]]

Generators == {"all", "trend_pullback", "buy_the_dip", "uptrend_pullback",
    "volatility_breakout", "trend_continuation", "expansion_breakout", "risk_off", "focus"}

Generated(strategy, frames, limit) ==
    CASE strategy = "trend_pullback" -> TrendPullback(frames)
      [] strategy = "buy_the_dip" -> BuyTheDip(frames, limit)
      [] strategy = "uptrend_pullback" -> UptrendPullback(frames, limit)
      [] strategy = "volatility_breakout" -> VolatilityBreakout(frames, limit)
      [] strategy = "trend_continuation" -> TrendContinuation(frames, limit)
      [] strategy = "expansion_breakout" -> ExpansionBreakout(frames, limit)
      [] strategy = "risk_off" -> RiskOffFilter(frames, limit)
      [] strategy = "focus" -> FocusConfigs(Among(frames, FocusFrames), limit)
      [] strategy = "all" ->
            TrendPullback(frames) \o BuyTheDip(frames, limit)
            \o V3Configs(frames, limit) \o HTFConfigs(frames, limit)

\* The focus refuses timeframes it does not know.
Generate ==
    /\ ask = NoAsk
    /\ \E strategy \in Generators, frames \in FrameRequests, limit \in GridLimits :
        /\ strategy = "focus" => Range(frames) \subseteq FocusFrames
        /\ ask' = [strategy |-> strategy, frames |-> frames, limit |-> limit]
        /\ tried' = Generated(strategy, frames, limit)

GridNext == Generate
GridSpec == GridInit /\ [][GridNext]_gridVars

(***************************************************************************)
(* Properties                                                              *)
(***************************************************************************)

\* Which configurations have the same parameters, whatever they are called.
Parameters(config) == <<config.strategy, config.frame, config.at>>
Strategies(configs) == {configs[i].strategy : i \in DOMAIN configs}

\* How many specifications the focus could try.
FocusSize(frames, limit) ==
    IF V9Enables(frames, limit) THEN Volume(Shape["m9"])
    ELSE IF V8Enabled(frames, limit) THEN Volume(Shape["m"]) + Volume(Shape["t"])
    ELSE IF V7Enabled(frames, limit)
         THEN Volume(Shape["a"]) + Volume(Shape["b"]) + Len(FocusSpecs(frames))
    ELSE Len(FocusSpecs(frames))


\* A sample of half the grid tries every value of every parameter.
EveryValueIsTried ==
    ask.strategy \in {"uptrend_pullback", "volatility_breakout"} =>
        LET shape == Shape[ask.strategy]
        IN  2 * ask.limit >= Volume(shape) * Len(ask.frames) =>
                \A i \in DOMAIN tried, k \in DOMAIN shape :
                    {tried[j].at[k] : j \in DOMAIN tried} = 0..(shape[k] - 1)

\* No configuration is backtested twice under two names.
NothingIsTriedTwice ==
    \A i, j \in DOMAIN tried : i # j => Parameters(tried[i]) # Parameters(tried[j])

=============================================================================
