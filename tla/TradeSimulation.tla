--------------------------- MODULE TradeSimulation ---------------------------
(***************************************************************************)
(* How research and training look at one entry after another: the exit of  *)
(* a research trade (resolve_research_exit), the three labels of the same  *)
(* row (app/ml/labels.py, app/ml/buy_the_dip_labels.py), each with a loop  *)
(* of its own over the same candles, and the scoring of what came out of   *)
(* it after fills and costs (app/backtest/scalping.py).                    *)
(*                                                                         *)
(* The close of the entry is 100: candles are in percent of it, prices and *)
(* returns in hundredths of a percent.  Signals are a choice; an entry is  *)
(* only taken if all Hold candles follow it, and what the candles of one   *)
(* entry were does not constrain those of the next.                        *)
(***************************************************************************)
EXTENDS Integers, FiniteSetsExt

CONSTANTS
    TakeProfit, StopLoss,   \* the barriers, in percent
    Hold,                   \* max_hold_bars, label_horizon_bars
    Required,               \* what a scalp must return to pay its costs
    Trailing, Arm,          \* distance and arming profit of a scalp's trail
    Levels,                 \* highs, lows and closes of candles
    Rates,                  \* what an order may cost, per quarter filled
    MaxEntries              \* bound: entries scored

ASSUME BarriersAssumption ==
    /\ TakeProfit \in Nat \ {0} /\ StopLoss \in 1..99 /\ Hold \in Nat \ {0}
    /\ Required \in Nat /\ Trailing \in 1..99 /\ Arm \in Nat
ASSUME CandlesAssumption == Levels \subseteq Nat \ {0}
ASSUME ScoreAssumption == Rates \subseteq Nat /\ MaxEntries \in Nat

VARIABLES
    plan,       \* exit mode of the trades, and whose results are scored
    phase,      \* flat, open, settled, or bought for the score
    walk,       \* the candles since the entry
    verdict,    \* what trade and labels have made of them
    book        \* the sums of calculate_fee_aware_metrics

simVars == <<plan, phase, walk, verdict, book>>

Modes == {"fixed", "break_even", "trailing", "mfe_protect", "time_stop"}
Plans == [mode : Modes, scored : {"trade"}]
            \cup [mode : {"fixed"}, scored : {"triple", "scalp"}]
Readers == {"trade", "triple", "dip", "scalp"}
NoWalk == [age |-> 0, high |-> 100, low |-> 100, oneR |-> FALSE]
Open == [reason |-> "none", gain |-> 0, hold |-> 0, low |-> 0, spans |-> FALSE]
NoBook == [entries |-> 0, gross |-> 0, costs |-> 0, equity |-> 0, peak |-> 0, drawdown |-> 0,
           bought |-> 0, paid |-> 0]

SimInit ==
    /\ plan \in Plans
    /\ phase = "flat"
    /\ walk = NoWalk
    /\ verdict = [r \in Readers |-> Open]
    /\ book = NoBook

Enter ==
    /\ phase = "flat" /\ book.entries < MaxEntries
    /\ phase' = "open"
    /\ walk' = NoWalk
    /\ verdict' = [r \in Readers |-> Open]
    /\ UNCHANGED <<plan, book>>

(***************************************************************************)
(* The barriers: every reader takes the first of its tests that holds      *)
(***************************************************************************)

Target(percent) == 100 * (100 + percent)
Stop == 100 * (100 - StopLoss)
Entry == 100 * 100

HitsTarget(c, percent) == 100 * c.high >= Target(percent)
HitsStop(c) == 100 * c.low <= Stop

Test(holds, reason, price) == [holds |-> holds, reason |-> reason, price |-> price]

\* The high of a candle raises the watermark, and with it the stop, before its
\* low is held against the stop.
RaisedStop(w) ==
    CASE w.oneR /\ plan.mode = "break_even" -> Max({Stop, Entry})
      [] w.oneR /\ plan.mode = "trailing" -> Max({Stop, Entry, w.high * (100 - StopLoss)})
      [] OTHER -> Stop

ProtectedPrice(w) == 50 * (100 + w.high)
TimeStopBars == Max({3, Min({Max({3, Hold - 1}), Hold \div 2})})

TradeTests(w, c, weak) ==
    LET stop == RaisedStop(w)
    IN  << Test(100 * c.low <= stop /\ HitsTarget(c, TakeProfit) /\ stop <= Stop, "ambiguous", stop),
           Test(100 * c.low <= stop, IF stop <= Stop THEN "stop" ELSE "raised_stop", stop),
           Test(plan.mode = "mfe_protect" /\ w.oneR /\ 100 * c.low <= ProtectedPrice(w),
                "mfe_protection", ProtectedPrice(w)),
           Test(HitsTarget(c, TakeProfit), "take_profit", Target(TakeProfit)),
           Test(plan.mode = "time_stop" /\ w.age >= TimeStopBars /\ weak, "time_stop", 100 * c.close),
           Test(w.age = Hold, "max_hold", 100 * c.close) >>

\* Deviation: the target is tested before the candle that spans both.
TripleTestsTargetFirst(w, c) ==
    << Test(HitsTarget(c, TakeProfit), "take_profit", Target(TakeProfit)),
       Test(HitsStop(c), "stop", Stop),
       Test(w.age = Hold, "timeout", Entry) >>

\* A price is kept only for uniformity: the label has none.
TripleTests(w, c) ==
    << Test(HitsTarget(c, TakeProfit) /\ HitsStop(c), "stop", Stop),
       Test(HitsTarget(c, TakeProfit), "take_profit", Target(TakeProfit)),
       Test(HitsStop(c), "stop", Stop),
       Test(w.age = Hold, "timeout", Entry) >>

DipTests(w, c) ==
    << Test(HitsTarget(c, TakeProfit) /\ HitsStop(c), "ambiguous", Stop),
       Test(HitsStop(c), "stop", Stop),
       Test(HitsTarget(c, TakeProfit), "take_profit", Target(TakeProfit)),
       Test(w.age = Hold, "max_hold", 100 * c.close) >>

TrailingPrice(w) == w.high * (100 - Trailing)
\* Deviation: the trail is taken whether or not it pays the costs.
HitsTrailingUnpaid(w, c) ==
    /\ w.high >= 100 + Arm
    /\ 100 * c.low <= TrailingPrice(w)

HitsTrailing(w, c) ==
    /\ w.high >= 100 + Arm
    /\ TrailingPrice(w) >= Target(Required)
    /\ 100 * c.low <= TrailingPrice(w)

\* Without a profitable exit a scalp counts as stopped out.
ScalpTests(w, c) ==
    LET target == Max({TakeProfit, Required})
    IN  << Test(HitsStop(c) /\ (HitsTarget(c, target) \/ HitsTrailing(w, c)), "ambiguous", Stop),
           Test(HitsTarget(c, target), "take_profit", Target(target)),
           Test(HitsTrailing(w, c), "trailing", TrailingPrice(w)),
           Test(HitsStop(c), "stop", Stop),
           Test(w.age = Hold, "no_profitable_exit", Stop) >>

Settled(tests, w, c) ==
    LET met == {i \in DOMAIN tests : tests[i].holds}
        exit == tests[Min(met)]
    IN  IF met = {} THEN Open
        ELSE [reason |-> exit.reason, gain |-> exit.price - Entry, hold |-> w.age, low |-> w.low,
              spans |-> HitsTarget(c, TakeProfit) /\ HitsStop(c)]

Candles ==
    {c \in [high : Levels, low : Levels, close : Levels] : c.low <= c.close /\ c.close <= c.high}

\* What the reader r makes of the candle c, when the window has become w.
Verdict(r, w, c, weak) ==
    Settled(CASE r = "trade" -> TradeTests(w, c, weak)
              [] r = "triple" -> TripleTests(w, c)
              [] r = "dip" -> DipTests(w, c)
              [] r = "scalp" -> ScalpTests(w, c), w, c)

NextCandle ==
    /\ phase = "open"
    /\ \E c \in Candles, weak \in BOOLEAN :
        LET w == [age |-> walk.age + 1, high |-> Max({walk.high, c.high}),
                  low |-> Min({walk.low, c.low}),
                  oneR |-> walk.oneR \/ HitsTarget(c, StopLoss)]
        IN  /\ walk' = w
            /\ verdict' = [r \in Readers |->
                             IF verdict[r] # Open THEN verdict[r] ELSE Verdict(r, w, c, weak)]
    /\ phase' = IF \A r \in Readers : verdict'[r] # Open THEN "settled" ELSE "open"
    /\ UNCHANGED <<plan, book>>

(***************************************************************************)
(* Scoring                                                                 *)
(***************************************************************************)

LabelOne(r) ==
    CASE r = "triple" -> verdict[r].reason = "take_profit"
      [] r = "scalp" -> verdict[r].reason \in {"take_profit", "trailing"}
      [] OTHER -> verdict[r].gain > 0

Fallback(r) == IF LabelOne(r) THEN Target(TakeProfit) - Entry ELSE Stop - Entry

\* _resolved_gross_return.  Only a trade says what its exit candle was, and a
\* triple barrier label has no return at all; a return of 0 counts as none.
Scored(r) ==
    CASE r = "triple" -> Fallback(r)
      [] verdict[r].reason = "ambiguous" \/ (r = "trade" /\ verdict[r].spans) -> Stop - Entry
      [] verdict[r].gain = 0 -> Fallback(r)
      [] OTHER -> verdict[r].gain

(* calculate_fee_aware_metrics: an entry order and an exit order per trade, in
   quarters of the order, and sums that are kept apart: of the gross returns,
   of the costs of all orders, and of the returns on the equity curve.      *)

\* The curve and the drawdown that _max_drawdown finds on it; it begins at 0.
Extended(b, return) ==
    LET sum == b.equity + return
        peak == Max({b.peak, sum})
    IN  [b EXCEPT !.equity = sum, !.peak = peak, !.drawdown = Max({b.drawdown, peak - sum})]

Closed(b) == [b EXCEPT !.bought = 0, !.paid = 0]

\* An order that is canceled, or finds nothing at its price, costs nothing.
FillEntry ==
    /\ phase = "settled"
    /\ \E filled \in {0, 2, 4}, rate \in Rates :
        /\ book' = [book EXCEPT !.entries = @ + 1, !.costs = @ + rate * filled,
                                !.bought = filled, !.paid = rate * filled]
        /\ phase' = IF filled = 0 THEN "flat" ELSE "bought"
    /\ UNCHANGED <<plan, walk, verdict>>

\* Deviation: an entry whose exit was canceled is no trade.
CancelExitForFree ==
    /\ phase = "bought"
    /\ book' = Closed(book)
    /\ phase' = "flat"
    /\ UNCHANGED <<plan, walk, verdict>>

\* What was bought and is not sold has no return, but its costs.
CancelExit ==
    /\ phase = "bought"
    /\ book' = Closed(IF book.paid > 0 THEN Extended(book, -book.paid) ELSE book)
    /\ phase' = "flat"
    /\ UNCHANGED <<plan, walk, verdict>>

\* The exit is ordered for what was bought, and never fills more.
FillExit ==
    /\ phase = "bought"
    /\ \E filled \in {book.bought \div 2, book.bought}, rate \in Rates :
        LET gross == Scored(plan.scored) * filled
            cost == rate * filled
            totals == [book EXCEPT !.gross = @ + gross, !.costs = @ + cost]
        IN  book' = Closed(Extended(totals, gross - (book.paid + cost)))
    /\ phase' = "flat"
    /\ UNCHANGED <<plan, walk, verdict>>

SimNext == Enter \/ NextCandle \/ FillEntry \/ CancelExit \/ FillExit
SimSpec == SimInit /\ [][SimNext]_simVars

(***************************************************************************)
(* Properties                                                              *)
(***************************************************************************)

SimTypeOK ==
    /\ plan \in Plans
    /\ phase \in {"flat", "open", "settled", "bought"}
    /\ walk.age \in 0..Hold
    /\ \A r \in Readers : verdict[r].hold \in 0..walk.age
    /\ book.entries \in 0..MaxEntries

\* Research and labels agree: with fixed exits the label of a row is what the
\* backtest of the same row did, candle for candle, although the three loops
\* order their barrier tests differently.
LabelsAgree ==
    plan.mode = "fixed" =>
        /\ verdict["dip"] = verdict["trade"]
        /\ verdict["triple"].hold = verdict["trade"].hold
        /\ LabelOne("triple") <=> verdict["trade"].reason = "take_profit"

\* "ambiguous_candle_behavior": "stop_loss_first".  Whoever reports a target,
\* or a trail that pays, has not seen the stop touched up to and including the
\* candle of its exit, and is paid at least what it promises.
WinnersSurvive ==
    \A r \in Readers :
        /\ verdict[r].reason \in {"take_profit", "trailing"} => 100 * verdict[r].low > Stop
        /\ r = "scalp" /\ LabelOne(r) => verdict[r].gain >= Target(Required) - Entry

\* Net return, equity curve and drawdown are summed apart over entries that are
\* canceled, bought and not sold, or sold in part, and agree after every trade:
\* what an order cost is in the totals exactly if it is on the curve, and no
\* loss is larger than the drawdown.
NetIsEquity ==
    /\ phase # "bought" => book.gross - book.costs = book.equity
    /\ -book.equity <= book.drawdown

\* A break-even exit gives back what was paid: its gross return is 0.
BreakEvenIsZero ==
    phase = "settled" /\ plan.mode = "break_even" /\ plan.scored = "trade"
        /\ verdict["trade"].reason = "raised_stop" /\ ~verdict["trade"].spans
        => Scored("trade") = 0

=============================================================================
