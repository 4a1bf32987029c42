------------------------------ MODULE MakerFill ------------------------------
(***************************************************************************)
(* The maker fill simulation of research: for every signal a post-only     *)
(* limit order is held against candles of a shorter timeframe until its    *)
(* deadline.  If it is filled, two scenarios exit the same position, one   *)
(* at the stop, the other never through the market.  The limit price is    *)
(* 100, with barriers and candles as in TradeSimulation.  Fee and offset   *)
(* move every return and every price alike and are left out.               *)
(***************************************************************************)
EXTENDS TradeSimulation

CONSTANTS
    EntryCandles,   \* candles from the close of the signal to the deadline
    HoldCandles     \* candles from the fill to the end of the hold

ASSUME MakerAssumption == EntryCandles \in Nat /\ HoldCandles \in Nat \ {0}

VARIABLES
    order,      \* the entry order and, once it is filled, the position
    scenario,   \* how each scenario has left the position
    tally       \* what the summary counts

makerVars == <<order, scenario, tally>>

Scenarios == {"conservative", "stress"}
NoOrder == [state |-> "none", age |-> 0, breached |-> FALSE, close |-> 100]
Held == [reason |-> "none", gain |-> 0, after |-> 0]
NoTally == [signals |-> 0, filled |-> 0, winners |-> 0, losers |-> 0,
            targets |-> 0, stops |-> 0, timeouts |-> 0]

MakerInit ==
    /\ order = NoOrder
    /\ scenario = [s \in Scenarios |-> Held]
    /\ tally = NoTally

\* The next signal.
Quote ==
    /\ order.state = "none" /\ tally.signals < MaxEntries
    /\ order' = [NoOrder EXCEPT !.state = "quoted"]
    /\ scenario' = [s \in Scenarios |-> Held]
    /\ tally' = [tally EXCEPT !.signals = @ + 1]

\* Deviation: the target is tested first.
ConservativeTargetFirst(c) ==
    << Test(HitsTarget(c, TakeProfit), "take_profit", Target(TakeProfit)),
       Test(HitsStop(c), "stop", Stop) >>

Conservative(c) ==
    << Test(HitsStop(c), "stop", Stop),
       Test(HitsTarget(c, TakeProfit), "take_profit", Target(TakeProfit)) >>

\* No market order: a stop that was touched is only remembered.
Stress(c, breached) ==
    << Test(HitsTarget(c, TakeProfit),
            IF breached THEN "take_profit_after_breach" ELSE "take_profit", Target(TakeProfit)) >>

Left(s, tests, age) ==
    LET met == {i \in DOMAIN tests : tests[i].holds}
    IN  IF scenario[s] # Held \/ met = {} THEN scenario[s]
        ELSE [reason |-> tests[Min(met)].reason, gain |-> tests[Min(met)].price - Entry, after |-> age]

\* A candle of the hold, the first of which is the one that filled the order.
Holding(c, age) ==
    LET breached == order.breached \/ HitsStop(c)
    IN  /\ order' = [state |-> "held", age |-> age, breached |-> breached, close |-> c.close]
        /\ scenario' = [s \in Scenarios |->
                          Left(s, IF s = "conservative" THEN Conservative(c) ELSE Stress(c, breached), age)]

BeforeDeadline == order.age < EntryCandles

QuoteCandle ==
    /\ order.state = "quoted" /\ BeforeDeadline
    /\ \E c \in Candles :
        \/ /\ c.low <= 100
           /\ Holding(c, 1)
           /\ tally' = [tally EXCEPT !.filled = @ + 1]
        \/ /\ c.low > 100
           /\ order' = [order EXCEPT !.age = @ + 1]
           /\ UNCHANGED <<scenario, tally>>

\* The deadline, or the end of the data: what is missed is a winner if the
\* backtest of the signal made a profit.
Cancel ==
    /\ order.state = "quoted"
    /\ \E profit \in BOOLEAN :
        tally' = IF profit THEN [tally EXCEPT !.winners = @ + 1] ELSE [tally EXCEPT !.losers = @ + 1]
    /\ order' = NoOrder
    /\ UNCHANGED scenario

HoldCandle ==
    /\ order.state = "held" /\ order.age < HoldCandles
    /\ \E s \in Scenarios : scenario[s] = Held
    /\ \E c \in Candles : Holding(c, order.age + 1)
    /\ UNCHANGED tally

TimedOut(s) ==
    IF scenario[s] # Held THEN scenario[s]
    ELSE [reason |-> IF s = "stress" /\ order.breached THEN "timeout_after_breach" ELSE "timeout",
          gain |-> 100 * order.close - Entry, after |-> order.age]

\* Both scenarios have left, or the hold or the data ends: the last close is
\* then what the rest of the position is worth.
Leave ==
    /\ order.state = "held"
    /\ scenario' = [s \in Scenarios |-> TimedOut(s)]
    /\ LET reason == scenario'["conservative"].reason
       IN  tally' = [tally EXCEPT !.targets = @ + (IF reason = "take_profit" THEN 1 ELSE 0),
                                  !.stops = @ + (IF reason = "stop" THEN 1 ELSE 0),
                                  !.timeouts = @ + (IF reason = "timeout" THEN 1 ELSE 0)]
    /\ order' = NoOrder

MakerNext == Quote \/ QuoteCandle \/ Cancel \/ HoldCandle \/ Leave
MakerSpec == MakerInit /\ [][MakerNext]_makerVars

(***************************************************************************)
(* Properties                                                              *)
(***************************************************************************)

MakerTypeOK ==
    /\ order.state \in {"none", "quoted", "held"}
    /\ order.age \in 0..(IF order.state = "held" THEN HoldCandles ELSE EntryCandles)
    /\ tally.signals \in 0..MaxEntries

\* The two scenarios are two loops over the same candles: they take the same
\* profit on the same candle, and the stop of the one is the breach that the
\* other reports, whatever became of it; no position is lost from the counts.
ScenariosAgree ==
    LET conservative == scenario["conservative"]
        stress == scenario["stress"]
    IN  order.state = "none" /\ conservative # Held =>
            /\ conservative.reason \in {"take_profit", "timeout"} => conservative = stress
            /\ conservative.reason = "stop" =>
                    /\ stress.reason \in {"take_profit_after_breach", "timeout_after_breach"}
                    /\ stress.after >= conservative.after
            /\ tally.signals = tally.winners + tally.losers + tally.targets + tally.stops + tally.timeouts
            /\ tally.filled = tally.targets + tally.stops + tally.timeouts

=============================================================================
