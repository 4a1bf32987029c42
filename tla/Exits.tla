------------------------------- MODULE Exits -------------------------------
(***************************************************************************)
(* When a position is sold: the exit rules of both decision engines        *)
(* (app/strategy/scalping_decision_engine.py, app/strategy/                *)
(* decision_engine.py, app/risk/risk_manager.py) together with what they   *)
(* read, which Trader keeps between runs: the highest price, the bar       *)
(* already traded and the time of the newest buy                           *)
(* (app/services/trader.py).                                               *)
(*                                                                         *)
(* A run is one action: what it decides on is read once, and Trader.tla    *)
(* is about what other runs do meanwhile.  Prices are whole numbers, the   *)
(* percentages of the settings too; a row's time is its age in ticks,      *)
(* which stops at MaxAge.                                                  *)
(***************************************************************************)
EXTENDS Integers, FiniteSetsExt

CONSTANTS
    Settings,       \* the settings to choose from, records of booleans
    Prices,         \* what the market may be at
    Offset,         \* from the mid price to the price of a limit order
    EmergencyPct,   \* emergency_stop_loss_pct
    StopLossPct,    \* scalping_stop_loss_pct
    TakeProfitPct,  \* scalping_take_profit_pct, take_profit_pct
    TrailingPct,    \* scalping_trailing_stop_pct, trailing_stop_pct
    ArmPct,         \* trailing_stop_arm_profit_pct
    MinProfitPct,   \* min_net_exit_profit_pct with exit_profit_buffer_bps
    MaxAge,         \* scalping_max_position_seconds, max_holding_minutes
    MinHold         \* scalping_min_hold_seconds

ASSUME SettingsAssumption ==
    Settings \subseteq
        [{"scalping",               \* scalping_mode_enabled: which engine
          "local",                  \* paper_execution_mode
          "emergency",              \* allow_emergency_stop_loss
          "profit_only",            \* profit_only_exit_enabled
          "scalping_guard",         \* scalping_profit_guard_enabled
          "holding_profit",         \* max_holding_sell_requires_profit
          "model_profit"}           \* model_sell_requires_profit
            -> BOOLEAN]
ASSUME PricesAssumption ==
    /\ Offset \in Nat
    /\ Prices \subseteq {p \in Nat : p > Offset}
ASSUME PercentsAssumption ==
    {EmergencyPct, StopLossPct, TakeProfitPct, TrailingPct, ArmPct, MinProfitPct}
        \subseteq 0..100
ASSUME AgesAssumption ==
    /\ MaxAge \in Nat \ {0}
    /\ MinHold \in 0..MaxAge

VARIABLES
    settings,   \* the configuration of the process
    held,       \* whether there is a position
    entry,      \* its average entry price
    fill,       \* _local_current_price: the last local fill
    highest,    \* _position_highest_price; 0 if none
    rows,       \* age of the newest order row of each side, or Never
    tried,      \* sides attempted on the current bar
    age,        \* history: true age of the position
    logged,     \* history: whether the position's buy has a row
    peak,       \* history: highest price since the buy that a reader of the
                \* position or the quote of a run met
    last        \* history: the exit decision the last step took, if any

memory == <<highest, tried>>
position == <<held, entry, fill>>
history == <<age, logged, peak>>
exitVars == <<settings, position, memory, rows, history, last>>

Sides == {"buy", "sell"}
Higher(p, q) == IF p > q THEN p ELSE q
Never == MaxAge + 1
Decision(reason, latest, quoted, placed) ==
    [reason |-> reason, latest |-> latest, quoted |-> quoted, placed |-> placed]
NoDecision == Decision("hold", 0, FALSE, FALSE)

ExitInit ==
    /\ settings \in Settings
    /\ held = FALSE
    /\ entry = 0
    /\ fill = 0
    /\ highest = 0
    /\ rows = [s \in Sides |-> Never]
    /\ tried = {}
    /\ age = 0
    /\ logged = TRUE
    /\ peak = 0
    /\ last = NoDecision

(***************************************************************************)
(* Reading the position: get_position_state                                *)
(***************************************************************************)

\* current_price of the position: Alpaca's, or that of the last local fill.
Reported == IF settings.local THEN {fill} ELSE Prices

\* Deviation: an empty position leaves the highest price alone.
SeenKeeping(reported) ==
    IF held THEN Higher(highest, Higher(entry, reported)) ELSE highest

\* The new highest price, from what the broker reports.
Seen(reported) == IF held THEN Higher(highest, Higher(entry, reported)) ELSE 0

\* Deviation: the newest row of either side dates the position.
OpenedAgeEitherSide ==
    LET ages == {rows[s] : s \in Sides} \ {Never}
    IN  IF ages = {} THEN 0 ELSE Min(ages)

\* Without a row of a buy, the position was opened just now.
OpenedAge == IF rows["buy"] = Never THEN 0 ELSE rows["buy"]

(***************************************************************************)
(* The rules                                                               *)
(***************************************************************************)

\* price is no more than base less a percentage; no less than base plus it.
Down(price, base, pct) == price * 100 <= base * (100 - pct)
Up(price, base, pct) == price * 100 >= base * (100 + pct)

InEmergency(latest) == Down(latest, entry, EmergencyPct)
Trails(latest, high) == Up(high, entry, ArmPct) /\ Down(latest, high, TrailingPct)

\* The rules in the order the engines ask for them.  What an engine does not
\* know never applies.
Ranking == <<"emergency_stop_loss", "take_profit", "trailing_stop",
             "max_position_age", "stop_loss", "stale_data", "signal">>

\* Whether a rule applies to the latest price, with the highest one seen
\* before; signal: weak quote or model in favour of selling.  At an emergency,
\* should_force_sell does not go on to its other rules, the classic engine to
\* nothing at all.
Applies(rule, latest, high, fresh, signal) ==
    CASE rule = "emergency_stop_loss" -> InEmergency(latest) /\ settings.emergency
      [] rule = "take_profit" -> ~InEmergency(latest) /\ Up(latest, entry, TakeProfitPct)
      [] rule = "trailing_stop" -> ~InEmergency(latest) /\ Trails(latest, Higher(high, latest))
      [] rule = "max_position_age" -> ~InEmergency(latest) /\ OpenedAge >= MaxAge
      [] rule = "stop_loss" -> settings.scalping /\ Down(latest, entry, StopLossPct)
      [] rule = "stale_data" -> settings.scalping /\ ~fresh
      [] rule = "signal" -> /\ signal
                            /\ IF settings.scalping THEN OpenedAge >= MinHold
                               ELSE ~InEmergency(latest)

Reason(latest, high, fresh, signal) ==
    LET met == {i \in 1..7 : Applies(Ranking[i], latest, high, fresh, signal)}
    IN  IF met = {} THEN "hold" ELSE Ranking[Min(met)]

Reasons(latest, high) ==
    {Reason(latest, high, fresh, signal) : fresh, signal \in BOOLEAN}

\* What a limit order to sell is expected to bring.
Profitable(latest) == Up(latest - Offset, entry, MinProfitPct)

\* Deviation: only sells on a signal wait for a profit.
NeedsProfitOnSignal(reason) == settings.profit_only /\ reason = "signal"

NeedsProfit(reason) ==
    /\ settings.profit_only
    /\ IF settings.scalping THEN reason = "signal" /\ settings.scalping_guard
       ELSE CASE reason = "emergency_stop_loss" -> FALSE
              [] reason = "max_position_age" -> settings.holding_profit
              [] reason = "signal" -> settings.model_profit
              [] OTHER -> TRUE

\* Deviation: one attempt per bar, whatever the reason.
IsDuplicateAlways(reason) == "sell" \in tried

\* Hard exits may be tried again on the same bar.
IsDuplicate(reason) == reason = "signal" /\ "sell" \in tried

Sells(reason, latest) ==
    /\ reason # "hold"
    /\ NeedsProfit(reason) => Profitable(latest)
    /\ ~IsDuplicate(reason)

(***************************************************************************)
(* Steps                                                                   *)
(***************************************************************************)

\* A reader of the position: the dashboard, or a run that does nothing with it.
ReadPosition ==
    /\ \E reported \in Reported :
        /\ highest' = Seen(reported)
        /\ peak' = IF held THEN Higher(peak, reported) ELSE peak
    /\ last' = NoDecision
    /\ UNCHANGED <<settings, position, tried, rows, age, logged>>

\* A run buys.  With Alpaca the row may fail to be written.
Buy ==
    /\ ~held /\ "buy" \notin tried
    /\ highest' = Seen(0)
    /\ tried' = tried \cup {"buy"}
    /\ held' = TRUE
    /\ \E latest \in Prices :
        /\ entry' = latest + Offset
        /\ fill' = IF settings.local THEN latest + Offset ELSE fill
        /\ peak' = latest + Offset
    /\ logged' \in IF settings.local THEN {TRUE} ELSE BOOLEAN
    /\ rows' = IF logged' THEN [rows EXCEPT !["buy"] = 0] ELSE rows
    /\ age' = 0
    /\ last' = NoDecision
    /\ UNCHANGED settings

\* A run's order to buy is canceled, or fails for want of a quote.
BuyInVain ==
    /\ ~held /\ "buy" \notin tried
    /\ highest' = Seen(0)
    /\ tried' = tried \cup {"buy"}
    /\ rows' \in {rows, [rows EXCEPT !["buy"] = 0]}
    /\ last' = NoDecision
    /\ UNCHANGED <<settings, position, history>>

\* What becomes of an order to sell: filled, partly filled or canceled.  With
\* no quote there is no limit price, and no order.
Sell(latest, quoted) ==
    /\ tried' = tried \cup {"sell"}
    /\ rows' = IF quoted THEN [rows EXCEPT !["sell"] = 0] ELSE rows
    /\ \/ held' \in (IF quoted THEN BOOLEAN ELSE {})
          /\ fill' = IF settings.local THEN latest - Offset ELSE fill
       \/ UNCHANGED <<held, fill>>
    /\ UNCHANGED entry

\* A run that finds a position.
Decide ==
    /\ held
    /\ \E reported \in Reported, latest \in Prices, quoted \in BOOLEAN :
        /\ highest' = Seen(reported)
        /\ peak' = Higher(peak, Higher(reported, IF quoted THEN latest ELSE 0))
        /\ \E reason \in Reasons(latest, Seen(reported)) :
            \/ /\ Sells(reason, latest)
               /\ Sell(latest, quoted)
               /\ last' = Decision(reason, latest, quoted, quoted)
            \/ /\ ~Sells(reason, latest)
               /\ last' = Decision(reason, latest, quoted, FALSE)
               /\ UNCHANGED <<position, tried, rows>>
    /\ UNCHANGED <<settings, age, logged>>

BarCloses ==
    /\ tried' = {}
    /\ last' = NoDecision
    /\ UNCHANGED <<settings, position, highest, rows, history>>

\* MaxAge stands for all that is older, and Never for a row that is not there.
OlderRow(ticks) == IF ticks < MaxAge THEN ticks + 1 ELSE ticks

RowsAge ==
    /\ rows' = [s \in Sides |-> OlderRow(rows[s])]
    /\ age' = OlderRow(age)
    /\ last' = NoDecision
    /\ UNCHANGED <<settings, position, memory, logged, peak>>

\* In local simulation the position and its last fill come back from the rows.
ProcessRestarts ==
    /\ highest' = 0
    /\ tried' = {}
    /\ last' = NoDecision
    /\ UNCHANGED <<settings, position, rows, history>>

ExitNext == ReadPosition \/ Buy \/ BuyInVain \/ Decide \/ BarCloses \/ RowsAge \/ ProcessRestarts

ExitSpec == ExitInit /\ [][ExitNext]_exitVars

(***************************************************************************)
(* Properties                                                              *)
(***************************************************************************)

ExitTypeOK ==
    /\ settings \in Settings
    /\ held \in BOOLEAN
    /\ {entry, fill, highest, peak} \subseteq Nat
    /\ rows \in [Sides -> 0..Never]
    /\ tried \subseteq Sides
    /\ age \in 0..MaxAge
    /\ logged \in BOOLEAN
    /\ last.placed => last.quoted /\ last.reason # "hold"

\* A trailing stop goes by this position's own highest price: that price was
\* beyond the arming profit, and the latest is the trailing distance below it.
\* The price kept between runs must not come from an earlier position.
TrailingIsEarned ==
    last.placed /\ last.reason = "trailing_stop" => Trails(last.latest, peak)

\* A run that meets a loss beyond a stop has an order placed, on the same bar
\* as an earlier attempt too, with stale data, and with the profit guard on.
StopsAreActedOn ==
    /\ last.quoted
    /\ \/ settings.scalping /\ Down(last.latest, entry, StopLossPct)
       \/ settings.emergency /\ InEmergency(last.latest)
    => last.placed

\* Without a profit guard, a run that meets a position of the maximum age has an
\* order placed, over restarts and after any number of attempts, unless a loss
\* calls for the emergency stop.
OldPositionsAreSold ==
    /\ last.quoted
    /\ logged /\ age >= MaxAge
    /\ ~InEmergency(last.latest)
    /\ ~settings.profit_only
    => last.placed

\* "With PROFIT_ONLY_EXIT_ENABLED=true, ... max-holding sells are held until the
\* estimated exit price" makes a profit: so does the classic engine, but the
\* scalping engine passes the guard by (scalping_decision_engine.py:331).
OldPositionsWaitForProfit ==
    /\ last.placed /\ last.reason = "max_position_age"
    /\ settings.profit_only /\ settings.holding_profit
    => Profitable(last.latest)

\* "The profit guard prevents non-emergency loss exits": the classic engine
\* with all of its guards on sells at a profit or in an emergency.
LossesNeedEmergency ==
    /\ last.placed
    /\ ~settings.scalping
    /\ settings.profit_only /\ settings.holding_profit /\ settings.model_profit
    => Profitable(last.latest) \/ (settings.emergency /\ InEmergency(last.latest))

\* The same without an allowed emergency, of either engine: "if it is false,
\* loss exits hold".
LossExitsHold ==
    last.placed /\ settings.profit_only /\ ~settings.emergency => last.latest >= entry

\* A run acts on a trailing stop that the prices of earlier runs have armed.
TrailingIsActedOn ==
    /\ last.quoted
    /\ settings.scalping
    /\ Trails(last.latest, peak)
    => last.placed

=============================================================================
