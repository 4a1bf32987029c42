------------------------------- MODULE Trader -------------------------------
(***************************************************************************)
(* The order pipeline: Trader.run_once of app/services/trader.py, with the *)
(* broker client of app/broker/alpaca_client.py it drives, the order table *)
(* it writes and the broker on the other side of the network.              *)
(*                                                                         *)
(* Everything runs on one asyncio loop, so code between two awaits that    *)
(* really suspend is one atomic action, and pc names the await a coroutine *)
(* is suspended in.  The coroutines are the runs of the scheduler loop and *)
(* of POST /run-once (Callers) and the readers of GET /position and of the *)
(* dashboard (Viewers); they share one Trader and one AlpacaClient.        *)
(*                                                                         *)
(* The configuration is TRADING_ENABLED=true in scalping mode with its     *)
(* kill switch on.  What the model, the quote and the strategies make of   *)
(* the market is left to choice: an engine may always hold, may sell any   *)
(* position, and may buy whenever the guards let it.                       *)
(***************************************************************************)
EXTENDS OrderLedger

CONSTANTS
    Callers,    \* coroutines that execute run_once
    Viewers,    \* coroutines that only execute get_position_state
    LocalSim,   \* paper_execution_mode = "local_simulated"
    Faults,     \* which steps may fail, see below
    Crashes,    \* whether the process may die and be restarted
    SlowRuns,   \* whether a run may take longer than the trade cooldown
    Lot,        \* units a buy of order_notional_usd asks for
    MaxHeld,    \* bound: units the account can pay for
    MaxBar,     \* bound: number of bars that close
    MaxRows     \* bound: rows of the order table

\* "position": the position request fails.     "signal": _store_signal raises.
\* "quote": no limit price can be derived.      "post": POST /v2/orders fails
\* "row": add_order raises.                     or its reply is lost.
\* "trade": recording the trade raises.
FaultKinds == {"position", "signal", "quote", "post", "row", "trade"}

ASSUME ActorsAssumption == Callers \cap Viewers = {}
ASSUME ModeAssumption == {LocalSim, Crashes, SlowRuns} \subseteq BOOLEAN
ASSUME FaultsAssumption == Faults \subseteq FaultKinds
ASSUME BoundsAssumption ==
    /\ Lot \in Nat \ {0}
    /\ MaxHeld \in Nat /\ MaxBar \in Nat \ {0} /\ MaxRows \in Nat

VARIABLES
    pc,             \* the await each coroutine is suspended in
    position,       \* position.qty as the coroutine last read it
    bar,            \* latest_bar_timestamp of the run; 0 before the first
    since,          \* history: how many orders there were when the run started
    side, hard,     \* the decision; hard if its reason is a hard risk exit
    response,       \* order_response, what became of the order, and its row
    order_lock,     \* _order_lock.locked(): an asyncio.Lock has no owner
    last_attempt,   \* _last_order_attempt_bar_by_side; 0 is no entry
    position_cache, \* _position_cache[BTC/USD]: no entry, or its quantity
    local_qty,      \* _local_position_qty
    held,           \* external: units in the Alpaca account
    resting,        \* external: units of accepted orders not yet executed
    orders,         \* the order table
    aged,           \* how many of its oldest rows outlived the cooldown
    trades,         \* the realized Trade rows: order row and quantity
    latest_bar,     \* the bar the market data client answers with
    attempted       \* history: non-hard attempts of this process

locals == <<position, bar, since, side, hard, response>>
coroutines == <<pc, locals>>
memory == <<order_lock, last_attempt, position_cache, local_qty>>
broker == <<held, resting>>
database == <<orders, aged, trades>>
market == <<latest_bar, attempted>>
vars == <<coroutines, memory, broker, database, market>>

Actors == Callers \cup Viewers
Bars == 1..MaxBar

\* The stages of a caller whose order was approved, in order.
OrderStages == {"signal", "posting", "replying", "checking", "order_alert"}
Stages == {"idle", "position", "requested", "answered", "account"} \cup OrderStages

\* status and filled are what the reply said, final what a later status
\* request would say, row the Order row written for it.
Responses == [status : Statuses, filled : Nat, final : Statuses, row : Nat]
NoResponse == [status |-> "new", filled |-> 0, final |-> "new", row |-> 0]

Init ==
    /\ pc = [a \in Actors |-> "idle"]
    /\ position = [a \in Actors |-> 0]
    /\ bar = [a \in Actors |-> 0]
    /\ since = [a \in Actors |-> 0]
    /\ side = [a \in Actors |-> "none"]
    /\ hard = [a \in Actors |-> FALSE]
    /\ response = [a \in Actors |-> NoResponse]
    /\ order_lock = FALSE
    /\ last_attempt = [s \in Sides |-> 0]
    /\ position_cache = {}
    /\ local_qty = 0
    /\ held = 0
    /\ resting = [s \in Sides |-> 0]
    /\ orders = <<>>
    /\ aged = 0
    /\ trades = {}
    /\ latest_bar = 1
    /\ attempted = {}

Goto(a, stage) == pc' = [pc EXCEPT ![a] = stage]

\* The coroutine returns or raises: its locals are gone.
End(a) ==
    /\ Goto(a, "idle")
    /\ position' = [position EXCEPT ![a] = 0]
    /\ bar' = [bar EXCEPT ![a] = 0]
    /\ since' = [since EXCEPT ![a] = 0]
    /\ side' = [side EXCEPT ![a] = "none"]
    /\ hard' = [hard EXCEPT ![a] = FALSE]
    /\ response' = [response EXCEPT ![a] = NoResponse]

\* The coroutine learns the position.  A viewer only wanted to report it.
Learn(a, qty) ==
    IF a \in Viewers
    THEN End(a)
    ELSE /\ Goto(a, "account")
         /\ position' = [position EXCEPT ![a] = qty]
         /\ UNCHANGED <<bar, since, side, hard, response>>

(***************************************************************************)
(* Reading the market and the position: run_once up to _account_payload.   *)
(***************************************************************************)

\* The bars are read before the position; only their timestamp is kept.
StartRun(c) ==
    /\ pc[c] = "idle"
    /\ Goto(c, "position")
    /\ bar' = [bar EXCEPT ![c] = latest_bar]
    /\ since' = [since EXCEPT ![c] = IF SlowRuns THEN 0 ELSE Len(orders)]
    /\ UNCHANGED <<position, side, hard, response, memory, broker, database, market>>

StartView(v) ==
    /\ pc[v] = "idle"
    /\ Goto(v, "position")
    /\ UNCHANGED <<locals, memory, broker, database, market>>

\* Deviation: the position is not restored from the order table.
ReadLocalPositionUnrestored(a) ==
    /\ LocalSim /\ pc[a] = "position"
    /\ Learn(a, local_qty)
    /\ UNCHANGED <<memory, broker, database, market>>

\* Local mode answers from memory; a position memory does not know is rebuilt
\* from the order table and put back into the client.
ReadLocalPosition(a) ==
    /\ LocalSim /\ pc[a] = "position"
    /\ local_qty' = IF local_qty > 0 THEN local_qty ELSE OpenQty(orders, Len(orders))
    /\ Learn(a, local_qty')
    /\ UNCHANGED <<order_lock, last_attempt, position_cache, broker, database, market>>

ReadCachedPosition(a) ==
    /\ ~LocalSim /\ pc[a] = "position"
    /\ \E qty \in position_cache : Learn(a, qty)
    /\ UNCHANGED <<memory, broker, database, market>>

RequestPosition(a) ==
    /\ ~LocalSim /\ pc[a] = "position"
    /\ position_cache = {}
    /\ Goto(a, "requested")
    /\ UNCHANGED <<locals, memory, broker, database, market>>

\* The broker looks the position up; the answer is now on its way.
AnswerPosition(a) ==
    /\ pc[a] = "requested"
    /\ Goto(a, "answered")
    /\ position' = [position EXCEPT ![a] = held]
    /\ UNCHANGED <<bar, since, side, hard, response, memory, broker, database, market>>

ReceivePosition(a) ==
    /\ pc[a] = "answered"
    /\ position_cache' = {position[a]}
    /\ Learn(a, position[a])
    /\ UNCHANGED <<order_lock, last_attempt, local_qty, broker, database, market>>

PositionFails(a) ==
    /\ "position" \in Faults
    /\ pc[a] \in {"requested", "answered"}
    /\ End(a)
    /\ UNCHANGED <<memory, broker, database, market>>

(***************************************************************************)
(* Deciding: from the account reply to the end of _guard_order_decision    *)
(* nothing suspends (the lock is free when acquire is called, so wait_for  *)
(* returns at once), hence the ledger is read and the lock taken in one    *)
(* step.  The account only informs choices that are left open.             *)
(***************************************************************************)

\* _is_duplicate_bar_order_attempt
IsDuplicate(c, wanted, forced) == ~forced /\ last_attempt[wanted] = bar[c]

\* Deviation: the guard forgets to look at the lock.
ApproveUnlocked(c, wanted, forced) ==
    /\ pc[c] = "account"
    /\ Len(orders) < MaxRows
    /\ ~IsDuplicate(c, wanted, forced)
    /\ order_lock' = TRUE
    /\ Goto(c, "signal")
    /\ side' = [side EXCEPT ![c] = wanted]
    /\ hard' = [hard EXCEPT ![c] = forced]
    /\ UNCHANGED <<position, bar, since, response, last_attempt, position_cache, local_qty, broker, database, market>>

Approve(c, wanted, forced) ==
    /\ pc[c] = "account"
    /\ Len(orders) < MaxRows
    /\ ~IsDuplicate(c, wanted, forced)
    /\ ~order_lock
    /\ order_lock' = TRUE
    /\ Goto(c, "signal")
    /\ side' = [side EXCEPT ![c] = wanted]
    /\ hard' = [hard EXCEPT ![c] = forced]
    /\ UNCHANGED <<position, bar, since, response, last_attempt, position_cache, local_qty, broker, database, market>>

\* Deviation: a buy is only stopped by the ledger.
ApproveBuyHolding(c) ==
    /\ LedgerAllowsBuy(orders, aged)
    /\ Approve(c, "buy", FALSE)

ApproveBuy(c) ==
    /\ position[c] = 0
    /\ LedgerAllowsBuy(orders, aged)
    /\ Approve(c, "buy", FALSE)

\* Sells are not limited by the ledger.
ApproveSell(c, forced) ==
    /\ position[c] > 0
    /\ Approve(c, "sell", forced)

\* Deviation: the run lets go of the lock whoever holds it.
HoldReleasing(c) ==
    /\ pc[c] = "account"
    /\ End(c)
    /\ order_lock' = FALSE
    /\ UNCHANGED <<last_attempt, position_cache, local_qty, broker, database, market>>

\* The engine holds, or a guard turned the order into a hold.  The alerts and
\* the signal row that follow leave nothing behind the model keeps.
Hold(c) ==
    /\ pc[c] = "account"
    /\ End(c)
    /\ UNCHANGED <<memory, broker, database, market>>

(***************************************************************************)
(* Submitting: from the alerts that precede _store_signal to the release.  *)
(***************************************************************************)

\* The finally clause: the lock is released and the run is over.
Release(c) == order_lock' = FALSE /\ End(c)

\* _store_signal raises.  The lock was taken before the try whose finally
\* would release it, so it stays taken.
StoreSignalFails(c) ==
    /\ "signal" \in Faults
    /\ pc[c] = "signal"
    /\ End(c)
    /\ UNCHANGED <<memory, broker, database, market>>

\* Deviation: hard exits and other attempts share nothing, so a hard exit
\* clears what was remembered for the side.
RememberUnlessHard(c) ==
    /\ last_attempt' = [last_attempt EXCEPT ![side[c]] =
                           IF hard[c] THEN 0 ELSE bar[c]]
    /\ attempted' = IF hard[c] THEN attempted
                    ELSE attempted \cup {<<side[c], bar[c]>>}
    /\ UNCHANGED latest_bar

\* _remember_order_attempt_bar, as submit_order is about to be called.
Remember(c) ==
    /\ last_attempt' = [last_attempt EXCEPT ![side[c]] = bar[c]]
    /\ attempted' = IF hard[c] THEN attempted
                    ELSE attempted \cup {<<side[c], bar[c]>>}
    /\ UNCHANGED latest_bar

\* Deviation: the price is derived outside the try.
LimitPriceMissingUnreleased(c) ==
    /\ "quote" \in Faults
    /\ pc[c] = "signal"
    /\ Remember(c)
    /\ End(c)
    /\ UNCHANGED <<order_lock, position_cache, local_qty, broker, database>>

LimitPriceMissing(c) ==
    /\ "quote" \in Faults
    /\ pc[c] = "signal"
    /\ Remember(c)
    /\ Release(c)
    /\ UNCHANGED <<position_cache, local_qty, broker, database>>

\* Deviation: both sides ask for the configured order size.
RequestedAlwaysLot(c) == Lot

\* A buy asks for order_notional_usd, a sell for the position it read.
Requested(c) == IF side[c] = "buy" THEN Lot ELSE position[c]

FinalStatus(filled, requested) ==
    IF filled = 0 THEN "canceled"
    ELSE IF filled = requested THEN "filled" ELSE "partially_filled"

\* add_order: the row for the order the caller has the response of.
AddOrder(c, status, filled) ==
    /\ orders' = Append(orders, NewRow(orders, side[c], status, filled))
    /\ response' = [response EXCEPT ![c] =
                       [status |-> status, filled |-> filled,
                        final |-> response[c].final, row |-> Len(orders) + 1]]
    /\ Goto(c, "order_alert")
    /\ UNCHANGED <<position, bar, since, side, hard, order_lock>>

AddOrderFails(c) == "row" \in Faults /\ Release(c) /\ UNCHANGED orders

\* _apply_local_fill
ApplyLocalFill(c, filled) ==
    IF side[c] = "buy" THEN local_qty + filled ELSE Reduced(local_qty, filled)

\* Local mode never suspends between the attempt and the stored row: the
\* quote decides how much of the order is filled at once.
SubmitLocalOrder(c) ==
    /\ LocalSim /\ pc[c] = "signal"
    /\ Remember(c)
    /\ \E filled \in 0..Requested(c) :
        /\ ApplyLocalFill(c, filled) <= MaxHeld
        /\ local_qty' = ApplyLocalFill(c, filled)
        /\ \/ AddOrder(c, FinalStatus(filled, Requested(c)), filled)
           \/ AddOrderFails(c)
    /\ UNCHANGED <<position_cache, broker, aged, trades>>

\* Alpaca mode waits for the rate limiter and then for the broker.
PostOrder(c) ==
    /\ ~LocalSim /\ pc[c] = "signal"
    /\ Remember(c)
    /\ Goto(c, "posting")
    /\ UNCHANGED <<locals, order_lock, position_cache, local_qty, broker, database>>

\* External: the account has the funds, or the units not already on offer.
Affordable(c) ==
    IF side[c] = "buy"
    THEN held + resting["buy"] + Requested(c) <= MaxHeld
    ELSE Requested(c) <= held - resting["sell"]

\* The broker executes the order at once, all of it, a part, or nothing; its
\* reply may have been made before that was known.
BrokerExecutes(c) ==
    /\ pc[c] = "posting" /\ Affordable(c)
    /\ \E filled \in 0..Requested(c) :
        /\ held' = IF side[c] = "buy" THEN held + filled ELSE held - filled
        /\ LET final == FinalStatus(filled, Requested(c))
           IN  \E reply \in {<<final, filled>>, <<"new", 0>>} :
                  response' = [response EXCEPT ![c] =
                                  [status |-> reply[1], filled |-> reply[2],
                                   final |-> final, row |-> 0]]
    /\ Goto(c, "replying")
    /\ UNCHANGED <<position, bar, since, side, hard, memory, resting, database, market>>

\* A limit order that is not immediate-or-cancel may wait in the book.
BrokerRests(c) ==
    /\ ~LimitIoc
    /\ pc[c] = "posting" /\ Affordable(c)
    /\ resting' = [resting EXCEPT ![side[c]] = @ + Requested(c)]
    /\ Goto(c, "replying")
    /\ UNCHANGED <<locals, memory, held, database, market>>

RestingExecutes(s) ==
    /\ resting[s] > 0
    /\ resting' = [resting EXCEPT ![s] = 0]
    /\ held' = IF s = "buy" THEN held + resting[s] ELSE held - resting[s]
    /\ UNCHANGED <<coroutines, memory, database, market>>

\* An error status makes submit_order raise.
BrokerRefuses(c) ==
    /\ pc[c] = "posting" /\ ~Affordable(c)
    /\ Release(c)
    /\ UNCHANGED <<last_attempt, position_cache, local_qty, broker, database, market>>

\* The request or its reply is lost, with or without the order executed; the
\* exception leaves before the position cache is invalidated.
PostFails(c) ==
    /\ "post" \in Faults
    /\ pc[c] \in {"posting", "replying"}
    /\ Release(c)
    /\ UNCHANGED <<last_attempt, position_cache, local_qty, broker, database, market>>

ReceiveReply(c) ==
    /\ pc[c] = "replying"
    /\ position_cache' = {}
    /\ Goto(c, "checking")
    /\ UNCHANGED <<locals, order_lock, last_attempt, local_qty, broker, database, market>>

\* _maybe_check_order_status either learns the final status, and the status
\* alone, or gives up (soft API budget, a failed request).  The row follows.
CheckStatus(c) ==
    /\ pc[c] = "checking"
    /\ position_cache' = {}
    /\ \/ \E status \in {response[c].status, response[c].final} :
             AddOrder(c, status, response[c].filled)
       \/ AddOrderFails(c)
    /\ UNCHANGED <<last_attempt, local_qty, broker, aged, trades, market>>

\* Deviation: a partial fill waits for its order to be complete.
FinishOnlyComplete(c) ==
    /\ pc[c] = "order_alert"
    /\ LET row == response[c].row
           qty == RealizedQty(orders, row)
       IN  trades' = trades \cup
              (IF qty > 0 /\ orders[row].status = "filled" THEN {[row |-> row, qty |-> qty]} ELSE {})
    /\ Release(c)
    /\ UNCHANGED <<last_attempt, position_cache, local_qty, broker, orders, aged, market>>

\* record_filled_order_trade, once the order alert is out, and the release.
Finish(c) ==
    /\ pc[c] = "order_alert"
    /\ LET row == response[c].row
           qty == RealizedQty(orders, row)
       IN  \/ trades' = trades \cup (IF qty > 0 THEN {[row |-> row, qty |-> qty]} ELSE {})
           \/ "trade" \in Faults /\ qty > 0 /\ UNCHANGED trades
    /\ Release(c)
    /\ UNCHANGED <<last_attempt, position_cache, local_qty, broker, orders, aged, market>>

(***************************************************************************)
(* Time and crashes.                                                       *)
(***************************************************************************)

\* position_cache_seconds pass.
CacheExpires ==
    /\ position_cache # {}
    /\ position_cache' = {}
    /\ UNCHANGED <<coroutines, order_lock, last_attempt, local_qty, broker, database, market>>

\* A run that read the market before row n was written is yet to decide.
RunSpans(n) ==
    \E c \in Callers :
        pc[c] \in {"position", "requested", "answered", "account"} /\ since[c] < n

\* min_seconds_between_trades pass since one more row.
RowAges ==
    /\ aged < Len(orders)
    /\ SlowRuns \/ ~RunSpans(aged + 1)
    /\ aged' = aged + 1
    /\ UNCHANGED <<coroutines, memory, broker, orders, trades, market>>

BarCloses ==
    /\ latest_bar < MaxBar
    /\ latest_bar' = latest_bar + 1
    /\ UNCHANGED <<coroutines, memory, broker, database, attempted>>

\* The process dies and is started again: only the database and the broker
\* remember.  Every run is gone, wherever it stood.
Restart ==
    /\ Crashes
    /\ pc' = [a \in Actors |-> "idle"]
    /\ position' = [a \in Actors |-> 0]
    /\ bar' = [a \in Actors |-> 0]
    /\ since' = [a \in Actors |-> 0]
    /\ side' = [a \in Actors |-> "none"]
    /\ hard' = [a \in Actors |-> FALSE]
    /\ response' = [a \in Actors |-> NoResponse]
    /\ order_lock' = FALSE
    /\ last_attempt' = [s \in Sides |-> 0]
    /\ position_cache' = {}
    /\ local_qty' = 0
    /\ attempted' = {}
    /\ UNCHANGED <<broker, database, latest_bar>>

ReadStep(a) ==
    \/ ReadLocalPosition(a) \/ ReadCachedPosition(a) \/ RequestPosition(a)
    \/ AnswerPosition(a) \/ ReceivePosition(a) \/ PositionFails(a)

DecideStep(c) == ApproveBuy(c) \/ (\E forced \in BOOLEAN : ApproveSell(c, forced)) \/ Hold(c)

SubmitStep(c) ==
    \/ StoreSignalFails(c) \/ LimitPriceMissing(c) \/ SubmitLocalOrder(c)
    \/ PostOrder(c) \/ BrokerExecutes(c) \/ BrokerRests(c) \/ BrokerRefuses(c)
    \/ PostFails(c) \/ ReceiveReply(c) \/ CheckStatus(c) \/ Finish(c)

CallerStep(c) == StartRun(c) \/ DecideStep(c) \/ SubmitStep(c)

EnvironmentStep ==
    \/ CacheExpires \/ RowAges \/ BarCloses \/ Restart
    \/ \E s \in Sides : RestingExecutes(s)

Next ==
    \/ \E a \in Actors : ReadStep(a)
    \/ \E v \in Viewers : StartView(v)
    \/ \E c \in Callers : CallerStep(c)
    \/ EnvironmentStep

Spec == Init /\ [][Next]_vars

(***************************************************************************)
(* Fairness: a coroutine that waits is resumed.  Every HTTP request has a  *)
(* timeout, the rate limiter lets waiters through (module RateLimiter) and *)
(* alert failures are swallowed.  Nobody is obliged to start a run.        *)
(***************************************************************************)
Progress(a) ==
    /\ pc[a] # "idle"
    /\ ReadStep(a) \/ (a \in Callers /\ (DecideStep(a) \/ SubmitStep(a)))

FairSpec == Spec /\ \A a \in Actors : WF_vars(Progress(a))

(***************************************************************************)
(* Properties                                                              *)
(***************************************************************************)

TypeOK ==
    /\ pc \in [Actors -> Stages]
    /\ position \in [Actors -> Nat]
    /\ bar \in [Actors -> 0..MaxBar]
    /\ since \in [Actors -> Nat]
    /\ side \in [Actors -> Sides \cup {"none"}]
    /\ hard \in [Actors -> BOOLEAN]
    /\ response \in [Actors -> Responses]
    /\ order_lock \in BOOLEAN
    /\ last_attempt \in [Sides -> 0..MaxBar]
    /\ position_cache \in SUBSET Nat
    /\ local_qty \in Nat
    /\ held \in 0..MaxHeld
    /\ resting \in [Sides -> Nat]
    /\ orders \in Seq(Rows)
    /\ aged \in Nat
    /\ trades \in SUBSET [row : Nat, qty : Nat]
    /\ latest_bar \in Bars
    /\ attempted \in SUBSET (Sides \X Bars)

InFlight(c) == pc[c] \in OrderStages

\* At most one run is ever between the approval of its order and the end of
\* the run, and the lock is taken as long as there is one, whatever fails in
\* between: although an asyncio.Lock has no owner, no run releases another's.
OneOrderInFlight ==
    /\ \A c \in Callers : InFlight(c) => order_lock
    /\ \A c, d \in Callers : InFlight(c) /\ InFlight(d) => c = d

\* The limits are checked before alerts, the rate limiter and the broker are
\* waited for; the approval is still good when the order is finally placed,
\* because nobody else can add a row meanwhile.
ApprovalStaysValid ==
    \A c \in Callers :
        InFlight(c) /\ side[c] = "buy" /\ response[c].row = 0
            => LedgerAllowsBuy(orders, aged)

\* In the table itself: no buy is attempted once the day's attempts are used
\* up, and none follows a streak of canceled limit/ioc orders, over restarts.
BuysWithinLimits ==
    \A i \in DOMAIN orders :
        orders[i].side = "buy" =>
            /\ i <= MaxAttempts
            /\ ~CancelStreakReached(orders, i - 1)

\* A BUY or non-hard SELL is about to be attempted only on a bar this process
\* has not yet attempted that side on: although one bar per side is remembered.
OneAttemptPerBar ==
    \A c \in Callers :
        pc[c] = "signal" /\ ~hard[c] => <<side[c], bar[c]>> \notin attempted

Exposure == IF LocalSim THEN local_qty ELSE held

\* No averaging down, one open position: what is held only grows from nothing.
NoAveragingDown == [][Exposure' > Exposure => Exposure = 0]_vars

\* No short selling: every filled sell of the table is covered by what the
\* rows before it left open.
SellsAreCovered ==
    \A i \in DOMAIN orders :
        orders[i].side = "sell" /\ IsFilled(orders[i])
            => orders[i].filled <= Replay(orders, i - 1)

\* The total carried along with the rows is what a replay from nothing finds.
TotalsAreReplay ==
    \A i \in DOMAIN orders : OpenQty(orders, i) = Replay(orders, i)

\* What local mode holds in memory is what the table would restore: a crash
\* at any moment loses no part of the position and invents none.
MemoryMatchesLedger == local_qty # 0 => local_qty = OpenQty(orders, Len(orders))

Recording(i) == \E c \in Callers : pc[c] = "order_alert" /\ response[c].row = i

\* A run that placed a filled SELL does not end without its Trade row, for all
\* of the quantity that the order filled, unless the process dies.
FilledSellsAreRealized ==
    [][\A i \in DOMAIN orders :
          (orders[i].side = "sell" /\ IsFilled(orders[i]) /\ Recording(i) /\ ~Recording(i)')
              => [row |-> i, qty |-> orders[i].filled] \in trades' \/ Restart]_vars

\* An order in flight does not stay in flight: the lock is always released.
LockIsReleased == order_lock ~> ~order_lock

=============================================================================
