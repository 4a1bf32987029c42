-------------------------- MODULE TradeAccounting --------------------------
(***************************************************************************)
(* app/accounting/trade_accounting.py: a Trade row for every filled sell,  *)
(* made by matching the sells of the order table against its buys, first   *)
(* in first out, from the first order on, each time anew.                  *)
(*                                                                         *)
(* OrderLedger keeps quantities; here are prices, fees and slippage, in    *)
(* integers that the shares of every order divide.  An order's time is its *)
(* place in the table.  A price the broker does not tell is 0.             *)
(***************************************************************************)
EXTENDS Loops, FiniteSetsExt

CONSTANTS
    Quantities, FillPrices, \* of a filled order
    Basis,                  \* a fee or slippage is this part of the notional,
    FlatFee,                \* unless the broker says what it charges
    MaxFilled               \* bound: filled orders

ASSUME AccountingAssumption ==
    /\ Quantities \subseteq Nat \ {0} /\ FillPrices \subseteq Nat
    /\ Basis \in Nat \ {0} /\ {FlatFee, MaxFilled} \subseteq Nat

VARIABLES
    costs,      \* who applies slippage, and who sets the fee
    filled,     \* the filled orders of the table, in the order of time
    unrecorded, \* the order whose run has not come to the accounting yet, or 0
    tradeRows   \* the Trade rows, by the order that made them

accountVars == <<costs, filled, unrecorded, tradeRows>>

Sums == [qty |-> 0, gross |-> 0, net |-> 0, fees |-> 0]

AccountInit ==
    /\ costs \in {[slippage |-> "broker", fee |-> "broker"],    \* a local simulation
                 [slippage |-> "assumed", fee |-> "broker"],
                 [slippage |-> "assumed", fee |-> "assumed"]}
    /\ filled = <<>> /\ unrecorded = 0 /\ tradeRows = <<>>

\* None, if the broker does not say at which price it filled.
Executed(order) == order.price > 0

Slippage(price) == IF costs.slippage = "broker" THEN 0 ELSE price \div Basis
Effective(order) ==
    IF order.side = "buy" THEN order.price + Slippage(order.price)
    ELSE order.price - Slippage(order.price)
Fee(order) ==
    IF costs.fee = "broker" THEN FlatFee ELSE (order.qty * order.price) \div Basis

(***************************************************************************)
(* Matching                                                                *)
(***************************************************************************)

\* A lot knows when it was bought: the place of the buy in the table.
Lot(buy, at) ==
    [at |-> at, qty |-> buy.qty, price |-> buy.price, effective |-> Effective(buy), fee |-> Fee(buy)]

\* Deviation: the share of the whole sell, in what is left of its fee.
ExitFeeOfWhole(state, sell, matched) ==
    IF state.qty = 0 THEN 0 ELSE (state.fee * matched) \div sell.qty

ExitFee(state, sell, matched) ==
    IF state.qty = 0 THEN 0 ELSE (state.fee * matched) \div state.qty

EntryFee(lot, matched) == (lot.fee * matched) \div lot.qty

\* One lot more; what the sell leaves of it stays open.
MatchLot(state, sell, lot) ==
    LET matched == Min({state.qty, lot.qty})
        entryFee == EntryFee(lot, matched)
        exitFee == ExitFee(state, sell, matched)
        sums == state.sums
    IN  [qty |-> state.qty - matched,
         fee |-> state.fee - exitFee,
         open |-> IF matched = lot.qty THEN state.open
                  ELSE Append(state.open, [lot EXCEPT !.qty = @ - matched, !.fee = @ - entryFee]),
         sums |-> [qty |-> sums.qty + matched,
                   gross |-> sums.gross + matched * (sell.price - lot.price),
                   net |-> sums.net + matched * (Effective(sell) - lot.effective)
                                    - exitFee - entryFee,
                   fees |-> sums.fees + entryFee + exitFee]]

Match(sell, lots) ==
    LET after[k \in 0..Len(lots)] ==
            IF k = 0 THEN [qty |-> sell.qty, fee |-> Fee(sell), open |-> <<>>, sums |-> Sums]
            ELSE MatchLot(after[k - 1], sell, lots[k])
    IN  after[Len(lots)]

\* One order more.
Processed(lots, order, at) ==
    IF ~Executed(order) THEN lots
    ELSE IF order.side = "buy" THEN Append(lots, Lot(order, at))
    ELSE Match(order, lots).open

\* The lots still open after the first n orders.
OpenLots(n) ==
    LET lots[k \in 0..n] ==
            IF k = 0 THEN <<>> ELSE Processed(lots[k - 1], filled[k], k)
    IN  lots[n]

Realized(at) == Match(filled[at], OpenLots(at - 1)).sums

(***************************************************************************)
(* Behaviour                                                               *)
(***************************************************************************)

\* An order that the broker has filled gets its row, and under the same lock
\* its run comes to the accounting once an alert is out.
OrderFilled ==
    /\ unrecorded = 0
    /\ Len(filled) < MaxFilled
    /\ \E side \in {"buy", "sell"}, qty \in Quantities, price \in FillPrices :
          filled' = Append(filled, [side |-> side, qty |-> qty, price |-> price])
    /\ unrecorded' = Len(filled')
    /\ UNCHANGED <<costs, tradeRows>>

RecordTrade ==
    /\ unrecorded # 0
    /\ unrecorded' = 0
    /\ LET order == filled[unrecorded]
       IN  tradeRows' =
            IF Executed(order) /\ order.side = "sell" /\ Realized(unrecorded).qty > 0
            THEN Append(tradeRows, [order |-> unrecorded, sums |-> Realized(unrecorded)])
            ELSE tradeRows
    /\ UNCHANGED <<costs, filled>>

\* The row cannot be written, or the process dies before: nothing goes through
\* the table again.
RecordFails ==
    /\ unrecorded # 0
    /\ unrecorded' = 0
    /\ UNCHANGED <<costs, filled, tradeRows>>

AccountNext == OrderFilled \/ RecordTrade \/ RecordFails

AccountSpec == AccountInit /\ [][AccountNext]_accountVars

(***************************************************************************)
(* Properties                                                              *)
(***************************************************************************)

AccountTypeOK ==
    /\ filled \in Seq([side : {"buy", "sell"}, qty : Quantities, price : FillPrices])
    /\ unrecorded \in DOMAIN filled \cup {0}
    /\ \A i \in DOMAIN tradeRows : tradeRows[i].order \in DOMAIN filled

Executions(side) == {at \in DOMAIN filled : filled[at].side = side /\ Executed(filled[at])}
Turnover(side, n) == Total([at \in 1..n |-> IF at \in Executions(side) THEN filled[at].qty ELSE 0], n)
Bought(n) == Turnover("buy", n)
Sold(n) == Turnover("sell", n)
Covered == \A at \in Executions("sell") : Sold(at) <= Bought(at)

\* The money an order moves, and what it costs to trade.
Money(at) ==
    CASE at \in Executions("buy") -> -(filled[at].qty * Effective(filled[at])) - Fee(filled[at])
      [] at \in Executions("sell") -> filled[at].qty * Effective(filled[at]) - Fee(filled[at])
      [] OTHER -> 0
Costs(at) == IF Executed(filled[at]) THEN Fee(filled[at]) ELSE 0

\* What the lots hold, what they have cost, and how much of that is fees.
Units(lots) == Total([i \in DOMAIN lots |-> lots[i].qty], Len(lots))
BookValue(lots) == Total([i \in DOMAIN lots |-> lots[i].qty * lots[i].effective + lots[i].fee], Len(lots))
FeesLeft(lots) == Total([i \in DOMAIN lots |-> lots[i].fee], Len(lots))

Earned == Total([r \in DOMAIN tradeRows |-> tradeRows[r].sums.net], Len(tradeRows))
Charged == Total([r \in DOMAIN tradeRows |-> tradeRows[r].sums.fees], Len(tradeRows))
Recorded == Total([r \in DOMAIN tradeRows |-> tradeRows[r].sums.qty], Len(tradeRows))

\* The books balance: once every sell has its row, what the rows have earned is
\* the money that came in less the money that went out, but for what the lots
\* still open have cost, fees and slippage included; and however sells are
\* split, left out, or sell what was never bought, no unit bought is realized
\* twice or while it is held, and no fee is charged twice.
BooksBalance ==
    LET all == Len(filled)
        lots == OpenLots(all)
    IN  /\ Covered /\ Executions("sell") = {tradeRows[r].order : r \in DOMAIN tradeRows} =>
            Earned = Total([at \in 1..all |-> Money(at)], all) + BookValue(lots)
        /\ Recorded + Units(lots) <= Bought(all)
        /\ Charged + FeesLeft(lots) <= Total([at \in 1..all |-> Costs(at)], all)

\* What is left of a buy are the units that the units sold so far do not reach.
Unsold(at) == Max({0, Min({filled[at].qty, Bought(at) - Sold(Len(filled))})})

\* First in first out: the lots still open are what is left of the units bought
\* last, each with its share of the fee of its buy.
LastBoughtIsHeld ==
    LET lots == OpenLots(Len(filled))
    IN  Covered =>
            /\ \A at \in Executions("buy") :
                    Unsold(at) > 0 => \E i \in DOMAIN lots : lots[i].at = at
            /\ \A i \in DOMAIN lots :
                    LET buy == filled[lots[i].at]
                    IN  /\ lots[i].at \in Executions("buy")
                        /\ lots[i].qty = Unsold(lots[i].at)
                        /\ lots[i].fee * buy.qty = Fee(buy) * lots[i].qty
            /\ \A i, j \in DOMAIN lots : i < j => lots[i].at < lots[j].at

=============================================================================
