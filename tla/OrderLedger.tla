---------------------------- MODULE OrderLedger ----------------------------
(***************************************************************************)
(* The `orders` table and the questions the trading pipeline asks of it:   *)
(* app/db/repository.py and app/accounting/trade_accounting.py.            *)
(*                                                                         *)
(* A ledger is the sequence of Order rows in (created_at, id) order.  Rows *)
(* are only ever appended, and never updated afterwards.  Quantities are   *)
(* whole units of an arbitrary small lot.  A timestamp is kept only as far *)
(* as a query uses one: see CoolingDown.                                   *)
(***************************************************************************)
EXTENDS Naturals, Sequences

CONSTANTS
    LimitIoc,       \* order_type/time_in_force is limit/ioc (the default)
    MaxAttempts,    \* max_order_attempts_per_day
    CancelLimit     \* max_consecutive_ioc_cancels

ASSUME LimitIocAssumption == LimitIoc \in BOOLEAN
ASSUME MaxAttemptsAssumption == MaxAttempts \in Nat \ {0}
ASSUME CancelLimitAssumption == CancelLimit \in Nat \ {0}

Sides == {"buy", "sell"}

\* "new" stands for every state in which the broker has not finished.
Statuses == {"new", "filled", "partially_filled", "canceled"}

\* `filled` is the filled_qty of the stored raw_response: what the broker's
\* first reply said, not what was executed in the end.  `open` is no column:
\* it is what a replay of the table up to this row leaves open.  Rows never
\* change, so the total is carried along and a replay becomes a lookup.
Rows == [side : Sides, status : Statuses, filled : Nat, open : Nat]

\* _FILLED_ORDER_STATUSES, _filled_order_filter
FilledStatuses == {"filled", "partially_filled"}
IsFilled(row) == row.status \in FilledStatuses

\* A canceled row counts for the streak if it was a limit/ioc order.
IsCanceledIoc(row) == row.status = "canceled" /\ LimitIoc

\* consecutive_ioc_canceled_count(rows 1..n) >= max_consecutive_ioc_cancels:
\* the newest rows, with no age limit, are all canceled limit/ioc orders.
CancelStreakReached(rows, n) ==
    /\ n >= CancelLimit
    /\ \A i \in (n - CancelLimit + 1)..n : IsCanceledIoc(rows[i])

\* trade_cooldown_active: min_seconds_between_trades have not passed since the
\* latest filled row.  The first `aged` rows are older than the cooldown.
CoolingDown(rows, aged) == \E i \in (aged + 1)..Len(rows) : IsFilled(rows[i])

\* Deviation: canceled orders bar no buy.
LedgerAllowsBuyAnyStreak(rows, aged) ==
    /\ Len(rows) < MaxAttempts
    /\ ~CoolingDown(rows, aged)

\* The part of approve_buy and of the scalping kill switch that the order
\* table decides.  One day's rows are modelled, so every row is an attempt of
\* today; the shorter windows are the same test with smaller limits.
LedgerAllowsBuy(rows, aged) ==
    /\ Len(rows) < MaxAttempts
    /\ ~CancelStreakReached(rows, Len(rows))
    /\ ~CoolingDown(rows, aged)

\* max(0.0, qty - filled)
Reduced(qty, filled) == IF filled > qty THEN 0 ELSE qty - filled

\* One row applied to an open quantity: rows without a fill are skipped, and
\* a sell never takes the quantity below zero.
Applied(open, side, status, filled) ==
    IF status \notin FilledStatuses THEN open
    ELSE IF side = "buy" THEN open + filled ELSE Reduced(open, filled)

\* The quantity the first n rows leave open: the replay of
\* local_simulated_position_from_orders, and the total of the FIFO lots.
OpenQty(rows, n) == IF n = 0 THEN 0 ELSE rows[n].open

\* The same, computed from nothing like the code does.
Replay(rows, n) ==
    LET open[i \in 0..n] ==
            IF i = 0 THEN 0
            ELSE Applied(open[i - 1], rows[i].side, rows[i].status, rows[i].filled)
    IN open[n]

\* add_order: the row that follows `rows`.
NewRow(rows, side, status, filled) ==
    [side |-> side, status |-> status, filled |-> filled,
     open |-> Applied(OpenQty(rows, Len(rows)), side, status, filled)]

\* The quantity of the sell in row i that its FIFO match realizes: nothing if
\* the row is not a filled sell, at most what earlier rows left open.
RealizedQty(rows, i) ==
    IF IsFilled(rows[i]) /\ rows[i].side = "sell"
    THEN OpenQty(rows, i - 1) - OpenQty(rows, i)
    ELSE 0

=============================================================================
