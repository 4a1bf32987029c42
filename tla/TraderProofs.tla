---------------------------- MODULE TraderProofs ----------------------------
(***************************************************************************)
(* What holds of the order pipeline for every number of callers, viewers,  *)
(* bars and rows, every limit, either execution mode and any set of faults *)
(* and crashes the hypotheses of a theorem do not exclude.                 *)
(***************************************************************************)
EXTENDS Trader, WellFoundedInduction, TLAPS

(***************************************************************************)
(* The inductive invariant                                                 *)
(***************************************************************************)

\* What a coroutine's locals are worth where it stands.
LocalsOK ==
    \A c \in Callers :
        /\ pc[c] # "idle" => bar[c] \in Bars
        /\ InFlight(c) => side[c] \in Sides
        /\ IF pc[c] = "order_alert"
           THEN response[c].row \in 1..Len(orders)
           ELSE response[c].row = 0

CoroutinesOK ==
    /\ pc \in [Actors -> Stages]
    /\ position \in [Actors -> Nat]
    /\ bar \in [Actors -> 0..MaxBar]
    /\ since \in [Actors -> Nat]
    /\ side \in [Actors -> Sides \cup {"none"}]
    /\ hard \in [Actors -> BOOLEAN]
    /\ response \in [Actors -> Responses]
    /\ LocalsOK

MemoryOK ==
    /\ order_lock \in BOOLEAN
    /\ last_attempt \in [Sides -> 0..MaxBar]
    /\ position_cache \in SUBSET Nat
    /\ local_qty \in Nat
    /\ attempted \in SUBSET (Sides \X Bars)

\* What the account holds and has on offer stays within its means: this is
\* what keeps `held` in its range when a resting order is executed.
Funds ==
    /\ held \in 0..MaxHeld
    /\ resting \in [Sides -> Nat]
    /\ held + resting["buy"] <= MaxHeld
    /\ resting["sell"] <= held

DatabaseOK ==
    /\ orders \in Seq(Rows)
    /\ aged \in Nat
    /\ trades \in SUBSET [row : Nat, qty : Nat]
    /\ latest_bar \in Bars

TypeInv == CoroutinesOK /\ MemoryOK /\ Funds /\ DatabaseOK

(***************************************************************************)
(* The ledger                                                              *)
(***************************************************************************)

LEMMA OpenQtyType ==
    ASSUME NEW rows \in Seq(Rows), NEW n \in 0..Len(rows)
    PROVE  Len(rows) \in Nat /\ OpenQty(rows, n) \in Nat
<1>1. CASE n = 0
  BY <1>1 DEF OpenQty
<1>2. CASE n # 0
  <2>1. rows[n] \in Rows
    BY <1>2
  <2>2. QED BY <2>1, <1>2 DEF OpenQty, Rows
<1>3. QED BY <1>1, <1>2

\* A row built by add_order is a row, whatever the table holds.
LEMMA NewRowType ==
    ASSUME NEW rows \in Seq(Rows), NEW s \in Sides, NEW status \in Statuses,
           NEW filled \in Nat
    PROVE  /\ OpenQty(rows, Len(rows)) \in Nat
           /\ NewRow(rows, s, status, filled) \in Rows
           /\ NewRow(rows, s, status, filled).side = s
           /\ NewRow(rows, s, status, filled).open
                 = Applied(OpenQty(rows, Len(rows)), s, status, filled)
<1>1. OpenQty(rows, Len(rows)) \in Nat
  BY OpenQtyType
<1>2. Applied(OpenQty(rows, Len(rows)), s, status, filled) \in Nat
  BY <1>1 DEF Applied, Reduced
<1>3. QED BY <1>1, <1>2 DEF NewRow, Rows

\* Appending a row changes none of the others, nor any streak before it.
LEMMA AppendKeeps ==
    ASSUME NEW rows \in Seq(Rows), NEW row \in Rows
    PROVE  /\ Append(rows, row) \in Seq(Rows)
           /\ Len(Append(rows, row)) = Len(rows) + 1
           /\ Append(rows, row)[Len(rows) + 1] = row
           /\ \A i \in 1..Len(rows) : Append(rows, row)[i] = rows[i]
           /\ \A n \in 0..Len(rows) :
                 CancelStreakReached(Append(rows, row), n) <=> CancelStreakReached(rows, n)
<1>1. \A i \in 1..Len(rows) : Append(rows, row)[i] = rows[i]
  OBVIOUS
<1>2. ASSUME NEW n \in 0..Len(rows)
      PROVE  CancelStreakReached(Append(rows, row), n) <=> CancelStreakReached(rows, n)
  <2>1. CASE n < CancelLimit
    BY <2>1, CancelLimitAssumption DEF CancelStreakReached
  <2>2. CASE n >= CancelLimit
    <3>1. \A i \in (n - CancelLimit + 1)..n : i \in 1..Len(rows)
      BY <2>2, CancelLimitAssumption
    <3>2. QED BY <1>1, <3>1 DEF CancelStreakReached
  <2>3. QED BY <2>1, <2>2, CancelLimitAssumption
<1>3. QED BY <1>1, <1>2

\* The passing of time can only lift the cooldown, never the other limits.
LEMMA AgingAllows ==
    ASSUME NEW rows \in Seq(Rows), NEW age \in Nat, LedgerAllowsBuy(rows, age)
    PROVE  LedgerAllowsBuy(rows, age + 1)
BY DEF LedgerAllowsBuy, CoolingDown

(***************************************************************************)
(* Types                                                                   *)
(***************************************************************************)

LEMMA TypeInit == Init => TypeInv
<1> SUFFICES ASSUME Init PROVE TypeInv
  OBVIOUS
<1> USE BoundsAssumption
<1>1. CoroutinesOK
  BY DEF Init, CoroutinesOK, LocalsOK, Stages, OrderStages, InFlight, Actors, Sides,
         NoResponse, Responses, Statuses
<1>2. MemoryOK
  <2>1. order_lock \in BOOLEAN
    BY DEF Init
  <2>2. last_attempt \in [Sides -> 0..MaxBar]
    BY DEF Init
  <2>3. position_cache \in SUBSET Nat
    BY DEF Init
  <2>4. attempted \in SUBSET (Sides \X Bars)
    BY DEF Init
  <2>5. local_qty \in Nat
    BY DEF Init
  <2>6. QED BY <2>1, <2>2, <2>3, <2>4, <2>5 DEF MemoryOK
<1>3. Funds
  BY DEF Init, Funds, Sides
<1>4. DatabaseOK
  BY DEF Init, DatabaseOK, Bars
<1>5. QED BY <1>1, <1>2, <1>3, <1>4 DEF TypeInv

LEMMA TypeInvImpliesTypeOK == TypeInv => TypeOK
BY Zenon DEF TypeInv, TypeOK, CoroutinesOK, MemoryOK, Funds, DatabaseOK

\* A coroutine that ends forgets everything.
LEMMA EndKeeps ==
    ASSUME CoroutinesOK, NEW a \in Actors, End(a), Len(orders') >= Len(orders), Len(orders) \in Nat, Len(orders') \in Nat
    PROVE  CoroutinesOK'
BY BoundsAssumption
   DEF CoroutinesOK, LocalsOK, End, Goto, Stages, OrderStages, InFlight, Actors, Sides,
       NoResponse, Responses, Statuses

\* So does one that was only viewing; a caller keeps what it learns.
LEMMA LearnKeeps ==
    ASSUME CoroutinesOK, NEW a \in Actors, NEW q \in Nat, Learn(a, q), pc[a] \in {"position", "answered"},
           orders' = orders, Len(orders) \in Nat
    PROVE  CoroutinesOK'
<1>1. CASE a \in Viewers
  BY <1>1, EndKeeps DEF Learn
<1>2. CASE a \notin Viewers
  BY <1>2 DEF Learn, CoroutinesOK, LocalsOK, Goto, Stages, OrderStages, InFlight, Actors
<1>3. QED BY <1>1, <1>2

\* And one that moves on with the locals it has.
LEMMA GotoKeeps ==
    ASSUME CoroutinesOK, NEW a \in Actors, NEW stage \in Stages, Goto(a, stage), UNCHANGED <<locals, orders>>,
           stage \in OrderStages => pc[a] \in OrderStages,
           stage # "order_alert", pc[a] \notin {"idle", "order_alert"}
    PROVE  CoroutinesOK'
BY DEF CoroutinesOK, LocalsOK, Goto, Stages, OrderStages, InFlight, Actors, locals

\* Reading keeps the types.
LEMMA ReadType ==
    ASSUME TypeInv, NEW a \in Actors, ReadStep(a)
    PROVE  TypeInv'
<1> USE DEF TypeInv
<1>0. Len(orders) \in Nat /\ OpenQty(orders, Len(orders)) \in Nat
  BY OpenQtyType DEF DatabaseOK
<1>1. CASE ReadLocalPosition(a)
  <2>1. local_qty' \in Nat
    BY <1>0, <1>1 DEF ReadLocalPosition, MemoryOK
  <2>2. CoroutinesOK'
    BY <1>0, <1>1, <2>1, LearnKeeps DEF ReadLocalPosition, database
  <2>3. MemoryOK' /\ Funds' /\ DatabaseOK'
    BY <1>1, <2>1 DEF ReadLocalPosition, MemoryOK, Funds, DatabaseOK, broker, database, market
  <2>4. QED BY <2>2, <2>3
<1>2. CASE ReadCachedPosition(a)
  <2>1. PICK qty \in position_cache : Learn(a, qty)
    BY <1>2 DEF ReadCachedPosition
  <2>2. CoroutinesOK'
    BY <1>0, <1>2, <2>1, LearnKeeps DEF ReadCachedPosition, MemoryOK, database
  <2>3. QED
    BY <1>2, <2>2 DEF ReadCachedPosition, MemoryOK, Funds, DatabaseOK, memory, broker, database, market
<1>3. CASE RequestPosition(a)
  <2>1. CoroutinesOK'
    BY <1>3, GotoKeeps DEF RequestPosition, Stages, OrderStages, database
  <2>2. QED
    BY <1>3, <2>1 DEF RequestPosition, MemoryOK, Funds, DatabaseOK, memory, broker, database, market
<1>4. CASE AnswerPosition(a)
  <2>1. CoroutinesOK'
    BY <1>4 DEF AnswerPosition, Goto, CoroutinesOK, LocalsOK, Funds, InFlight, Stages, OrderStages, Actors, database
  <2>2. QED
    BY <1>4, <2>1 DEF AnswerPosition, MemoryOK, Funds, DatabaseOK, memory, broker, database, market
<1>5. CASE ReceivePosition(a)
  <2>1. position[a] \in Nat
    BY DEF CoroutinesOK
  <2>2. CoroutinesOK'
    BY <1>0, <1>5, <2>1, LearnKeeps DEF ReceivePosition, database
  <2>3. QED
    BY <1>5, <2>1, <2>2 DEF ReceivePosition, MemoryOK, Funds, DatabaseOK, broker, database, market
<1>6. CASE PositionFails(a)
  <2>1. CoroutinesOK'
    BY <1>0, <1>6, EndKeeps DEF PositionFails, database
  <2>2. QED
    BY <1>6, <2>1 DEF PositionFails, MemoryOK, Funds, DatabaseOK, memory, broker, database, market
<1>7. QED BY <1>1, <1>2, <1>3, <1>4, <1>5, <1>6 DEF ReadStep

\* So do starting a view or a run, and deciding.
LEMMA StartType ==
    ASSUME TypeInv, \/ \E v \in Viewers : StartView(v)
                    \/ \E c \in Callers : StartRun(c)
    PROVE  TypeInv'
<1> USE DEF TypeInv
<1>0. Len(orders) \in Nat
  BY DEF DatabaseOK
<1>1. ASSUME NEW v \in Viewers, StartView(v) PROVE TypeInv'
  <2>1. CoroutinesOK'
    BY <1>1, ActorsAssumption
    DEF StartView, Goto, CoroutinesOK, LocalsOK, InFlight, Stages, OrderStages, Actors, locals, database
  <2>2. QED
    BY <1>1, <2>1 DEF StartView, MemoryOK, Funds, DatabaseOK, memory, broker, database, market
<1>2. ASSUME NEW c \in Callers, StartRun(c) PROVE TypeInv'
  <2>1. CoroutinesOK'
    BY <1>0, <1>2, BoundsAssumption
    DEF StartRun, Goto, CoroutinesOK, LocalsOK, DatabaseOK, InFlight, Stages, OrderStages, Actors, Bars, database
  <2>2. QED
    BY <1>2, <2>1 DEF StartRun, MemoryOK, Funds, DatabaseOK, memory, broker, database, market
<1>3. QED BY <1>1, <1>2

LEMMA ApproveType ==
    ASSUME TypeInv, NEW c \in Callers, NEW wanted \in Sides, NEW forced \in BOOLEAN, Approve(c, wanted, forced)
    PROVE  TypeInv'
<1> USE DEF TypeInv
<1>1. CoroutinesOK'
  BY DEF Approve, Goto, CoroutinesOK, LocalsOK, InFlight, Stages, OrderStages, Actors, database
<1>2. MemoryOK'
  <2>1. order_lock' \in BOOLEAN
    BY DEF Approve
  <2>2. QED BY <2>1 DEF Approve, MemoryOK, market
<1>3. QED BY <1>1, <1>2 DEF Approve, Funds, DatabaseOK, broker, database, market

LEMMA DecideType ==
    ASSUME TypeInv, NEW c \in Callers, DecideStep(c)
    PROVE  TypeInv'
<1> USE DEF TypeInv
<1>1. CASE ApproveBuy(c)
  BY <1>1, ApproveType DEF ApproveBuy, Sides
<1>2. CASE \E forced \in BOOLEAN : ApproveSell(c, forced)
  BY <1>2, ApproveType DEF ApproveSell, Sides
<1>3. CASE Hold(c)
  <2>1. CoroutinesOK'
    BY <1>3, EndKeeps DEF Hold, Actors, DatabaseOK, database
  <2>2. QED
    BY <1>3, <2>1 DEF Hold, MemoryOK, Funds, DatabaseOK, memory, broker, database, market
<1>4. QED BY <1>1, <1>2, <1>3 DEF DecideStep

\* What Remember and Release do to the memory.
LEMMA RememberType ==
    ASSUME TypeInv, NEW c \in Callers, pc[c] \in OrderStages, Remember(c)
    PROVE  /\ last_attempt' \in [Sides -> 0..MaxBar]
           /\ attempted' \in SUBSET (Sides \X Bars)
           /\ latest_bar' = latest_bar
<1>1. side[c] \in Sides /\ bar[c] \in Bars /\ pc[c] # "idle"
  BY DEF TypeInv, CoroutinesOK, LocalsOK, InFlight, OrderStages
<1>2. last_attempt' \in [Sides -> 0..MaxBar]
  BY <1>1 DEF TypeInv, MemoryOK, Remember, Bars
<1>3. attempted' \in SUBSET (Sides \X Bars)
  BY <1>1 DEF TypeInv, MemoryOK, Remember
<1>4. QED BY <1>2, <1>3 DEF Remember

\* The run is over, with the lock released.
LEMMA ReleaseType ==
    ASSUME TypeInv, NEW c \in Callers, Release(c), Len(orders') >= Len(orders), DatabaseOK'
    PROVE  CoroutinesOK' /\ order_lock' \in BOOLEAN
<1>1. CoroutinesOK'
  BY EndKeeps DEF Release, Actors, TypeInv, DatabaseOK
<1>2. QED BY <1>1 DEF Release

\* An order row is written, for the caller that holds a row-less response.
LEMMA AddOrderType ==
    ASSUME TypeInv, NEW c \in Callers, pc[c] \in OrderStages, pc[c] # "order_alert",
           NEW status \in Statuses, NEW filled \in Nat, AddOrder(c, status, filled)
    PROVE  CoroutinesOK' /\ orders' \in Seq(Rows) /\ order_lock' \in BOOLEAN
<1> USE DEF TypeInv
<1>1. side[c] \in Sides /\ orders \in Seq(Rows)
  BY DEF CoroutinesOK, LocalsOK, InFlight, DatabaseOK
<1>2. orders' \in Seq(Rows) /\ Len(orders') = Len(orders) + 1 /\ Len(orders) \in Nat
  BY <1>1, NewRowType, AppendKeeps DEF AddOrder
<1>3. response' \in [Actors -> Responses] /\ response'[c].row = Len(orders) + 1
  BY <1>2 DEF AddOrder, CoroutinesOK, Responses, Actors
<1>4. \A d \in Callers \ {c} : response'[d] = response[d] /\ pc'[d] = pc[d]
  BY DEF AddOrder, Goto, CoroutinesOK, Actors
<1>5. pc' \in [Actors -> Stages] /\ pc'[c] = "order_alert"
  BY DEF AddOrder, Goto, CoroutinesOK, Actors, Stages, OrderStages
<1>6. LocalsOK'
  BY <1>1, <1>2, <1>3, <1>4, <1>5 DEF AddOrder, CoroutinesOK, LocalsOK, InFlight, OrderStages
<1>7. CoroutinesOK'
  BY <1>3, <1>5, <1>6 DEF AddOrder, CoroutinesOK
<1>8. QED BY <1>2, <1>7 DEF AddOrder, MemoryOK

LEMMA RequestedType ==
    ASSUME TypeInv, NEW c \in Callers, NEW filled \in 0..Requested(c)
    PROVE  Requested(c) \in Nat /\ filled \in Nat /\ FinalStatus(filled, Requested(c)) \in Statuses
<1>1. Requested(c) \in Nat
  BY BoundsAssumption DEF TypeInv, CoroutinesOK, Requested, Actors
<1>2. FinalStatus(filled, Requested(c)) \in Statuses
  BY DEF FinalStatus, Statuses
<1>3. QED BY <1>1, <1>2

\* What a sell row realizes is a quantity.
LEMMA RealizedQtyType ==
    ASSUME NEW rows \in Seq(Rows), NEW i \in 1..Len(rows), RealizedQty(rows, i) > 0
    PROVE  RealizedQty(rows, i) \in Nat
<1>1. OpenQty(rows, i - 1) \in Nat /\ OpenQty(rows, i) \in Nat
  BY OpenQtyType
<1>2. QED BY <1>1 DEF RealizedQty

\* Submitting an order keeps the types.
LEMMA SubmitType ==
    ASSUME TypeInv, NEW c \in Callers, SubmitStep(c)
    PROVE  TypeInv'
<1> USE DEF TypeInv
<1>0. Len(orders) \in Nat /\ c \in Actors
  BY DEF DatabaseOK, Actors
<1>1. CASE StoreSignalFails(c)
  <2>1. CoroutinesOK'
    BY <1>0, <1>1, EndKeeps DEF StoreSignalFails, database
  <2>2. QED
    BY <1>1, <2>1 DEF StoreSignalFails, MemoryOK, Funds, DatabaseOK, memory, broker, database, market
<1>2. CASE LimitPriceMissing(c)
  <2>1. Funds' /\ DatabaseOK'
    BY <1>2 DEF LimitPriceMissing, Remember, Funds, DatabaseOK, broker, database
  <2>2. CoroutinesOK' /\ order_lock' \in BOOLEAN
    BY <1>0, <1>2, <2>1, ReleaseType DEF LimitPriceMissing, database
  <2>3. QED
    BY <1>2, <2>1, <2>2, RememberType DEF LimitPriceMissing, MemoryOK, OrderStages
<1>3. CASE SubmitLocalOrder(c)
  <2>1. PICK filled \in 0..Requested(c) :
           /\ local_qty' = ApplyLocalFill(c, filled)
           /\ \/ AddOrder(c, FinalStatus(filled, Requested(c)), filled)
              \/ AddOrderFails(c)
    BY <1>3 DEF SubmitLocalOrder
  <2>2. filled \in Nat /\ FinalStatus(filled, Requested(c)) \in Statuses
    BY RequestedType
  <2>3. local_qty' \in Nat
    BY <2>1, <2>2 DEF ApplyLocalFill, Reduced, MemoryOK
  <2>4. CoroutinesOK' /\ orders' \in Seq(Rows) /\ order_lock' \in BOOLEAN
    <3>1. CASE AddOrder(c, FinalStatus(filled, Requested(c)), filled)
      BY <1>3, <2>2, <3>1, AddOrderType DEF SubmitLocalOrder, OrderStages
    <3>2. CASE AddOrderFails(c)
      <4>1. DatabaseOK'
        BY <1>3, <3>2 DEF SubmitLocalOrder, Remember, AddOrderFails, DatabaseOK
      <4>2. QED BY <1>0, <3>2, <4>1, ReleaseType DEF AddOrderFails, DatabaseOK
    <3>3. QED BY <2>1, <3>1, <3>2
  <2>5. /\ last_attempt' \in [Sides -> 0..MaxBar]
        /\ attempted' \in SUBSET (Sides \X Bars)
        /\ latest_bar' = latest_bar
    BY <1>3, RememberType DEF SubmitLocalOrder, OrderStages
  <2>6. MemoryOK' /\ Funds' /\ DatabaseOK'
    BY <1>3, <2>3, <2>4, <2>5 DEF SubmitLocalOrder, MemoryOK, Funds, DatabaseOK, broker
  <2>7. QED BY <2>4, <2>6
<1>4. CASE PostOrder(c)
  <2>1. CoroutinesOK'
    BY <1>0, <1>4, GotoKeeps DEF PostOrder, Stages, OrderStages, database
  <2>2. QED
    BY <1>4, <2>1, RememberType DEF PostOrder, MemoryOK, Funds, DatabaseOK, OrderStages, broker, database
<1>5. CASE BrokerExecutes(c)
  <2>1. PICK filled \in 0..Requested(c) :
           /\ held' = IF side[c] = "buy" THEN held + filled ELSE held - filled
           /\ \E reply \in {<<FinalStatus(filled, Requested(c)), filled>>, <<"new", 0>>} :
                  response' = [response EXCEPT ![c] =
                                  [status |-> reply[1], filled |-> reply[2],
                                   final |-> FinalStatus(filled, Requested(c)), row |-> 0]]
    BY <1>5 DEF BrokerExecutes
  <2>2. filled \in Nat /\ Requested(c) \in Nat /\ FinalStatus(filled, Requested(c)) \in Statuses
    BY RequestedType
  <2>3. response' \in [Actors -> Responses] /\ response'[c].row = 0
    BY <1>0, <2>1, <2>2 DEF CoroutinesOK, Responses, Statuses
  <2>4. \A d \in Callers \ {c} : response'[d] = response[d]
    BY <1>0, <2>1 DEF CoroutinesOK, Actors
  <2>5. CoroutinesOK'
    BY <1>0, <1>5, <2>3, <2>4
    DEF BrokerExecutes, Goto, CoroutinesOK, LocalsOK, InFlight, Stages, OrderStages, Actors, database
  <2>6. Funds'
    <3>1. /\ held \in Nat /\ resting["buy"] \in Nat /\ resting["sell"] \in Nat
          /\ held + resting["buy"] <= MaxHeld /\ resting["sell"] <= held
          /\ resting' = resting /\ MaxHeld \in Nat
      BY <1>5, BoundsAssumption DEF BrokerExecutes, Funds, Sides
    <3>2. CASE side[c] = "buy"
      BY <1>5, <2>1, <2>2, <3>1, <3>2 DEF BrokerExecutes, Affordable, Funds
    <3>3. CASE side[c] # "buy"
      BY <1>5, <2>1, <2>2, <3>1, <3>3 DEF BrokerExecutes, Affordable, Funds
    <3>4. QED BY <3>2, <3>3
  <2>7. QED
    BY <1>5, <2>5, <2>6 DEF BrokerExecutes, MemoryOK, DatabaseOK, memory, database, market
<1>6. CASE BrokerRests(c)
  <2>1. CoroutinesOK'
    BY <1>0, <1>6, GotoKeeps DEF BrokerRests, Stages, OrderStages, database
  <2>2. side[c] \in Sides /\ Requested(c) \in Nat
    BY <1>0, <1>6, BoundsAssumption
    DEF BrokerRests, CoroutinesOK, LocalsOK, InFlight, OrderStages, Requested
  <2>3. Funds'
    BY <1>6, <2>2 DEF BrokerRests, Affordable, Funds, Sides
  <2>4. QED
    BY <1>6, <2>1, <2>3 DEF BrokerRests, MemoryOK, DatabaseOK, memory, database, market
<1>7. CASE BrokerRefuses(c)
  <2>1. Funds' /\ DatabaseOK'
    BY <1>7 DEF BrokerRefuses, Funds, DatabaseOK, broker, database, market
  <2>2. CoroutinesOK' /\ order_lock' \in BOOLEAN
    BY <1>0, <1>7, <2>1, ReleaseType DEF BrokerRefuses, database
  <2>3. QED
    BY <1>7, <2>1, <2>2 DEF BrokerRefuses, MemoryOK, market
<1>8. CASE PostFails(c)
  <2>1. Funds' /\ DatabaseOK'
    BY <1>8 DEF PostFails, Funds, DatabaseOK, broker, database, market
  <2>2. CoroutinesOK' /\ order_lock' \in BOOLEAN
    BY <1>0, <1>8, <2>1, ReleaseType DEF PostFails, database
  <2>3. QED
    BY <1>8, <2>1, <2>2 DEF PostFails, MemoryOK, market
<1>9. CASE ReceiveReply(c)
  <2>1. CoroutinesOK'
    BY <1>0, <1>9, GotoKeeps DEF ReceiveReply, Stages, OrderStages, database
  <2>2. QED
    BY <1>9, <2>1 DEF ReceiveReply, MemoryOK, Funds, DatabaseOK, broker, database, market
<1>10. CASE CheckStatus(c)
  <2>1. response[c].status \in Statuses /\ response[c].final \in Statuses /\ response[c].filled \in Nat
    BY <1>0 DEF CoroutinesOK, Responses
  <2>2. CoroutinesOK' /\ orders' \in Seq(Rows) /\ order_lock' \in BOOLEAN
    <3>1. ASSUME NEW status \in {response[c].status, response[c].final},
                 AddOrder(c, status, response[c].filled)
          PROVE  CoroutinesOK' /\ orders' \in Seq(Rows) /\ order_lock' \in BOOLEAN
      BY <1>10, <2>1, <3>1, AddOrderType DEF CheckStatus, OrderStages
    <3>2. CASE AddOrderFails(c)
      <4>1. DatabaseOK'
        BY <1>10, <3>2 DEF CheckStatus, AddOrderFails, DatabaseOK, market
      <4>2. QED BY <1>0, <3>2, <4>1, ReleaseType DEF AddOrderFails, DatabaseOK
    <3>3. QED BY <1>10, <3>1, <3>2 DEF CheckStatus
  <2>3. QED
    BY <1>10, <2>2 DEF CheckStatus, MemoryOK, Funds, DatabaseOK, broker, market
<1>11. CASE Finish(c)
  <2>1. response[c].row \in 1..Len(orders) /\ orders \in Seq(Rows)
    BY <1>11 DEF Finish, CoroutinesOK, LocalsOK, DatabaseOK
  <2>2. trades' \in SUBSET [row : Nat, qty : Nat]
    BY <1>11, <2>1, RealizedQtyType DEF Finish, DatabaseOK
  <2>3. Funds' /\ DatabaseOK'
    BY <1>11, <2>2 DEF Finish, Funds, DatabaseOK, broker, market
  <2>4. CoroutinesOK' /\ order_lock' \in BOOLEAN
    BY <1>0, <1>11, <2>3, ReleaseType DEF Finish
  <2>5. QED
    BY <1>11, <2>3, <2>4 DEF Finish, MemoryOK, market
<1>12. QED
  BY <1>1, <1>2, <1>3, <1>4, <1>5, <1>6, <1>7, <1>8, <1>9, <1>10, <1>11 DEF SubmitStep

\* The passing of time, the broker on its own, and a restart.
LEMMA EnvironmentType ==
    ASSUME TypeInv, EnvironmentStep
    PROVE  TypeInv'
<1> USE DEF TypeInv
<1>1. CASE CacheExpires
  BY <1>1 DEF CacheExpires, CoroutinesOK, LocalsOK, InFlight, MemoryOK, Funds, DatabaseOK,
              coroutines, locals, broker, database, market
<1>2. CASE RowAges
  BY <1>2 DEF RowAges, CoroutinesOK, LocalsOK, InFlight, MemoryOK, Funds, DatabaseOK,
              coroutines, locals, memory, broker, market
<1>3. CASE BarCloses
  BY <1>3, BoundsAssumption
  DEF BarCloses, CoroutinesOK, LocalsOK, InFlight, MemoryOK, Funds, DatabaseOK, Bars,
      coroutines, locals, memory, broker, database
<1>4. CASE Restart
  <2>1. CoroutinesOK'
    BY <1>4, BoundsAssumption
    DEF Restart, CoroutinesOK, LocalsOK, Stages, OrderStages, InFlight, Actors, Sides,
        NoResponse, Responses, Statuses
  <2>2. order_lock' \in BOOLEAN
    BY <1>4 DEF Restart
  <2>3. last_attempt' \in [Sides -> 0..MaxBar]
    BY <1>4, BoundsAssumption DEF Restart
  <2>4. position_cache' \in SUBSET Nat /\ local_qty' \in Nat
    BY <1>4 DEF Restart
  <2>5. attempted' \in SUBSET (Sides \X Bars)
    BY <1>4 DEF Restart
  <2>6. MemoryOK'
    BY <2>2, <2>3, <2>4, <2>5 DEF MemoryOK
  <2>7. QED BY <1>4, <2>1, <2>6 DEF Restart, Funds, DatabaseOK, broker, database
<1>5. ASSUME NEW s \in Sides, RestingExecutes(s) PROVE TypeInv'
  <2>1. Funds'
    <3>1. /\ held \in Nat /\ resting["buy"] \in Nat /\ resting["sell"] \in Nat
          /\ held + resting["buy"] <= MaxHeld /\ resting["sell"] <= held
          /\ MaxHeld \in Nat
      BY BoundsAssumption DEF Funds, Sides
    <3>2. resting' \in [Sides -> Nat] /\ resting'[s] = 0
      BY <1>5 DEF RestingExecutes, Funds
    <3>3. CASE s = "buy"
      <4>1. resting'["sell"] = resting["sell"] /\ held' = held + resting["buy"]
        BY <1>5, <3>3 DEF RestingExecutes, Funds, Sides
      <4>2. QED BY <3>1, <3>2, <3>3, <4>1 DEF Funds
    <3>4. CASE s = "sell"
      <4>1. resting'["buy"] = resting["buy"] /\ held' = held - resting["sell"]
        BY <1>5, <3>4 DEF RestingExecutes, Funds, Sides
      <4>2. QED BY <3>1, <3>2, <3>4, <4>1 DEF Funds
    <3>5. QED BY <3>3, <3>4 DEF Sides
  <2>2. QED
    BY <1>5, <2>1 DEF RestingExecutes, CoroutinesOK, LocalsOK, InFlight, MemoryOK, DatabaseOK,
                      coroutines, locals, memory, database, market
<1>6. QED BY <1>1, <1>2, <1>3, <1>4, <1>5 DEF EnvironmentStep

LEMMA TypeNext == TypeInv /\ [Next]_vars => TypeInv'
<1> SUFFICES ASSUME TypeInv, [Next]_vars PROVE TypeInv'
  OBVIOUS
<1>1. ASSUME NEW a \in Actors, ReadStep(a) PROVE TypeInv'
  BY <1>1, ReadType
<1>2. ASSUME NEW v \in Viewers, StartView(v) PROVE TypeInv'
  BY <1>2, StartType
<1>3. ASSUME NEW c \in Callers, CallerStep(c) PROVE TypeInv'
  BY <1>3, StartType, DecideType, SubmitType DEF CallerStep
<1>4. CASE EnvironmentStep
  BY <1>4, EnvironmentType
<1>5. CASE UNCHANGED vars
  BY <1>5 DEF vars, TypeInv, CoroutinesOK, LocalsOK, InFlight, MemoryOK, Funds, DatabaseOK,
              coroutines, locals, memory, broker, database, market
<1>6. QED BY <1>1, <1>2, <1>3, <1>4, <1>5 DEF Next

\* No step of the pipeline leaves a variable outside of its type, whatever
\* fails: run_once, the broker client and the repository agree on their data.
THEOREM TypesHold == Spec => []TypeOK
<1>1. Init => TypeInv
  BY TypeInit
<1>2. TypeInv /\ [Next]_vars => TypeInv'
  BY TypeNext
<1>3. TypeInv => TypeOK
  BY TypeInvImpliesTypeOK
<1>4. QED BY <1>1, <1>2, <1>3, PTL DEF Spec

(***************************************************************************)
(* One order at a time, and the limits of a buy                            *)
(***************************************************************************)

\* The lock alone would not do: it has no owner, so that no run ever releases
\* another's needs that only one is in flight.  And the limits in the table
\* need that the approval of the buy in flight is still good.
OrderInv == OneOrderInFlight /\ ApprovalStaysValid /\ BuysWithinLimits

\* A step that takes nobody into flight and leaves the orders alone.
LEMMA NobodyTakesOff ==
    ASSUME OrderInv, UNCHANGED <<order_lock, orders, aged>>,
           \A c \in Callers :
              InFlight(c)' => InFlight(c) /\ side'[c] = side[c] /\ response'[c].row = response[c].row
    PROVE  OrderInv'
<1>1. OneOrderInFlight'
  BY DEF OrderInv, OneOrderInFlight
<1>2. ApprovalStaysValid'
  BY DEF OrderInv, ApprovalStaysValid
<1>3. BuysWithinLimits'
  BY DEF OrderInv, BuysWithinLimits
<1>4. QED BY <1>1, <1>2, <1>3 DEF OrderInv

\* What a step of one coroutine leaves alone.
LEMMA EndOthers ==
    ASSUME TypeInv, NEW a \in Actors, End(a)
    PROVE  /\ pc'[a] = "idle"
           /\ \A d \in Actors \ {a} : pc'[d] = pc[d] /\ side'[d] = side[d] /\ response'[d] = response[d]
           /\ \A c \in Callers :
                 InFlight(c)' => InFlight(c) /\ side'[c] = side[c] /\ response'[c].row = response[c].row
<1>1. pc'[a] = "idle"
  BY DEF TypeInv, CoroutinesOK, End, Goto
<1>2. \A d \in Actors \ {a} : pc'[d] = pc[d] /\ side'[d] = side[d] /\ response'[d] = response[d]
  BY DEF TypeInv, CoroutinesOK, End, Goto
<1>3. QED BY <1>1, <1>2 DEF InFlight, OrderStages, Actors

LEMMA GotoOthers ==
    ASSUME TypeInv, NEW a \in Actors, NEW stage \in Stages, Goto(a, stage),
           UNCHANGED <<side, response>>, stage \in OrderStages => pc[a] \in OrderStages
    PROVE  \A c \in Callers :
              InFlight(c)' => InFlight(c) /\ side'[c] = side[c] /\ response'[c].row = response[c].row
BY DEF TypeInv, CoroutinesOK, Goto, InFlight, Actors

LEMMA LearnOthers ==
    ASSUME TypeInv, NEW a \in Actors, NEW qty, Learn(a, qty)
    PROVE  \A c \in Callers :
              InFlight(c)' => InFlight(c) /\ side'[c] = side[c] /\ response'[c].row = response[c].row
<1>1. CASE a \in Viewers
  BY <1>1, EndOthers DEF Learn
<1>2. CASE a \notin Viewers
  BY <1>2, GotoOthers DEF Learn, Stages, OrderStages
<1>3. QED BY <1>1, <1>2

\* The run in flight ends and releases the lock: it was the only one.
LEMMA ReleaseLands ==
    ASSUME TypeInv, OrderInv, NEW c \in Callers, InFlight(c), Release(c), UNCHANGED <<orders, aged>>
    PROVE  OrderInv'
<1>1. \A d \in Callers : ~InFlight(d)'
  BY EndOthers DEF Release, OrderInv, OneOrderInFlight, InFlight, OrderStages, Actors
<1>2. OneOrderInFlight' /\ ApprovalStaysValid'
  BY <1>1 DEF OneOrderInFlight, ApprovalStaysValid
<1>3. BuysWithinLimits'
  BY DEF OrderInv, BuysWithinLimits
<1>4. QED BY <1>2, <1>3 DEF OrderInv

\* The order row of the run in flight is written: if it is a buy, its approval
\* says that it is within the limits.
LEMMA AddOrderWithinLimits ==
    ASSUME TypeInv, OrderInv, NEW c \in Callers, InFlight(c), pc[c] # "order_alert", UNCHANGED aged,
           NEW status \in Statuses, NEW filled \in Nat, AddOrder(c, status, filled)
    PROVE  OrderInv'
<1> USE DEF TypeInv, OrderInv
<1> DEFINE row == NewRow(orders, side[c], status, filled)
<1>1. side[c] \in Sides /\ orders \in Seq(Rows) /\ response[c].row = 0
  BY DEF CoroutinesOK, LocalsOK, DatabaseOK
<1>2. row \in Rows /\ row.side = side[c] /\ orders' = Append(orders, row)
  BY <1>1, NewRowType DEF AddOrder
<1>3. Len(orders) \in Nat /\ Len(orders') = Len(orders) + 1
  BY <1>1, <1>2, AppendKeeps
<1>4. pc' \in [Actors -> Stages] /\ InFlight(c)' /\ \A d \in Callers \ {c} : pc'[d] = pc[d]
  BY DEF AddOrder, Goto, CoroutinesOK, InFlight, Actors, Stages, OrderStages
<1>5. response'[c].row # 0
  BY <1>3 DEF AddOrder, CoroutinesOK, Actors
<1>6. OneOrderInFlight'
  BY <1>4 DEF AddOrder, OneOrderInFlight, InFlight
<1>7. ApprovalStaysValid'
  BY <1>4, <1>5, <1>6 DEF OneOrderInFlight, ApprovalStaysValid
<1>8. BuysWithinLimits'
  <2> SUFFICES ASSUME NEW i \in 1..(Len(orders) + 1), orders'[i].side = "buy"
               PROVE  i <= MaxAttempts /\ ~CancelStreakReached(orders', i - 1)
    BY <1>1, <1>2, <1>3 DEF BuysWithinLimits
  <2>1. CancelStreakReached(orders', i - 1) <=> CancelStreakReached(orders, i - 1)
    BY <1>1, <1>2, <1>3, AppendKeeps
  <2>2. CASE i = Len(orders) + 1
    <3>1. side[c] = "buy"
      BY <1>1, <1>2, <2>2, AppendKeeps
    <3>2. LedgerAllowsBuy(orders, aged)
      BY <1>1, <3>1 DEF ApprovalStaysValid
    <3>3. QED BY <1>3, <2>1, <2>2, <3>2, MaxAttemptsAssumption DEF LedgerAllowsBuy
  <2>3. CASE i # Len(orders) + 1
    <3>1. i \in 1..Len(orders) /\ orders'[i] = orders[i]
      BY <1>1, <1>2, <1>3, <2>3, AppendKeeps
    <3>2. QED BY <2>1, <3>1 DEF BuysWithinLimits
  <2>4. QED BY <2>2, <2>3
<1>9. QED BY <1>6, <1>7, <1>8

LEMMA OrderRead ==
    ASSUME TypeInv, OrderInv, NEW a \in Actors, ReadStep(a)
    PROVE  OrderInv'
<1>1. CASE ReadLocalPosition(a)
  BY <1>1, LearnOthers, NobodyTakesOff DEF ReadLocalPosition, database
<1>2. CASE ReadCachedPosition(a)
  BY <1>2, LearnOthers, NobodyTakesOff DEF ReadCachedPosition, memory, database
<1>3. CASE RequestPosition(a)
  BY <1>3, GotoOthers, NobodyTakesOff DEF RequestPosition, Stages, OrderStages, locals, memory, database
<1>4. CASE AnswerPosition(a)
  BY <1>4, GotoOthers, NobodyTakesOff DEF AnswerPosition, Stages, OrderStages, memory, database
<1>5. CASE ReceivePosition(a)
  BY <1>5, LearnOthers, NobodyTakesOff DEF ReceivePosition, database
<1>6. CASE PositionFails(a)
  BY <1>6, EndOthers, NobodyTakesOff DEF PositionFails, memory, database
<1>7. QED BY <1>1, <1>2, <1>3, <1>4, <1>5, <1>6 DEF ReadStep

LEMMA OrderStart ==
    ASSUME TypeInv, OrderInv, NEW a \in Actors, StartView(a) \/ StartRun(a)
    PROVE  OrderInv'
<1>1. CASE StartView(a)
  BY <1>1, GotoOthers, NobodyTakesOff DEF StartView, Stages, OrderStages, locals, memory, database
<1>2. CASE StartRun(a)
  BY <1>2, GotoOthers, NobodyTakesOff DEF StartRun, Stages, OrderStages, memory, database
<1>3. QED BY <1>1, <1>2

\* An order is approved only while the lock is free, so nobody is in flight.
LEMMA OrderApprove ==
    ASSUME TypeInv, OrderInv, NEW c \in Callers, NEW wanted \in Sides, NEW forced,
           Approve(c, wanted, forced), wanted = "buy" => LedgerAllowsBuy(orders, aged)
    PROVE  OrderInv'
<1> USE DEF TypeInv, OrderInv
<1>1. \A d \in Callers : ~InFlight(d)
  BY DEF Approve, OneOrderInFlight
<1>2. order_lock' /\ side'[c] = wanted /\ \A d \in Callers : InFlight(d)' => d = c
  BY <1>1 DEF Approve, Goto, CoroutinesOK, InFlight, Actors
<1>3. OneOrderInFlight'
  BY <1>2 DEF OneOrderInFlight
<1>4. UNCHANGED <<orders, aged>>
  BY DEF Approve, database
<1>5. ApprovalStaysValid'
  BY <1>2, <1>4 DEF ApprovalStaysValid
<1>6. BuysWithinLimits'
  BY <1>4 DEF BuysWithinLimits
<1>7. QED BY <1>3, <1>5, <1>6

LEMMA OrderDecide ==
    ASSUME TypeInv, OrderInv, NEW c \in Callers, DecideStep(c)
    PROVE  OrderInv'
<1>1. CASE ApproveBuy(c)
  BY <1>1, OrderApprove DEF ApproveBuy, Sides
<1>2. CASE \E forced \in BOOLEAN : ApproveSell(c, forced)
  BY <1>2, OrderApprove DEF ApproveSell, Sides
<1>3. CASE Hold(c)
  BY <1>3, EndOthers, NobodyTakesOff DEF Hold, Actors, memory, database
<1>4. QED BY <1>1, <1>2, <1>3 DEF DecideStep

LEMMA OrderSubmit ==
    ASSUME TypeInv, OrderInv, NEW c \in Callers, SubmitStep(c)
    PROVE  OrderInv'
<1> USE DEF OrderStages, InFlight
<1>0. c \in Actors
  BY DEF Actors
<1>1. CASE StoreSignalFails(c)
  BY <1>0, <1>1, EndOthers, NobodyTakesOff DEF StoreSignalFails, memory, database
<1>2. CASE LimitPriceMissing(c)
  BY <1>2, ReleaseLands DEF LimitPriceMissing, database
<1>3. CASE SubmitLocalOrder(c)
  <2>1. PICK filled \in 0..Requested(c) :
           \/ AddOrder(c, FinalStatus(filled, Requested(c)), filled)
           \/ AddOrderFails(c)
    BY <1>3 DEF SubmitLocalOrder
  <2>2. filled \in Nat /\ FinalStatus(filled, Requested(c)) \in Statuses
    BY RequestedType
  <2>3. CASE AddOrder(c, FinalStatus(filled, Requested(c)), filled)
    BY <1>3, <2>2, <2>3, AddOrderWithinLimits DEF SubmitLocalOrder
  <2>4. CASE AddOrderFails(c)
    BY <1>3, <2>4, ReleaseLands DEF SubmitLocalOrder, AddOrderFails
  <2>5. QED BY <2>1, <2>3, <2>4
<1>4. CASE PostOrder(c)
  BY <1>0, <1>4, GotoOthers, NobodyTakesOff DEF PostOrder, Stages, locals, database
<1>5. CASE BrokerExecutes(c)
  <2>1. response'[c].row = 0 /\ \A d \in Callers \ {c} : response'[d] = response[d]
    BY <1>0, <1>5 DEF BrokerExecutes, TypeInv, CoroutinesOK, Actors
  <2>2. response[c].row = 0
    BY <1>5 DEF BrokerExecutes, TypeInv, CoroutinesOK, LocalsOK
  <2>3. \A d \in Callers : InFlight(d)' => InFlight(d)
    BY <1>0, <1>5 DEF BrokerExecutes, Goto, TypeInv, CoroutinesOK, Actors
  <2>4. QED BY <1>5, <2>1, <2>2, <2>3, NobodyTakesOff DEF BrokerExecutes, memory, database
<1>6. CASE BrokerRests(c)
  BY <1>0, <1>6, GotoOthers, NobodyTakesOff DEF BrokerRests, Stages, locals, memory, database
<1>7. CASE BrokerRefuses(c)
  BY <1>7, ReleaseLands DEF BrokerRefuses, database
<1>8. CASE PostFails(c)
  BY <1>8, ReleaseLands DEF PostFails, database
<1>9. CASE ReceiveReply(c)
  BY <1>0, <1>9, GotoOthers, NobodyTakesOff DEF ReceiveReply, Stages, locals, database
<1>10. CASE CheckStatus(c)
  <2>1. response[c].status \in Statuses /\ response[c].final \in Statuses /\ response[c].filled \in Nat
    BY <1>0 DEF TypeInv, CoroutinesOK, Responses
  <2>2. ASSUME NEW status \in {response[c].status, response[c].final},
               AddOrder(c, status, response[c].filled)
        PROVE  OrderInv'
    BY <1>10, <2>1, <2>2, AddOrderWithinLimits DEF CheckStatus
  <2>3. CASE AddOrderFails(c)
    BY <1>10, <2>3, ReleaseLands DEF CheckStatus, AddOrderFails
  <2>4. QED BY <1>10, <2>2, <2>3 DEF CheckStatus
<1>11. CASE Finish(c)
  BY <1>11, ReleaseLands DEF Finish
<1>12. QED
  BY <1>1, <1>2, <1>3, <1>4, <1>5, <1>6, <1>7, <1>8, <1>9, <1>10, <1>11 DEF SubmitStep

LEMMA OrderEnvironment ==
    ASSUME TypeInv, OrderInv, EnvironmentStep
    PROVE  OrderInv'
<1>1. CASE CacheExpires
  BY <1>1, NobodyTakesOff DEF CacheExpires, coroutines, locals, database, InFlight
<1>2. CASE RowAges
  <2>1. LedgerAllowsBuy(orders, aged) => LedgerAllowsBuy(orders', aged')
    BY <1>2, AgingAllows DEF RowAges, TypeInv, DatabaseOK
  <2>2. OneOrderInFlight' /\ BuysWithinLimits'
    BY <1>2 DEF RowAges, OrderInv, OneOrderInFlight, BuysWithinLimits, InFlight, coroutines, memory
  <2>3. ApprovalStaysValid'
    BY <1>2, <2>1 DEF RowAges, OrderInv, ApprovalStaysValid, InFlight, coroutines, locals
  <2>4. QED BY <2>2, <2>3 DEF OrderInv
<1>3. CASE BarCloses
  BY <1>3, NobodyTakesOff DEF BarCloses, coroutines, locals, memory, database, InFlight
<1>4. CASE Restart
  <2>1. \A c \in Callers : ~InFlight(c)'
    BY <1>4 DEF Restart, InFlight, OrderStages, Actors
  <2>2. BuysWithinLimits'
    BY <1>4 DEF Restart, OrderInv, BuysWithinLimits, database
  <2>3. QED BY <2>1, <2>2 DEF OrderInv, OneOrderInFlight, ApprovalStaysValid
<1>5. ASSUME NEW s \in Sides, RestingExecutes(s) PROVE OrderInv'
  BY <1>5, NobodyTakesOff DEF RestingExecutes, coroutines, locals, memory, database, InFlight
<1>6. QED BY <1>1, <1>2, <1>3, <1>4, <1>5 DEF EnvironmentStep

LEMMA OrderInit == Init => OrderInv
BY DEF Init, OrderInv, OneOrderInFlight, ApprovalStaysValid, BuysWithinLimits, InFlight, OrderStages, Actors

LEMMA OrderNext == TypeInv /\ OrderInv /\ [Next]_vars => OrderInv'
<1> SUFFICES ASSUME TypeInv, OrderInv, [Next]_vars PROVE OrderInv'
  OBVIOUS
<1>1. ASSUME NEW a \in Actors, ReadStep(a) PROVE OrderInv'
  BY <1>1, OrderRead
<1>2. ASSUME NEW v \in Viewers, StartView(v) PROVE OrderInv'
  BY <1>2, OrderStart DEF Actors
<1>3. ASSUME NEW c \in Callers, CallerStep(c) PROVE OrderInv'
  BY <1>3, OrderStart, OrderDecide, OrderSubmit DEF CallerStep, Actors
<1>4. CASE EnvironmentStep
  BY <1>4, OrderEnvironment
<1>5. CASE UNCHANGED vars
  BY <1>5, NobodyTakesOff DEF vars, coroutines, locals, memory, database, InFlight
<1>6. QED BY <1>1, <1>2, <1>3, <1>4, <1>5 DEF Next

LEMMA OrderInvHolds == Spec => []OrderInv
<1>1. Init => TypeInv /\ OrderInv
  BY TypeInit, OrderInit
<1>2. TypeInv /\ OrderInv /\ [Next]_vars => (TypeInv /\ OrderInv)'
  BY TypeNext, OrderNext
<1>3. QED BY <1>1, <1>2, PTL DEF Spec

\* However many runs the scheduler and the API start, whatever fails in them,
\* at most one is between its approved order and its end, and the lock that
\* _guard_order_decision looks at is taken all the while.
THEOREM OneOrderInFlightHolds == Spec => []OneOrderInFlight
<1>1. OrderInv => OneOrderInFlight
  BY DEF OrderInv
<1>2. QED BY <1>1, OrderInvHolds, PTL

\* The limits approve_buy has checked still hold when the order is placed,
\* although the run has waited for alerts and for the broker since.
THEOREM ApprovalHolds == Spec => []ApprovalStaysValid
<1>1. OrderInv => ApprovalStaysValid
  BY DEF OrderInv
<1>2. QED BY <1>1, OrderInvHolds, PTL

\* The order table never shows a buy past the daily attempts, nor one after a
\* streak of canceled limit/ioc orders, whatever crashes and restarts.
THEOREM LimitsHold == Spec => []BuysWithinLimits
<1>1. OrderInv => BuysWithinLimits
  BY DEF OrderInv
<1>2. QED BY <1>1, OrderInvHolds, PTL

(***************************************************************************)
(* The totals of the table                                                 *)
(***************************************************************************)

\* Every row carries the total of the row before it on: what add_order makes
\* of a table is all there ever is in it.
Consistent(rows) ==
    \A i \in 1..Len(rows) :
        rows[i].open = Applied(OpenQty(rows, i - 1), rows[i].side, rows[i].status, rows[i].filled)

\* Induction over rows: a set of numbers that is not empty has a least one.
LEMMA LeastNumber ==
    ASSUME NEW T, T \subseteq Nat, T # {}
    PROVE  \E x \in T : \A y \in T : x <= y
<1> DEFINE R == {ss \in Nat \X Nat : ss[1] < ss[2]}
<1>1. IsWellFoundedOn(R, Nat)
  BY NatLessThanWellFounded DEF OpToRel
<1>2. \E x \in T : \A y \in T : <<y, x>> \notin R
  <2> HIDE DEF R
  <2> QED BY <1>1, WFMin
<1>3. ASSUME NEW x \in T, NEW y \in T, <<y, x>> \notin R PROVE x <= y
  <2>1. x \in Nat /\ y \in Nat /\ <<y, x>> \in Nat \X Nat
    OBVIOUS
  <2>2. ~(<<y, x>>[1] < <<y, x>>[2])
    BY <1>3, <2>1 DEF R
  <2>3. QED BY <2>1, <2>2
<1>4. QED
  <2> HIDE DEF R
  <2> QED BY <1>2, <1>3

\* So the total that is carried along is what a replay from nothing finds.
LEMMA TotalIsReplay ==
    ASSUME NEW rows \in Seq(Rows), Consistent(rows), NEW n \in 0..Len(rows)
    PROVE  Replay(rows, n) = OpenQty(rows, n)
<1> DEFINE Step(f, i) == IF i = 0 THEN 0
                         ELSE Applied(f[i - 1], rows[i].side, rows[i].status, rows[i].filled)
           Replays(f) == f = [i \in 0..n |-> Step(f, i)]
           totals == [i \in 0..n |-> OpenQty(rows, i)]
           open == CHOOSE f : Replays(f)
<1>1. Replays(totals)
  <2>1. ASSUME NEW i \in 0..n PROVE OpenQty(rows, i) = Step(totals, i)
    <3>1. CASE i = 0
      BY <3>1 DEF OpenQty
    <3>2. CASE i # 0
      <4>1. i - 1 \in 0..n /\ i \in 1..Len(rows)
        BY <3>2
      <4>2. totals[i - 1] = OpenQty(rows, i - 1)
        BY <4>1
      <4>3. QED BY <3>2, <4>1, <4>2 DEF OpenQty, Consistent
    <3>3. QED BY <3>1, <3>2
  <2>2. QED BY <2>1
<1>2. Replays(open)
  <2> HIDE DEF Replays
  <2> QED BY <1>1, Zenon
<1>3. Replay(rows, n) = open[n]
  BY DEF Replay
<1>4. \A i \in 0..n : open[i] = totals[i]
  <2> DEFINE Wrong == {i \in 0..n : open[i] # totals[i]}
  <2> SUFFICES ASSUME Wrong # {} PROVE FALSE
    OBVIOUS
  <2>1. PICK i \in Wrong : \A j \in Wrong : i <= j
    <3>1. Wrong \subseteq Nat
      OBVIOUS
    <3>2. QED
      <4> HIDE DEF Wrong
      <4> QED BY <3>1, LeastNumber
  <2>2. open[i] = Step(open, i) /\ totals[i] = Step(totals, i)
    <3>1. \A f : Replays(f) => f[i] = Step(f, i)
      <4> HIDE DEF Step
      <4> QED BY <2>1
    <3>2. QED
      <4> HIDE DEF Replays, open, totals, Step
      <4> QED BY <1>1, <1>2, <3>1
  <2>3. CASE i = 0
    BY <2>1, <2>2, <2>3
  <2>4. CASE i # 0
    <3>1. i - 1 \in 0..n /\ i - 1 \notin Wrong
      BY <2>1, <2>4
    <3>2. open[i - 1] = totals[i - 1]
      BY <3>1
    <3>3. QED
      <4> HIDE DEF open, totals
      <4> QED BY <2>1, <2>2, <2>4, <3>2
  <2>5. QED BY <2>3, <2>4
<1>5. QED
  <2>1. open[n] = totals[n]
    <3> HIDE DEF open, totals
    <3> QED BY <1>4
  <2>2. QED BY <1>3, <2>1

(***************************************************************************)
(* What a step does to the runs                                            *)
(***************************************************************************)

OneCallerOnly == \A c, d \in Callers : c = d

\* After a step a run either is over, or goes on with what it knew, and was
\* not approved or at the broker by that step.
CarriesOn(c) ==
    /\ pc'[c] # "idle" => pc[c] # "idle" /\ bar'[c] = bar[c]
    /\ pc'[c] \in {"signal", "posting", "replying", "checking", "order_alert"} =>
          /\ side'[c] = side[c] /\ hard'[c] = hard[c]
          /\ position'[c] = position[c] /\ response'[c] = response[c]
    /\ pc'[c] \in {"account", "signal"} => pc[c] \in {"position", "answered", pc'[c]}
    /\ pc'[c] = "signal" => pc[c] = "signal"
    /\ pc'[c] = "posting" => pc[c] \in {"signal", "posting"}

LEMMA EndCarriesOn ==
    ASSUME TypeInv, NEW a \in Actors, End(a)
    PROVE  \A c \in Callers : CarriesOn(c) /\ (c # a => pc'[c] = pc[c] /\ position'[c] = position[c])
<1>1. pc'[a] = "idle"
  BY DEF TypeInv, CoroutinesOK, End, Goto
<1>2. ASSUME NEW c \in Actors, c # a
      PROVE  /\ pc'[c] = pc[c] /\ bar'[c] = bar[c] /\ side'[c] = side[c] /\ hard'[c] = hard[c]
             /\ position'[c] = position[c] /\ response'[c] = response[c]
  BY <1>2 DEF TypeInv, CoroutinesOK, End, Goto
<1>3. QED BY <1>1, <1>2 DEF CarriesOn, Actors

LEMMA GotoCarriesOn ==
    ASSUME TypeInv, NEW a \in Actors, NEW stage \in Stages, Goto(a, stage), UNCHANGED <<bar, side, hard>>,
           pc[a] # "idle", stage \notin {"signal", "account"},
           stage \in OrderStages => UNCHANGED <<position, response>>,
           stage = "posting" => pc[a] = "signal",
           \A c \in Actors \ {a} : position'[c] = position[c] /\ response'[c] = response[c]
    PROVE  \A c \in Callers : CarriesOn(c) /\ (c # a => pc'[c] = pc[c] /\ position'[c] = position[c])
<1>1. pc'[a] = stage
  BY DEF TypeInv, CoroutinesOK, Goto
<1>2. \A c \in Actors \ {a} : pc'[c] = pc[c]
  BY DEF TypeInv, CoroutinesOK, Goto
<1>3. QED BY <1>1, <1>2 DEF CarriesOn, Actors, OrderStages

LEMMA LearnCarriesOn ==
    ASSUME TypeInv, NEW a \in Actors, NEW qty \in Nat, Learn(a, qty), pc[a] \in {"position", "answered"}
    PROVE  \A c \in Callers :
              /\ CarriesOn(c)
              /\ c # a => pc'[c] = pc[c] /\ position'[c] = position[c]
              /\ c = a => pc'[c] = "account" /\ position'[c] = qty
<1>1. CASE a \in Viewers
  BY <1>1, EndCarriesOn, ActorsAssumption DEF Learn
<1>2. CASE a \notin Viewers
  <2>1. pc'[a] = "account" /\ position'[a] = qty
    BY <1>2 DEF Learn, TypeInv, CoroutinesOK, Goto
  <2>2. \A c \in Actors \ {a} : pc'[c] = pc[c] /\ position'[c] = position[c]
    BY <1>2 DEF Learn, TypeInv, CoroutinesOK, Goto
  <2>3. UNCHANGED <<bar, side, hard, response>>
    BY <1>2 DEF Learn
  <2>4. QED BY <2>1, <2>2, <2>3 DEF CarriesOn, Actors
<1>3. QED BY <1>1, <1>2

\* Where nobody moves, everybody carries on.
LEMMA NobodyMoves ==
    ASSUME UNCHANGED coroutines
    PROVE  \A c \in Callers : CarriesOn(c) /\ pc'[c] = pc[c] /\ position'[c] = position[c]
BY DEF CarriesOn, coroutines, locals

(***************************************************************************)
(* One attempt per bar                                                     *)
(***************************************************************************)

\* Of all the bars attempted on a side only the last is remembered, and that
\* is enough because it is the greatest: the run in flight has a bar that is
\* none of the past, and one that was not forced has a new one.
Attempts ==
    /\ \A t \in attempted : t[2] <= last_attempt[t[1]]
    /\ \A s \in Sides : last_attempt[s] <= latest_bar
    /\ \A c \in Callers : pc[c] # "idle" =>
          bar[c] <= latest_bar /\ \A s \in Sides : last_attempt[s] <= bar[c]
    /\ \A c \in Callers : pc[c] = "signal" /\ ~hard[c] => last_attempt[side[c]] < bar[c]

LEMMA AttemptsKept ==
    ASSUME Attempts, UNCHANGED <<attempted, last_attempt, latest_bar>>, \A c \in Callers : CarriesOn(c)
    PROVE  Attempts'
BY DEF Attempts, CarriesOn

LEMMA RememberAttempts ==
    ASSUME OneCallerOnly, TypeInv, Attempts, NEW c \in Callers, pc[c] = "signal", Remember(c),
           pc'[c] # "signal", pc'[c] # "idle" => bar'[c] = bar[c]
    PROVE  Attempts'
<1> USE DEF Attempts
<1>1. side[c] \in Sides /\ bar[c] \in Nat /\ last_attempt \in [Sides -> Nat]
  BY BoundsAssumption DEF TypeInv, CoroutinesOK, LocalsOK, MemoryOK, InFlight, OrderStages, Bars
<1>2. /\ last_attempt'[side[c]] = bar[c]
      /\ \A s \in Sides \ {side[c]} : last_attempt'[s] = last_attempt[s]
  BY <1>1 DEF Remember
<1>3. latest_bar' = latest_bar /\ latest_bar \in Nat /\ \A d \in Callers : d = c
  BY DEF Remember, OneCallerOnly, TypeInv, DatabaseOK, Bars
<1>4. ASSUME NEW t \in attempted' PROVE t[2] <= last_attempt'[t[1]]
  <2>1. CASE t \in attempted
    <3>1. t[1] \in Sides /\ t[2] \in Nat
      BY <2>1 DEF TypeInv, MemoryOK, Bars
    <3>2. t[2] <= last_attempt[t[1]] /\ last_attempt[t[1]] <= bar[c]
      BY <2>1, <3>1
    <3>3. QED BY <1>1, <1>2, <3>1, <3>2
  <2>2. CASE t \notin attempted
    <3>1. t = <<side[c], bar[c]>>
      BY <2>2 DEF Remember
    <3>2. QED BY <1>1, <1>2, <3>1
  <2>3. QED BY <2>1, <2>2
<1>5. \A s \in Sides : last_attempt'[s] <= bar[c]
  BY <1>1, <1>2
<1>6. bar[c] <= latest_bar
  OBVIOUS
<1>7. \A s \in Sides : last_attempt'[s] <= latest_bar'
  BY <1>1, <1>2, <1>3, <1>5, <1>6
<1>8. QED BY <1>3, <1>4, <1>5, <1>6, <1>7

LEMMA AttemptsRead ==
    ASSUME TypeInv, Attempts, NEW a \in Actors, ReadStep(a)
    PROVE  Attempts'
<1>0. Len(orders) \in Nat /\ OpenQty(orders, Len(orders)) \in Nat /\ local_qty \in Nat /\ position[a] \in Nat
      /\ position_cache \subseteq Nat
  BY OpenQtyType DEF TypeInv, DatabaseOK, MemoryOK, CoroutinesOK
<1>1. CASE ReadLocalPosition(a)
  BY <1>0, <1>1, LearnCarriesOn, AttemptsKept DEF ReadLocalPosition, market
<1>2. CASE ReadCachedPosition(a)
  BY <1>0, <1>2, LearnCarriesOn, AttemptsKept DEF ReadCachedPosition, memory, market
<1>3. CASE RequestPosition(a)
  BY <1>3, GotoCarriesOn, AttemptsKept DEF RequestPosition, Stages, OrderStages, locals, memory, market
<1>4. CASE AnswerPosition(a)
  <2>1. \A d \in Actors \ {a} : position'[d] = position[d]
    BY <1>4 DEF AnswerPosition, TypeInv, CoroutinesOK
  <2>2. QED
    BY <1>4, <2>1, GotoCarriesOn, AttemptsKept DEF AnswerPosition, Stages, OrderStages, memory, market
<1>5. CASE ReceivePosition(a)
  BY <1>0, <1>5, LearnCarriesOn, AttemptsKept DEF ReceivePosition, market
<1>6. CASE PositionFails(a)
  BY <1>6, EndCarriesOn, AttemptsKept DEF PositionFails, memory, market
<1>7. QED BY <1>1, <1>2, <1>3, <1>4, <1>5, <1>6 DEF ReadStep

LEMMA AttemptsStart ==
    ASSUME TypeInv, Attempts, \/ \E v \in Viewers : StartView(v)
                              \/ \E c \in Callers : StartRun(c)
    PROVE  Attempts'
<1>1. ASSUME NEW v \in Viewers, StartView(v) PROVE Attempts'
  <2>1. \A c \in Callers : CarriesOn(c)
    BY <1>1, ActorsAssumption DEF StartView, Goto, locals, CarriesOn, TypeInv, CoroutinesOK, Actors
  <2>2. QED BY <1>1, <2>1, AttemptsKept DEF StartView, memory, market
<1>2. ASSUME NEW c \in Callers, StartRun(c) PROVE Attempts'
  <2>1. pc'[c] = "position" /\ bar'[c] = latest_bar
        /\ \A d \in Callers \ {c} : pc'[d] = pc[d] /\ bar'[d] = bar[d]
    BY <1>2 DEF StartRun, Goto, TypeInv, CoroutinesOK, Actors
  <2>2. UNCHANGED <<side, hard, attempted, last_attempt, latest_bar>> /\ latest_bar \in Nat
    BY <1>2 DEF StartRun, memory, market, TypeInv, DatabaseOK, Bars
  <2>3. QED BY <2>1, <2>2 DEF Attempts
<1>3. QED BY <1>1, <1>2

LEMMA AttemptsApprove ==
    ASSUME TypeInv, Attempts, NEW c \in Callers, NEW wanted \in Sides, NEW forced \in BOOLEAN,
           Approve(c, wanted, forced)
    PROVE  Attempts'
<1>1. /\ pc'[c] = "signal" /\ side'[c] = wanted /\ hard'[c] = forced
      /\ \A d \in Callers \ {c} : pc'[d] = pc[d] /\ side'[d] = side[d] /\ hard'[d] = hard[d]
  BY DEF Approve, Goto, TypeInv, CoroutinesOK, Actors
<1>2. UNCHANGED <<bar, attempted, last_attempt, latest_bar>> /\ pc[c] = "account"
  BY DEF Approve, market
<1>3. bar[c] \in Nat /\ last_attempt[wanted] \in Nat
  BY BoundsAssumption DEF TypeInv, CoroutinesOK, MemoryOK, Actors
<1>4. ~forced => last_attempt[wanted] < bar[c]
  BY <1>2, <1>3 DEF Approve, IsDuplicate, Attempts
<1>5. QED BY <1>1, <1>2, <1>4 DEF Attempts

LEMMA AttemptsDecide ==
    ASSUME TypeInv, Attempts, NEW c \in Callers, DecideStep(c)
    PROVE  Attempts'
<1>1. CASE ApproveBuy(c)
  BY <1>1, AttemptsApprove DEF ApproveBuy, Sides
<1>2. CASE \E forced \in BOOLEAN : ApproveSell(c, forced)
  BY <1>2, AttemptsApprove DEF ApproveSell, Sides
<1>3. CASE Hold(c)
  BY <1>3, EndCarriesOn, AttemptsKept DEF Hold, Actors, memory, market
<1>4. QED BY <1>1, <1>2, <1>3 DEF DecideStep

\* Every way to place an order starts by remembering its bar; the steps that
\* follow leave the memory alone.
LEMMA AttemptsSubmit ==
    ASSUME OneCallerOnly, TypeInv, Attempts, NEW c \in Callers, SubmitStep(c)
    PROVE  Attempts'
<1>0. c \in Actors
  BY DEF Actors
<1>1. CASE StoreSignalFails(c)
  BY <1>0, <1>1, EndCarriesOn, AttemptsKept DEF StoreSignalFails, memory, market
<1>2. CASE LimitPriceMissing(c)
  <2>1. pc'[c] = "idle"
    BY <1>0, <1>2 DEF LimitPriceMissing, Release, End, Goto, TypeInv, CoroutinesOK
  <2>2. QED BY <1>2, <2>1, RememberAttempts DEF LimitPriceMissing
<1>3. CASE SubmitLocalOrder(c)
  <2>1. pc'[c] # "signal" /\ (pc'[c] # "idle" => bar'[c] = bar[c])
    BY <1>0, <1>3
    DEF SubmitLocalOrder, AddOrder, AddOrderFails, Release, End, Goto, TypeInv, CoroutinesOK
  <2>2. QED BY <1>3, <2>1, RememberAttempts DEF SubmitLocalOrder
<1>4. CASE PostOrder(c)
  <2>1. pc'[c] = "posting" /\ bar' = bar
    BY <1>0, <1>4 DEF PostOrder, Goto, TypeInv, CoroutinesOK, locals
  <2>2. QED BY <1>4, <2>1, RememberAttempts DEF PostOrder
<1>5. CASE BrokerExecutes(c)
  <2>1. /\ pc'[c] = "replying" /\ pc[c] = "posting" /\ UNCHANGED <<bar, side, hard>>
        /\ \A d \in Callers \ {c} : pc'[d] = pc[d]
    BY <1>0, <1>5 DEF BrokerExecutes, Goto, TypeInv, CoroutinesOK, Actors
  <2>2. QED BY <1>5, <2>1 DEF BrokerExecutes, memory, market, Attempts
<1>6. CASE BrokerRests(c)
  BY <1>0, <1>6, GotoCarriesOn, AttemptsKept DEF BrokerRests, Stages, OrderStages, locals, memory, market
<1>7. CASE BrokerRefuses(c)
  BY <1>0, <1>7, EndCarriesOn, AttemptsKept DEF BrokerRefuses, Release, market
<1>8. CASE PostFails(c)
  BY <1>0, <1>8, EndCarriesOn, AttemptsKept DEF PostFails, Release, market
<1>9. CASE ReceiveReply(c)
  BY <1>0, <1>9, GotoCarriesOn, AttemptsKept DEF ReceiveReply, Stages, OrderStages, locals, market
<1>10. CASE CheckStatus(c)
  <2>1. ASSUME NEW status, AddOrder(c, status, response[c].filled) PROVE Attempts'
    <3>1. /\ pc'[c] = "order_alert" /\ pc[c] = "checking" /\ UNCHANGED <<bar, side, hard>>
          /\ \A d \in Callers \ {c} : pc'[d] = pc[d]
      BY <1>0, <1>10, <2>1 DEF CheckStatus, AddOrder, Goto, TypeInv, CoroutinesOK, Actors
    <3>2. QED BY <1>10, <3>1 DEF CheckStatus, market, Attempts
  <2>2. CASE AddOrderFails(c)
    BY <1>0, <1>10, <2>2, EndCarriesOn, AttemptsKept DEF CheckStatus, AddOrderFails, Release, market
  <2>3. QED BY <1>10, <2>1, <2>2 DEF CheckStatus
<1>11. CASE Finish(c)
  BY <1>0, <1>11, EndCarriesOn, AttemptsKept DEF Finish, Release, market
<1>12. QED
  BY <1>1, <1>2, <1>3, <1>4, <1>5, <1>6, <1>7, <1>8, <1>9, <1>10, <1>11 DEF SubmitStep

LEMMA AttemptsEnvironment ==
    ASSUME TypeInv, Attempts, EnvironmentStep
    PROVE  Attempts'
<1>1. CASE CacheExpires
  BY <1>1, NobodyMoves, AttemptsKept DEF CacheExpires, market
<1>2. CASE RowAges
  BY <1>2, NobodyMoves, AttemptsKept DEF RowAges, memory, market
<1>3. CASE BarCloses
  <2>1. last_attempt \in [Sides -> Nat] /\ bar \in [Actors -> Nat] /\ latest_bar \in Nat
    BY BoundsAssumption DEF TypeInv, MemoryOK, CoroutinesOK, DatabaseOK, Bars
  <2>2. latest_bar' = latest_bar + 1 /\ UNCHANGED <<pc, bar, hard, side, attempted, last_attempt>>
    BY <1>3 DEF BarCloses, coroutines, locals, memory
  <2>3. QED BY <2>1, <2>2 DEF Attempts, Actors
<1>4. CASE Restart
  <2>1. /\ attempted' = {} /\ last_attempt' = [s \in Sides |-> 0] /\ latest_bar' = latest_bar
        /\ \A c \in Callers : pc'[c] = "idle"
    BY <1>4 DEF Restart, Actors
  <2>2. QED BY <2>1 DEF TypeInv, DatabaseOK, Bars, Attempts
<1>5. ASSUME NEW s \in Sides, RestingExecutes(s) PROVE Attempts'
  BY <1>5, NobodyMoves, AttemptsKept DEF RestingExecutes, memory, market
<1>6. QED BY <1>1, <1>2, <1>3, <1>4, <1>5 DEF EnvironmentStep

LEMMA AttemptsNext == OneCallerOnly /\ TypeInv /\ Attempts /\ [Next]_vars => Attempts'
<1> SUFFICES ASSUME OneCallerOnly, TypeInv, Attempts, [Next]_vars PROVE Attempts'
  OBVIOUS
<1>1. ASSUME NEW a \in Actors, ReadStep(a) PROVE Attempts'
  BY <1>1, AttemptsRead
<1>2. ASSUME NEW v \in Viewers, StartView(v) PROVE Attempts'
  BY <1>2, AttemptsStart
<1>3. ASSUME NEW c \in Callers, CallerStep(c) PROVE Attempts'
  BY <1>3, AttemptsStart, AttemptsDecide, AttemptsSubmit DEF CallerStep
<1>4. CASE EnvironmentStep
  BY <1>4, AttemptsEnvironment
<1>5. CASE UNCHANGED vars
  BY <1>5, NobodyMoves, AttemptsKept DEF vars, memory, market
<1>6. QED BY <1>1, <1>2, <1>3, <1>4, <1>5 DEF Next

\* With one caller, the scheduler loop, no BUY and no voluntary SELL is ever
\* attempted twice on one bar by the same process, although hard exits move
\* the one remembered bar too, and whatever fails after it is remembered.
THEOREM OneAttemptHolds == OneCallerOnly => (Spec => []OneAttemptPerBar)
<1> SUFFICES ASSUME OneCallerOnly PROVE Spec => []OneAttemptPerBar
  OBVIOUS
<1>1. Init => TypeInv /\ Attempts
  <2>1. Init => Attempts
    BY DEF Init, Attempts, Actors
  <2>2. QED BY <2>1, TypeInit
<1>2. TypeInv /\ Attempts /\ [Next]_vars => (TypeInv /\ Attempts)'
  BY TypeNext, AttemptsNext
<1>3. TypeInv /\ Attempts => OneAttemptPerBar
  <2> SUFFICES ASSUME TypeInv, Attempts, NEW c \in Callers, pc[c] = "signal", ~hard[c],
                      <<side[c], bar[c]>> \in attempted
               PROVE  FALSE
    BY DEF OneAttemptPerBar
  <2>1. side[c] \in Sides /\ bar[c] \in Nat /\ last_attempt[side[c]] \in Nat
    BY BoundsAssumption DEF TypeInv, CoroutinesOK, LocalsOK, MemoryOK, InFlight, OrderStages, Bars
  <2>2. bar[c] <= last_attempt[side[c]]
    BY DEF Attempts
  <2>3. last_attempt[side[c]] < bar[c]
    BY DEF Attempts
  <2>4. QED BY <2>1, <2>2, <2>3
<1>4. QED BY <1>1, <1>2, <1>3, PTL DEF Spec

(***************************************************************************)
(* The steps of local simulation                                           *)
(***************************************************************************)

\* A locally simulated order never suspends at the broker.
LocalStages ==
    LocalSim => \A a \in Actors : pc[a] \in {"idle", "position", "account", "signal", "order_alert"}

\* So these are the steps of a coroutine that are left.
LocalStep ==
    \/ \E a \in Actors : ReadLocalPosition(a)
    \/ \E v \in Viewers : StartView(v)
    \/ \E c \in Callers : \/ StartRun(c) \/ DecideStep(c)
                          \/ StoreSignalFails(c) \/ LimitPriceMissing(c)
                          \/ SubmitLocalOrder(c) \/ Finish(c)

LEMMA LocalNext ==
    ASSUME LocalSim, LocalStages, Next
    PROVE  LocalStep \/ EnvironmentStep
<1>1. ASSUME NEW a \in Actors, ReadStep(a) PROVE ReadLocalPosition(a)
  BY <1>1 DEF ReadStep, ReadCachedPosition, RequestPosition, AnswerPosition, ReceivePosition, PositionFails,
              LocalStages
<1>2. ASSUME NEW c \in Callers, SubmitStep(c)
      PROVE  StoreSignalFails(c) \/ LimitPriceMissing(c) \/ SubmitLocalOrder(c) \/ Finish(c)
  BY <1>2 DEF SubmitStep, PostOrder, BrokerExecutes, BrokerRests, BrokerRefuses, PostFails, ReceiveReply,
              CheckStatus, LocalStages, Actors
<1>3. QED BY <1>1, <1>2 DEF Next, CallerStep, LocalStep

LEMMA LocalStagesNext == TypeInv /\ LocalStages /\ [Next]_vars => LocalStages'
<1> SUFFICES ASSUME LocalSim, TypeInv, LocalStages, [Next]_vars
             PROVE  \A a \in Actors : pc'[a] \in {"idle", "position", "account", "signal", "order_alert"}
  BY DEF LocalStages
<1> USE DEF LocalStages, TypeInv, CoroutinesOK
<1>1. ASSUME NEW a \in Actors, ReadLocalPosition(a)
      PROVE  pc' = [pc EXCEPT ![a] = "account"] \/ pc' = [pc EXCEPT ![a] = "idle"]
  BY <1>1 DEF ReadLocalPosition, Learn, End, Goto
<1>2. ASSUME NEW v \in Viewers, StartView(v) PROVE pc' = [pc EXCEPT ![v] = "position"]
  BY <1>2 DEF StartView, Goto
<1>3. ASSUME NEW c \in Callers, StartRun(c) PROVE pc' = [pc EXCEPT ![c] = "position"]
  BY <1>3 DEF StartRun, Goto
<1>4. ASSUME NEW c \in Callers, DecideStep(c)
      PROVE  pc' = [pc EXCEPT ![c] = "signal"] \/ pc' = [pc EXCEPT ![c] = "idle"]
  BY <1>4 DEF DecideStep, ApproveBuy, ApproveSell, Approve, Hold, End, Goto
<1>5. ASSUME NEW c \in Callers, StoreSignalFails(c) \/ LimitPriceMissing(c) \/ Finish(c)
      PROVE  pc' = [pc EXCEPT ![c] = "idle"]
  BY <1>5 DEF StoreSignalFails, LimitPriceMissing, Finish, Release, End, Goto
<1>6. ASSUME NEW c \in Callers, SubmitLocalOrder(c)
      PROVE  pc' = [pc EXCEPT ![c] = "order_alert"] \/ pc' = [pc EXCEPT ![c] = "idle"]
  BY <1>6 DEF SubmitLocalOrder, AddOrder, AddOrderFails, Release, End, Goto
<1>7. CASE LocalStep
  BY <1>1, <1>2, <1>3, <1>4, <1>5, <1>6, <1>7 DEF LocalStep, Actors
<1>8. CASE EnvironmentStep
  BY <1>8 DEF EnvironmentStep, CacheExpires, RowAges, BarCloses, Restart, RestingExecutes, coroutines
<1>9. CASE UNCHANGED vars
  BY <1>9 DEF vars, coroutines
<1>10. QED BY <1>7, <1>8, <1>9, LocalNext

\* A row is only ever written by add_order, from the table it is added to.
LEMMA ConsistentAppend ==
    ASSUME NEW rows \in Seq(Rows), Consistent(rows), NEW s \in Sides, NEW status \in Statuses,
           NEW filled \in Nat
    PROVE  Consistent(Append(rows, NewRow(rows, s, status, filled)))
<1> DEFINE row == NewRow(rows, s, status, filled)
           longer == Append(rows, row)
<1>1. row \in Rows
  BY NewRowType
<1>2. Len(longer) = Len(rows) + 1 /\ Len(rows) \in Nat
  BY <1>1, AppendKeeps
<1>3. longer[Len(rows) + 1] = row /\ \A i \in 1..Len(rows) : longer[i] = rows[i]
  BY <1>1, AppendKeeps
<1>4. \A i \in 0..Len(rows) : OpenQty(longer, i) = OpenQty(rows, i)
  BY <1>2, <1>3 DEF OpenQty
<1> HIDE DEF longer, row
<1>5. ASSUME NEW i \in 1..Len(longer)
      PROVE  longer[i].open = Applied(OpenQty(longer, i - 1), longer[i].side, longer[i].status, longer[i].filled)
  <2>1. i - 1 \in 0..Len(rows)
    BY <1>2
  <2>2. OpenQty(longer, i - 1) = OpenQty(rows, i - 1)
    BY <1>4, <2>1
  <2>3. CASE i \in 1..Len(rows)
    BY <1>3, <2>2, <2>3 DEF Consistent
  <2>4. CASE i = Len(rows) + 1
    <3>1. OpenQty(longer, i - 1) = OpenQty(rows, Len(rows))
      BY <1>2, <2>2, <2>4
    <3>2. row.open = Applied(OpenQty(rows, Len(rows)), row.side, row.status, row.filled)
      BY DEF row, NewRow
    <3>3. QED BY <1>3, <2>4, <3>1, <3>2
  <2>5. QED BY <1>2, <2>3, <2>4
<1>6. QED BY <1>5 DEF Consistent, longer, row

\* What a step does to the table.
LEMMA TableSteps ==
    ASSUME TypeInv, [Next]_vars
    PROVE  \/ orders' = orders
           \/ \E c \in Callers, status \in Statuses, filled \in Nat :
                 orders' = Append(orders, NewRow(orders, side[c], status, filled)) /\ side[c] \in Sides
<1>1. ASSUME NEW a \in Actors, ReadStep(a) PROVE orders' = orders
  BY <1>1 DEF ReadStep, ReadLocalPosition, ReadCachedPosition, RequestPosition, AnswerPosition,
              ReceivePosition, PositionFails, database
<1>2. ASSUME NEW v \in Viewers, StartView(v) PROVE orders' = orders
  BY <1>2 DEF StartView, database
<1>3. ASSUME NEW c \in Callers, StartRun(c) \/ DecideStep(c) PROVE orders' = orders
  BY <1>3 DEF StartRun, DecideStep, ApproveBuy, ApproveSell, Approve, Hold, database
<1>4. ASSUME NEW c \in Callers, SubmitStep(c)
      PROVE  \/ orders' = orders
             \/ \E status \in Statuses, filled \in Nat :
                   orders' = Append(orders, NewRow(orders, side[c], status, filled)) /\ side[c] \in Sides
  <2>1. CASE SubmitLocalOrder(c)
    <3>1. PICK filled \in 0..Requested(c) :
             \/ AddOrder(c, FinalStatus(filled, Requested(c)), filled)
             \/ AddOrderFails(c)
      BY <2>1 DEF SubmitLocalOrder
    <3>2. filled \in Nat /\ FinalStatus(filled, Requested(c)) \in Statuses
      BY RequestedType
    <3>3. side[c] \in Sides
      BY <2>1 DEF SubmitLocalOrder, TypeInv, CoroutinesOK, LocalsOK, InFlight, OrderStages
    <3>4. QED BY <3>1, <3>2, <3>3 DEF AddOrder, AddOrderFails
  <2>2. CASE CheckStatus(c)
    <3>1. response[c].status \in Statuses /\ response[c].final \in Statuses /\ response[c].filled \in Nat
      BY DEF TypeInv, CoroutinesOK, Responses, Actors
    <3>2. side[c] \in Sides
      BY <2>2 DEF CheckStatus, TypeInv, CoroutinesOK, LocalsOK, InFlight, OrderStages
    <3>3. QED BY <2>2, <3>1, <3>2 DEF CheckStatus, AddOrder, AddOrderFails
  <2>3. QED
    BY <1>4, <2>1, <2>2
    DEF SubmitStep, StoreSignalFails, LimitPriceMissing, PostOrder, BrokerExecutes, BrokerRests, BrokerRefuses,
        PostFails, ReceiveReply, Finish, database
<1>5. CASE EnvironmentStep
  BY <1>5 DEF EnvironmentStep, CacheExpires, RowAges, BarCloses, Restart, RestingExecutes, database
<1>6. CASE UNCHANGED vars
  BY <1>6 DEF vars, database
<1>7. QED BY <1>1, <1>2, <1>3, <1>4, <1>5, <1>6 DEF Next, CallerStep

LEMMA ConsistentNext == TypeInv /\ Consistent(orders) /\ [Next]_vars => Consistent(orders)'
<1> SUFFICES ASSUME TypeInv, Consistent(orders), [Next]_vars PROVE Consistent(orders')
  OBVIOUS
<1>1. orders \in Seq(Rows)
  BY DEF TypeInv, DatabaseOK
<1>2. QED BY <1>1, TableSteps, ConsistentAppend

\* What holds of the table and of the stages in either mode.
LEMMA BasicsHold == Spec => [](TypeInv /\ LocalStages /\ Consistent(orders))
<1>1. Init => TypeInv /\ LocalStages /\ Consistent(orders)
  <2>1. Init => LocalStages /\ Consistent(orders)
    BY DEF Init, LocalStages, Consistent
  <2>2. QED BY <2>1, TypeInit
<1>2. TypeInv /\ LocalStages /\ Consistent(orders) /\ [Next]_vars
         => (TypeInv /\ LocalStages /\ Consistent(orders))'
  BY TypeNext, LocalStagesNext, ConsistentNext
<1>3. QED BY <1>1, <1>2, PTL DEF Spec

\* However the table came about, the total its last row carries is what
\* local_simulated_position_from_orders finds when it replays the rows.
THEOREM TotalsTheorem == Spec => []TotalsAreReplay
<1>1. TypeInv /\ Consistent(orders) => TotalsAreReplay
  <2> SUFFICES ASSUME TypeInv, Consistent(orders), NEW i \in DOMAIN orders
               PROVE  OpenQty(orders, i) = Replay(orders, i)
    BY DEF TotalsAreReplay
  <2>1. orders \in Seq(Rows) /\ i \in 0..Len(orders)
    BY DEF TypeInv, DatabaseOK
  <2>2. QED BY <2>1, TotalIsReplay
<1>2. QED BY <1>1, BasicsHold, PTL

(***************************************************************************)
(* Memory and table                                                        *)
(***************************************************************************)

AllOpen == OpenQty(orders, Len(orders))

\* Between reading the position and placing its order a run relies on what
\* memory holds, so that there it is what the table leaves open even if it is
\* nothing; elsewhere memory may have been lost.
MemoryKnows ==
    LocalSim =>
        /\ local_qty # 0 => local_qty = AllOpen
        /\ \A c \in Callers : pc[c] \in {"account", "signal"} => local_qty = AllOpen

\* What an order fills locally is what its row adds to the table.
LEMMA FillIsApplied ==
    ASSUME TypeInv, NEW c \in Callers, pc[c] = "signal", NEW filled \in 0..Requested(c),
           local_qty = AllOpen, local_qty' = ApplyLocalFill(c, filled),
           AddOrder(c, FinalStatus(filled, Requested(c)), filled)
    PROVE  /\ local_qty' = AllOpen'
           /\ orders' = Append(orders, NewRow(orders, side[c], FinalStatus(filled, Requested(c)), filled))
           /\ side[c] \in Sides /\ filled \in Nat /\ FinalStatus(filled, Requested(c)) \in Statuses
<1> DEFINE status == FinalStatus(filled, Requested(c))
           row == NewRow(orders, side[c], status, filled)
<1>1. side[c] \in Sides /\ orders \in Seq(Rows) /\ local_qty \in Nat
  BY DEF TypeInv, CoroutinesOK, LocalsOK, InFlight, OrderStages, DatabaseOK, MemoryOK
<1>2. Requested(c) \in Nat /\ filled \in Nat /\ status \in Statuses
  BY RequestedType
<1>3. row \in Rows /\ row.open = Applied(AllOpen, side[c], status, filled)
  BY <1>1, <1>2, NewRowType DEF AllOpen
<1>4. orders' = Append(orders, row)
  BY DEF AddOrder
<1>5. AllOpen' = row.open
  <2>1. Len(orders') = Len(orders) + 1 /\ orders'[Len(orders) + 1] = row /\ Len(orders) \in Nat
    BY <1>1, <1>3, <1>4, AppendKeeps
  <2>2. Len(orders') # 0
    BY <2>1
  <2>3. QED BY <2>1, <2>2 DEF AllOpen, OpenQty
<1>6. local_qty' = Applied(AllOpen, side[c], status, filled)
  <2>1. CASE filled = 0
    BY <1>1, <1>2, <2>1 DEF ApplyLocalFill, Reduced, FinalStatus, Applied, FilledStatuses, Sides
  <2>2. CASE filled # 0
    <3>1. status \in FilledStatuses
      BY <2>2 DEF FinalStatus, FilledStatuses
    <3>2. QED BY <3>1 DEF ApplyLocalFill, Applied
  <2>3. QED BY <2>1, <2>2
<1>7. QED BY <1>1, <1>2, <1>3, <1>4, <1>5, <1>6

\* A step that leaves memory and table alone and takes nobody past reading.
LEMMA MemoryKept ==
    ASSUME MemoryKnows, UNCHANGED <<local_qty, orders>>,
           \A c \in Callers : pc'[c] \in {"account", "signal"} => pc[c] \in {"account", "signal"}
    PROVE  MemoryKnows'
BY DEF MemoryKnows, AllOpen

LEMMA MemoryStep ==
    ASSUME LocalSim, "row" \notin Faults, TypeInv, MemoryKnows, LocalStep
    PROVE  MemoryKnows'
<1> USE DEF TypeInv, CoroutinesOK
<1>1. ASSUME NEW a \in Actors, ReadLocalPosition(a) PROVE MemoryKnows'
  <2>1. AllOpen \in Nat /\ local_qty \in Nat
    BY OpenQtyType DEF DatabaseOK, MemoryOK, AllOpen
  <2>2. orders' = orders /\ local_qty' = IF local_qty > 0 THEN local_qty ELSE AllOpen
    BY <1>1 DEF ReadLocalPosition, database, AllOpen
  <2>3. local_qty' = AllOpen
    BY <2>1, <2>2 DEF MemoryKnows
  <2>4. QED BY <2>2, <2>3 DEF MemoryKnows, AllOpen
<1>2. ASSUME NEW v \in Viewers, StartView(v) PROVE MemoryKnows'
  BY <1>2, MemoryKept DEF StartView, Goto, memory, database, Actors
<1>3. ASSUME NEW c \in Callers, StartRun(c) PROVE MemoryKnows'
  BY <1>3, MemoryKept DEF StartRun, Goto, memory, database, Actors
<1>4. ASSUME NEW c \in Callers, DecideStep(c) PROVE MemoryKnows'
  <2>1. UNCHANGED <<local_qty, orders>>
    BY <1>4 DEF DecideStep, ApproveBuy, ApproveSell, Approve, Hold, memory, database
  <2>2. pc[c] = "account" /\ \A d \in Callers \ {c} : pc'[d] = pc[d]
    BY <1>4 DEF DecideStep, ApproveBuy, ApproveSell, Approve, Hold, End, Goto, Actors
  <2>3. QED BY <2>1, <2>2, MemoryKept
<1>5. ASSUME NEW c \in Callers, StoreSignalFails(c) \/ LimitPriceMissing(c) \/ Finish(c) PROVE MemoryKnows'
  <2>1. UNCHANGED <<local_qty, orders>> /\ End(c)
    BY <1>5 DEF StoreSignalFails, LimitPriceMissing, Finish, Release, memory, database
  <2>2. pc'[c] = "idle" /\ \A d \in Callers \ {c} : pc'[d] = pc[d]
    BY <2>1 DEF End, Goto, Actors
  <2>3. QED BY <2>1, <2>2, MemoryKept
<1>6. ASSUME NEW c \in Callers, SubmitLocalOrder(c) PROVE MemoryKnows'
  <2>1. PICK filled \in 0..Requested(c) :
           local_qty' = ApplyLocalFill(c, filled) /\ AddOrder(c, FinalStatus(filled, Requested(c)), filled)
    BY <1>6 DEF SubmitLocalOrder, AddOrderFails
  <2>2. local_qty = AllOpen /\ pc[c] = "signal"
    BY <1>6 DEF SubmitLocalOrder, MemoryKnows
  <2>3. local_qty' = AllOpen'
    BY <2>1, <2>2, FillIsApplied
  <2>4. QED BY <2>3 DEF MemoryKnows
<1>7. QED BY <1>1, <1>2, <1>3, <1>4, <1>5, <1>6 DEF LocalStep

LEMMA MemoryNext ==
    "row" \notin Faults /\ TypeInv /\ LocalStages /\ MemoryKnows /\ [Next]_vars => MemoryKnows'
<1> SUFFICES ASSUME LocalSim, "row" \notin Faults, TypeInv, LocalStages, MemoryKnows, [Next]_vars
             PROVE  MemoryKnows'
  BY DEF MemoryKnows
<1>1. CASE LocalStep
  BY <1>1, MemoryStep
<1>2. CASE CacheExpires \/ RowAges \/ BarCloses \/ (\E s \in Sides : RestingExecutes(s))
  BY <1>2, MemoryKept DEF CacheExpires, RowAges, BarCloses, RestingExecutes, coroutines, memory, database
<1>3. CASE Restart
  BY <1>3 DEF Restart, MemoryKnows, database, Actors
<1>4. CASE UNCHANGED vars
  BY <1>4, MemoryKept DEF vars, coroutines, memory, database
<1>5. QED BY <1>1, <1>2, <1>3, <1>4, LocalNext DEF EnvironmentStep

\* In Alpaca mode memory holds no position at all.
LEMMA NoLocalQtyNext == ~LocalSim /\ local_qty = 0 /\ [Next]_vars => local_qty' = 0
<1> SUFFICES ASSUME ~LocalSim, local_qty = 0, [Next]_vars PROVE local_qty' = 0
  OBVIOUS
<1>1. ASSUME NEW a \in Actors, ReadStep(a) PROVE local_qty' = 0
  BY <1>1 DEF ReadStep, ReadLocalPosition, ReadCachedPosition, RequestPosition, AnswerPosition,
              ReceivePosition, PositionFails, memory
<1>2. ASSUME NEW v \in Viewers, StartView(v) PROVE local_qty' = 0
  BY <1>2 DEF StartView, memory
<1>3. ASSUME NEW c \in Callers, StartRun(c) \/ DecideStep(c) PROVE local_qty' = 0
  BY <1>3 DEF StartRun, DecideStep, ApproveBuy, ApproveSell, Approve, Hold, memory
<1>4. ASSUME NEW c \in Callers, SubmitStep(c) PROVE local_qty' = 0
  BY <1>4 DEF SubmitStep, StoreSignalFails, LimitPriceMissing, SubmitLocalOrder, PostOrder, BrokerExecutes,
              BrokerRests, BrokerRefuses, PostFails, ReceiveReply, CheckStatus, Finish, memory
<1>5. CASE EnvironmentStep
  BY <1>5 DEF EnvironmentStep, CacheExpires, RowAges, BarCloses, Restart, RestingExecutes, memory
<1>6. CASE UNCHANGED vars
  BY <1>6 DEF vars, memory
<1>7. QED BY <1>1, <1>2, <1>3, <1>4, <1>5, <1>6 DEF Next, CallerStep

\* Unless an order row cannot be written, dying at any moment neither loses
\* nor invents a part of the locally simulated position, however many runs
\* and viewers share the client.
THEOREM MemoryTheorem == "row" \notin Faults => (Spec => []MemoryMatchesLedger)
<1> SUFFICES ASSUME "row" \notin Faults PROVE Spec => []MemoryMatchesLedger
  OBVIOUS
<1>1. CASE LocalSim
  <2>1. Init => MemoryKnows
    BY DEF Init, MemoryKnows, AllOpen, OpenQty, Actors
  <2>2. TypeInv /\ LocalStages /\ MemoryKnows /\ [Next]_vars => MemoryKnows'
    BY MemoryNext
  <2>3. MemoryKnows => MemoryMatchesLedger
    BY <1>1 DEF MemoryKnows, MemoryMatchesLedger, AllOpen
  <2>4. QED BY <2>1, <2>2, <2>3, BasicsHold, PTL DEF Spec
<1>2. CASE ~LocalSim
  <2>1. Init => local_qty = 0
    BY DEF Init
  <2>2. local_qty = 0 /\ [Next]_vars => (local_qty = 0)'
    BY <1>2, NoLocalQtyNext
  <2>3. local_qty = 0 => MemoryMatchesLedger
    BY DEF MemoryMatchesLedger
  <2>4. QED BY <2>1, <2>2, <2>3, PTL DEF Spec
<1>3. QED BY <1>1, <1>2, ModeAssumption

(***************************************************************************)
(* One open position, in local simulation                                  *)
(***************************************************************************)

\* The position the only caller has read is still what memory holds when its
\* order is filled, and where memory holds nothing there is nothing for a
\* viewer to restore meanwhile; a buy has read that nothing is held.
LocalPosition ==
    LocalSim => \A c \in Callers :
        /\ pc[c] \in {"account", "signal"} =>
              position[c] = local_qty /\ (local_qty = 0 => AllOpen = 0)
        /\ pc[c] = "signal" => IF side[c] = "buy" THEN position[c] = 0 ELSE position[c] > 0

LEMMA LocalPositionKept ==
    ASSUME LocalPosition, UNCHANGED <<local_qty, orders>>,
           \A c \in Callers : /\ pc'[c] \in {"account", "signal"} => pc'[c] = pc[c] /\ position'[c] = position[c]
                              /\ pc'[c] = "signal" => side'[c] = side[c]
    PROVE  LocalPosition'
BY DEF LocalPosition, AllOpen

LEMMA LocalPositionRead ==
    ASSUME LocalSim, OneCallerOnly, TypeInv, LocalPosition, NEW a \in Actors, ReadLocalPosition(a)
    PROVE  LocalPosition'
<1>1. AllOpen \in Nat /\ local_qty \in Nat
  BY OpenQtyType DEF TypeInv, DatabaseOK, MemoryOK, AllOpen
<1>2. orders' = orders /\ local_qty' = IF local_qty > 0 THEN local_qty ELSE AllOpen
  BY DEF ReadLocalPosition, database, AllOpen
<1>3. AllOpen' = AllOpen /\ (local_qty' = 0 => AllOpen = 0)
  BY <1>1, <1>2 DEF AllOpen
<1>4. \A c \in Callers :
         /\ CarriesOn(c)
         /\ c # a => pc'[c] = pc[c] /\ position'[c] = position[c]
         /\ c = a => pc'[c] = "account" /\ position'[c] = local_qty'
  BY <1>1, <1>2, LearnCarriesOn DEF ReadLocalPosition
<1>5. ASSUME NEW c \in Callers, c # a, pc[c] \in {"account", "signal"} PROVE local_qty' = local_qty
  BY <1>1, <1>2, <1>5 DEF LocalPosition
<1>6. QED BY <1>3, <1>4, <1>5 DEF LocalPosition, CarriesOn

LEMMA LocalPositionStep ==
    ASSUME LocalSim, OneCallerOnly, TypeInv, LocalPosition, LocalStep
    PROVE  LocalPosition'
<1> USE DEF TypeInv, CoroutinesOK
<1>1. ASSUME NEW a \in Actors, ReadLocalPosition(a) PROVE LocalPosition'
  BY <1>1, LocalPositionRead
<1>2. ASSUME NEW v \in Viewers, StartView(v) PROVE LocalPosition'
  BY <1>2, LocalPositionKept, ActorsAssumption DEF StartView, Goto, locals, memory, database, Actors
<1>3. ASSUME NEW c \in Callers, StartRun(c) PROVE LocalPosition'
  BY <1>3, LocalPositionKept DEF StartRun, Goto, memory, database, Actors
<1>4. ASSUME NEW c \in Callers, NEW wanted \in Sides, NEW forced, Approve(c, wanted, forced),
             IF wanted = "buy" THEN position[c] = 0 ELSE position[c] > 0
      PROVE  LocalPosition'
  <2>1. /\ pc'[c] = "signal" /\ side'[c] = wanted /\ pc[c] = "account"
        /\ \A d \in Callers \ {c} : pc'[d] = pc[d] /\ side'[d] = side[d]
    BY <1>4 DEF Approve, Goto, Actors
  <2>2. UNCHANGED <<position, local_qty, orders>>
    BY <1>4 DEF Approve, database
  <2>3. QED BY <1>4, <2>1, <2>2 DEF LocalPosition, AllOpen
<1>5. ASSUME NEW c \in Callers, DecideStep(c) PROVE LocalPosition'
  <2>1. CASE ApproveBuy(c)
    BY <1>4, <2>1 DEF ApproveBuy, Sides
  <2>2. CASE \E forced \in BOOLEAN : ApproveSell(c, forced)
    BY <1>4, <2>2 DEF ApproveSell, Sides
  <2>3. CASE Hold(c)
    <3>1. UNCHANGED <<local_qty, orders>> /\ End(c)
      BY <2>3 DEF Hold, memory, database
    <3>2. QED BY <3>1, LocalPositionKept DEF End, Goto, Actors
  <2>4. QED BY <1>5, <2>1, <2>2, <2>3 DEF DecideStep
<1>6. ASSUME NEW c \in Callers, StoreSignalFails(c) \/ LimitPriceMissing(c) \/ Finish(c) PROVE LocalPosition'
  <2>1. UNCHANGED <<local_qty, orders>> /\ End(c)
    BY <1>6 DEF StoreSignalFails, LimitPriceMissing, Finish, Release, memory, database
  <2>2. QED BY <2>1, LocalPositionKept DEF End, Goto, Actors
<1>7. ASSUME NEW c \in Callers, SubmitLocalOrder(c) PROVE LocalPosition'
  <2>1. pc'[c] \in {"order_alert", "idle"}
    BY <1>7 DEF SubmitLocalOrder, AddOrder, AddOrderFails, Release, End, Goto, Actors
  <2>2. QED BY <2>1 DEF LocalPosition, OneCallerOnly
<1>8. QED BY <1>1, <1>2, <1>3, <1>5, <1>6, <1>7 DEF LocalStep

LEMMA LocalPositionNext ==
    OneCallerOnly /\ TypeInv /\ LocalStages /\ LocalPosition /\ [Next]_vars => LocalPosition'
<1> SUFFICES ASSUME LocalSim, OneCallerOnly, TypeInv, LocalStages, LocalPosition, [Next]_vars
             PROVE  LocalPosition'
  BY DEF LocalPosition
<1>1. CASE LocalStep
  BY <1>1, LocalPositionStep
<1>2. CASE CacheExpires \/ RowAges \/ BarCloses \/ (\E s \in Sides : RestingExecutes(s))
  BY <1>2, LocalPositionKept
  DEF CacheExpires, RowAges, BarCloses, RestingExecutes, coroutines, locals, memory, database
<1>3. CASE Restart
  BY <1>3 DEF Restart, LocalPosition, Actors
<1>4. CASE UNCHANGED vars
  BY <1>4, LocalPositionKept DEF vars, coroutines, locals, memory, database
<1>5. QED BY <1>1, <1>2, <1>3, <1>4, LocalNext DEF EnvironmentStep

LEMMA LocalPositionHolds == OneCallerOnly => (Spec => []LocalPosition)
<1> SUFFICES ASSUME OneCallerOnly PROVE Spec => []LocalPosition
  OBVIOUS
<1>1. Init => LocalPosition
  BY DEF Init, LocalPosition, Actors
<1>2. TypeInv /\ LocalStages /\ LocalPosition /\ [Next]_vars => LocalPosition'
  BY LocalPositionNext
<1>3. QED BY <1>1, <1>2, BasicsHold, PTL DEF Spec

\* What is held locally only grows from nothing.
LEMMA LocalQtyGrowsFromNothing ==
    ASSUME LocalSim, TypeInv, LocalStages, LocalPosition, [Next]_vars, local_qty' > local_qty
    PROVE  local_qty = 0
<1>0. local_qty \in Nat
  BY DEF TypeInv, MemoryOK
<1>1. ASSUME NEW a \in Actors, ReadLocalPosition(a) PROVE local_qty = 0
  BY <1>0, <1>1 DEF ReadLocalPosition
<1>2. ASSUME NEW c \in Callers, SubmitLocalOrder(c) PROVE local_qty = 0
  <2>1. PICK filled \in 0..Requested(c) : local_qty' = ApplyLocalFill(c, filled)
    BY <1>2 DEF SubmitLocalOrder
  <2>2. filled \in Nat
    BY RequestedType
  <2>3. CASE side[c] = "buy"
    BY <1>2, <2>3 DEF SubmitLocalOrder, LocalPosition
  <2>4. CASE side[c] # "buy"
    BY <1>0, <2>1, <2>2, <2>4 DEF ApplyLocalFill, Reduced
  <2>5. QED BY <2>3, <2>4
<1>3. ASSUME NEW c \in Callers,
             StartRun(c) \/ DecideStep(c) \/ StoreSignalFails(c) \/ LimitPriceMissing(c) \/ Finish(c)
      PROVE  local_qty' = local_qty
  BY <1>3 DEF StartRun, DecideStep, ApproveBuy, ApproveSell, Approve, Hold, StoreSignalFails,
              LimitPriceMissing, Finish, memory
<1>4. ASSUME NEW v \in Viewers, StartView(v) PROVE local_qty' = local_qty
  BY <1>4 DEF StartView, memory
<1>5. CASE EnvironmentStep
  <2>1. local_qty' = local_qty \/ local_qty' = 0
    BY <1>5 DEF EnvironmentStep, CacheExpires, RowAges, BarCloses, Restart, RestingExecutes, memory
  <2>2. QED BY <1>0, <2>1
<1>6. CASE UNCHANGED vars
  BY <1>0, <1>6 DEF vars, memory
<1>7. CASE LocalStep
  <2>1. CASE \E c \in Callers : StartRun(c) \/ DecideStep(c) \/ StoreSignalFails(c) \/ LimitPriceMissing(c) \/ Finish(c)
    BY <1>0, <1>3, <2>1
  <2>2. CASE \E v \in Viewers : StartView(v)
    BY <1>0, <1>4, <2>2
  <2>3. QED BY <1>1, <1>2, <1>7, <2>1, <2>2 DEF LocalStep
<1>8. QED BY <1>5, <1>6, <1>7, LocalNext

(***************************************************************************)
(* Sells are covered, and realized                                         *)
(***************************************************************************)

\* A filled sell of the table filled something, and no more than was open.
Covered(rows) ==
    \A i \in 1..Len(rows) : rows[i].side = "sell" /\ IsFilled(rows[i]) =>
        rows[i].filled > 0 /\ rows[i].filled <= OpenQty(rows, i - 1)

LEMMA CoveredAppend ==
    ASSUME NEW rows \in Seq(Rows), Covered(rows), NEW s \in Sides, NEW status \in Statuses, NEW filled \in Nat,
           s = "sell" /\ status \in FilledStatuses => filled > 0 /\ filled <= OpenQty(rows, Len(rows))
    PROVE  Covered(Append(rows, NewRow(rows, s, status, filled)))
<1> DEFINE row == NewRow(rows, s, status, filled)
           longer == Append(rows, row)
<1>1. row \in Rows /\ row.side = s /\ row.status = status /\ row.filled = filled
  BY NewRowType DEF NewRow
<1>2. Len(longer) = Len(rows) + 1 /\ Len(rows) \in Nat
  BY <1>1, AppendKeeps
<1>3. longer[Len(rows) + 1] = row /\ \A i \in 1..Len(rows) : longer[i] = rows[i]
  BY <1>1, AppendKeeps
<1>4. \A i \in 0..Len(rows) : OpenQty(longer, i) = OpenQty(rows, i)
  BY <1>2, <1>3 DEF OpenQty
<1> HIDE DEF longer, row
<1>5. ASSUME NEW i \in 1..Len(longer), longer[i].side = "sell", IsFilled(longer[i])
      PROVE  longer[i].filled > 0 /\ longer[i].filled <= OpenQty(longer, i - 1)
  <2>1. OpenQty(longer, i - 1) = OpenQty(rows, i - 1)
    BY <1>2, <1>4
  <2>2. CASE i \in 1..Len(rows)
    BY <1>3, <1>5, <2>1, <2>2 DEF Covered
  <2>3. CASE i = Len(rows) + 1
    BY <1>1, <1>2, <1>3, <1>5, <2>1, <2>3 DEF IsFilled
  <2>4. QED BY <1>2, <2>2, <2>3
<1>6. QED BY <1>5 DEF Covered, longer, row

\* A sell asks for what its run has read as the position, which is what the
\* table leaves open.
LEMMA CoveredNext ==
    ASSUME LocalSim, TypeInv, LocalStages, MemoryKnows, LocalPosition, Covered(orders), [Next]_vars
    PROVE  Covered(orders')
<1>1. ASSUME NEW c \in Callers, SubmitLocalOrder(c) PROVE Covered(orders')
  <2>1. PICK filled \in 0..Requested(c) :
           \/ AddOrder(c, FinalStatus(filled, Requested(c)), filled)
           \/ AddOrderFails(c)
    BY <1>1 DEF SubmitLocalOrder
  <2> DEFINE status == FinalStatus(filled, Requested(c))
  <2>2. filled \in Nat /\ status \in Statuses /\ (status \in FilledStatuses => filled > 0)
    BY RequestedType DEF FinalStatus, FilledStatuses
  <2>3. pc[c] = "signal" /\ side[c] \in Sides /\ orders \in Seq(Rows)
    BY <1>1 DEF SubmitLocalOrder, TypeInv, CoroutinesOK, LocalsOK, InFlight, OrderStages, DatabaseOK
  <2>4. side[c] = "sell" => filled <= AllOpen
    <3>1. position[c] = local_qty /\ local_qty = AllOpen
      BY <2>3 DEF LocalPosition, MemoryKnows
    <3>2. SUFFICES ASSUME side[c] = "sell" PROVE filled <= position[c]
      BY <3>1
    <3>3. Requested(c) = position[c] /\ position[c] \in Nat
      BY <3>2 DEF Requested, TypeInv, CoroutinesOK, Actors
    <3>4. QED BY <3>3
  <2>5. Covered(Append(orders, NewRow(orders, side[c], status, filled)))
    BY <2>2, <2>3, <2>4, CoveredAppend DEF AllOpen
  <2>6. QED BY <2>1, <2>5 DEF AddOrder, AddOrderFails
<1>2. ASSUME NEW a \in Actors, ReadLocalPosition(a) PROVE orders' = orders
  BY <1>2 DEF ReadLocalPosition, database
<1>3. ASSUME NEW v \in Viewers, StartView(v) PROVE orders' = orders
  BY <1>3 DEF StartView, database
<1>4. ASSUME NEW c \in Callers,
             StartRun(c) \/ DecideStep(c) \/ StoreSignalFails(c) \/ LimitPriceMissing(c) \/ Finish(c)
      PROVE  orders' = orders
  BY <1>4 DEF StartRun, DecideStep, ApproveBuy, ApproveSell, Approve, Hold, StoreSignalFails,
              LimitPriceMissing, Finish, database
<1>5. CASE EnvironmentStep
  BY <1>5 DEF EnvironmentStep, CacheExpires, RowAges, BarCloses, Restart, RestingExecutes, database
<1>6. CASE UNCHANGED vars
  BY <1>6 DEF vars, database
<1>7. QED BY <1>1, <1>2, <1>3, <1>4, <1>5, <1>6, LocalNext DEF LocalStep

LEMMA CoveredHolds ==
    ASSUME LocalSim, OneCallerOnly, "row" \notin Faults
    PROVE  Spec => [](TypeInv /\ Consistent(orders) /\ Covered(orders))
<1>1. Init => MemoryKnows /\ Covered(orders)
  BY DEF Init, MemoryKnows, AllOpen, OpenQty, Actors, Covered
<1>2. TypeInv /\ LocalStages /\ MemoryKnows /\ [Next]_vars => MemoryKnows'
  BY MemoryNext
<1>3. TypeInv /\ LocalStages /\ MemoryKnows /\ LocalPosition /\ Covered(orders) /\ [Next]_vars => Covered(orders)'
  BY CoveredNext
<1>4. Spec => []LocalPosition
  BY LocalPositionHolds
<1>5. QED BY <1>1, <1>2, <1>3, <1>4, BasicsHold, PTL DEF Spec

\* A single trading loop never sells short in local simulation: every filled
\* sell row is covered by a replay of the rows before it, whatever is crashed,
\* aged, viewed or lost in between, as long as every order gets its row.  Run
\* MCTraderTwoSells shows that two runs that overlap break it.
THEOREM SellsTheorem ==
    LocalSim /\ OneCallerOnly /\ "row" \notin Faults => (Spec => []SellsAreCovered)
<1> SUFFICES ASSUME LocalSim, OneCallerOnly, "row" \notin Faults PROVE Spec => []SellsAreCovered
  OBVIOUS
<1>1. TypeInv /\ Consistent(orders) /\ Covered(orders) => SellsAreCovered
  <2> SUFFICES ASSUME TypeInv, Consistent(orders), Covered(orders), NEW i \in DOMAIN orders,
                      orders[i].side = "sell", IsFilled(orders[i])
               PROVE  orders[i].filled <= Replay(orders, i - 1)
    BY DEF SellsAreCovered
  <2>1. orders \in Seq(Rows) /\ i \in 1..Len(orders) /\ i - 1 \in 0..Len(orders)
    BY DEF TypeInv, DatabaseOK
  <2>2. Replay(orders, i - 1) = OpenQty(orders, i - 1)
    BY <2>1, TotalIsReplay
  <2>3. QED BY <2>1, <2>2 DEF Covered
<1>2. QED BY <1>1, CoveredHolds, PTL

\* A run that has stored its order row stays where it is until it finishes.
LEMMA OnlyFinishEndsRecording ==
    ASSUME TypeInv, [Next]_vars, ~Restart, NEW c \in Callers, pc[c] = "order_alert", ~Finish(c)
    PROVE  pc'[c] = "order_alert" /\ response'[c] = response[c]
<1> USE DEF TypeInv, CoroutinesOK
<1>0. c \in Actors
  BY DEF Actors
<1>1. ASSUME NEW a \in Actors, ReadStep(a) PROVE pc'[c] = pc[c] /\ response'[c] = response[c]
  BY <1>0, <1>1 DEF ReadStep, ReadLocalPosition, ReadCachedPosition, RequestPosition, AnswerPosition,
                    ReceivePosition, PositionFails, Learn, End, Goto, locals
<1>2. ASSUME NEW v \in Viewers, StartView(v) PROVE pc'[c] = pc[c] /\ response'[c] = response[c]
  BY <1>0, <1>2 DEF StartView, Goto, locals
<1>3. ASSUME NEW d \in Callers, StartRun(d) \/ DecideStep(d)
      PROVE  pc'[c] = pc[c] /\ response'[c] = response[c]
  BY <1>0, <1>3 DEF StartRun, DecideStep, ApproveBuy, ApproveSell, Approve, Hold, End, Goto
<1>4. ASSUME NEW d \in Callers, SubmitStep(d) PROVE pc'[c] = pc[c] /\ response'[c] = response[c]
  <2>1. CASE StoreSignalFails(d) \/ LimitPriceMissing(d) \/ SubmitLocalOrder(d) \/ Finish(d)
    BY <1>0, <2>1 DEF StoreSignalFails, LimitPriceMissing, SubmitLocalOrder, AddOrder, AddOrderFails, Finish,
                      Release, End, Goto
  <2>2. CASE PostOrder(d) \/ BrokerRests(d) \/ BrokerRefuses(d) \/ PostFails(d) \/ ReceiveReply(d)
    BY <1>0, <2>2 DEF PostOrder, BrokerRests, BrokerRefuses, PostFails, ReceiveReply, Release, End, Goto, locals
  <2>3. CASE BrokerExecutes(d) \/ CheckStatus(d)
    BY <1>0, <2>3 DEF BrokerExecutes, CheckStatus, AddOrder, AddOrderFails, Release, End, Goto
  <2>4. QED BY <1>4, <2>1, <2>2, <2>3 DEF SubmitStep
<1>5. CASE EnvironmentStep
  BY <1>5 DEF EnvironmentStep, CacheExpires, RowAges, BarCloses, RestingExecutes, coroutines, locals
<1>6. CASE UNCHANGED vars
  BY <1>6 DEF vars, coroutines, locals
<1>7. QED BY <1>1, <1>2, <1>3, <1>4, <1>5, <1>6 DEF Next, CallerStep

\* Under the same hypotheses, and if recording a trade does not raise, every
\* filled sell has its Trade row for the whole of what it filled when its run
\* ends.  In Alpaca mode the row may carry the quantity of an early reply: run
\* MCTraderUnrealized.
THEOREM RealizedTheorem ==
    LocalSim /\ OneCallerOnly /\ Faults \cap {"row", "trade"} = {} => (Spec => FilledSellsAreRealized)
<1> SUFFICES ASSUME LocalSim, OneCallerOnly, "row" \notin Faults, "trade" \notin Faults
             PROVE  Spec => FilledSellsAreRealized
  OBVIOUS
<1> DEFINE Realized ==
        \A i \in DOMAIN orders :
          (orders[i].side = "sell" /\ IsFilled(orders[i]) /\ Recording(i) /\ ~Recording(i)')
              => [row |-> i, qty |-> orders[i].filled] \in trades' \/ Restart
<1>1. TypeInv /\ Consistent(orders) /\ Covered(orders) /\ [Next]_vars => [Realized]_vars
  <2> SUFFICES ASSUME TypeInv, Consistent(orders), Covered(orders), [Next]_vars, ~Restart,
                      NEW i \in DOMAIN orders, orders[i].side = "sell", IsFilled(orders[i]),
                      Recording(i), ~Recording(i)'
               PROVE  [row |-> i, qty |-> orders[i].filled] \in trades'
    OBVIOUS
  <2>1. PICK c \in Callers : pc[c] = "order_alert" /\ response[c].row = i
    BY DEF Recording
  <2>2. Finish(c)
    BY <2>1, OnlyFinishEndsRecording DEF Recording
  <2>3. RealizedQty(orders, i) = orders[i].filled /\ orders[i].filled > 0
    <3>1. orders \in Seq(Rows) /\ i \in 1..Len(orders) /\ i - 1 \in 0..Len(orders) /\ orders[i] \in Rows
      BY DEF TypeInv, DatabaseOK
    <3>2. OpenQty(orders, i - 1) \in Nat /\ orders[i].filled \in Nat
      BY <3>1, OpenQtyType DEF Rows
    <3>3. orders[i].filled > 0 /\ orders[i].filled <= OpenQty(orders, i - 1)
      BY <3>1 DEF Covered
    <3>4. OpenQty(orders, i) = OpenQty(orders, i - 1) - orders[i].filled
      BY <3>1, <3>2, <3>3 DEF Consistent, OpenQty, Applied, Reduced, IsFilled
    <3>5. QED BY <3>2, <3>3, <3>4 DEF RealizedQty
  <2>4. QED BY <2>1, <2>2, <2>3 DEF Finish
<1>2. QED BY <1>1, CoveredHolds, PTL DEF Spec, FilledSellsAreRealized

(***************************************************************************)
(* No averaging down                                                       *)
(***************************************************************************)

\* A lone trading loop in Alpaca mode: nothing waits in the book of a
\* limit/ioc order, and what the loop has read, or will read from the cache,
\* is what the account holds, because only the loop's own order changes that
\* and its reply empties the cache.
Lone == ~LocalSim /\ OneCallerOnly /\ Viewers = {} /\ LimitIoc /\ "post" \notin Faults

AccountIsKnown ==
    /\ \A s \in Sides : resting[s] = 0
    /\ (\E c \in Callers : pc[c] = "replying") \/ position_cache \subseteq {held}
    /\ \A c \in Callers :
          /\ pc[c] \in {"answered", "account", "signal", "posting"} => position[c] = held
          /\ pc[c] \in {"signal", "posting"} => IF side[c] = "buy" THEN position[c] = 0 ELSE position[c] > 0

LEMMA AccountRead ==
    ASSUME Lone, TypeInv, AccountIsKnown, NEW c \in Callers, ReadStep(c)
    PROVE  AccountIsKnown'
<1> USE DEF Lone, TypeInv, CoroutinesOK, AccountIsKnown
<1>0. c \in Actors /\ c \notin Viewers /\ \A d \in Callers : d = c
  BY DEF Actors, OneCallerOnly
<1>1. CASE ReadCachedPosition(c)
  <2>1. PICK qty \in position_cache : Learn(c, qty)
    BY <1>1 DEF ReadCachedPosition
  <2>2. qty = held
    BY <1>0, <1>1 DEF ReadCachedPosition
  <2>3. pc'[c] = "account" /\ position'[c] = held /\ UNCHANGED <<position_cache, held, resting>>
    BY <1>0, <1>1, <2>1, <2>2 DEF ReadCachedPosition, Learn, Goto, memory, broker
  <2>4. position_cache \subseteq {held}
    BY <1>0, <1>1 DEF ReadCachedPosition
  <2>5. QED BY <1>0, <2>3, <2>4
<1>2. CASE RequestPosition(c)
  <2>1. pc'[c] = "requested" /\ position_cache = {} /\ UNCHANGED <<position_cache, held, resting>>
    BY <1>0, <1>2 DEF RequestPosition, Goto, memory, broker
  <2>2. QED BY <1>0, <2>1
<1>3. CASE AnswerPosition(c)
  <2>1. pc'[c] = "answered" /\ position'[c] = held /\ UNCHANGED <<position_cache, held, resting>>
    BY <1>0, <1>3 DEF AnswerPosition, Goto, memory, broker
  <2>2. position_cache \subseteq {held}
    BY <1>0, <1>3 DEF AnswerPosition
  <2>3. QED BY <1>0, <2>1, <2>2
<1>4. CASE ReceivePosition(c)
  <2>1. /\ pc'[c] = "account" /\ position'[c] = position[c] /\ position_cache' = {position[c]}
        /\ pc[c] = "answered" /\ UNCHANGED <<held, resting>>
    BY <1>0, <1>4 DEF ReceivePosition, Learn, Goto, broker
  <2>2. QED BY <1>0, <2>1
<1>5. CASE PositionFails(c)
  <2>1. pc'[c] = "idle" /\ pc[c] # "replying" /\ UNCHANGED <<position_cache, held, resting>>
    BY <1>0, <1>5 DEF PositionFails, End, Goto, memory, broker
  <2>2. QED BY <1>0, <2>1
<1>6. QED BY <1>1, <1>2, <1>3, <1>4, <1>5 DEF ReadStep, ReadLocalPosition

LEMMA AccountDecide ==
    ASSUME Lone, TypeInv, AccountIsKnown, NEW c \in Callers, StartRun(c) \/ DecideStep(c)
    PROVE  AccountIsKnown'
<1> USE DEF Lone, TypeInv, CoroutinesOK, AccountIsKnown
<1>0. c \in Actors /\ \A d \in Callers : d = c
  BY DEF Actors, OneCallerOnly
<1>1. CASE StartRun(c) \/ Hold(c)
  <2>1. pc'[c] \in {"idle", "position"} /\ pc[c] # "replying" /\ UNCHANGED <<position_cache, held, resting>>
    BY <1>0, <1>1 DEF StartRun, Hold, End, Goto, memory, broker
  <2>2. QED BY <1>0, <2>1
<1>2. ASSUME NEW wanted \in Sides, NEW forced, Approve(c, wanted, forced),
             IF wanted = "buy" THEN position[c] = 0 ELSE position[c] > 0
      PROVE  AccountIsKnown'
  <2>1. /\ pc'[c] = "signal" /\ side'[c] = wanted /\ pc[c] = "account"
        /\ UNCHANGED <<position, position_cache, held, resting>>
    BY <1>0, <1>2 DEF Approve, Goto, broker
  <2>2. QED BY <1>0, <1>2, <2>1
<1>3. CASE ApproveBuy(c)
  BY <1>2, <1>3 DEF ApproveBuy, Sides
<1>4. CASE \E forced \in BOOLEAN : ApproveSell(c, forced)
  BY <1>2, <1>4 DEF ApproveSell, Sides
<1>5. QED BY <1>1, <1>3, <1>4 DEF DecideStep

LEMMA AccountSubmit ==
    ASSUME Lone, TypeInv, AccountIsKnown, NEW c \in Callers, SubmitStep(c)
    PROVE  AccountIsKnown'
<1> USE DEF Lone, TypeInv, CoroutinesOK, AccountIsKnown
<1>0. c \in Actors /\ \A d \in Callers : d = c
  BY DEF Actors, OneCallerOnly
<1>1. CASE StoreSignalFails(c) \/ LimitPriceMissing(c) \/ BrokerRefuses(c) \/ Finish(c)
  <2>1. pc'[c] = "idle" /\ pc[c] # "replying" /\ UNCHANGED <<position_cache, held, resting>>
    BY <1>0, <1>1 DEF StoreSignalFails, LimitPriceMissing, BrokerRefuses, Finish, Release, End, Goto, memory, broker
  <2>2. QED BY <1>0, <2>1
<1>2. CASE PostOrder(c)
  <2>1. /\ pc'[c] = "posting" /\ pc[c] = "signal"
        /\ UNCHANGED <<position, side, position_cache, held, resting>>
    BY <1>0, <1>2 DEF PostOrder, Goto, locals, broker
  <2>2. QED BY <1>0, <2>1
<1>3. CASE BrokerExecutes(c)
  <2>1. pc'[c] = "replying" /\ UNCHANGED resting
    BY <1>0, <1>3 DEF BrokerExecutes, Goto
  <2>2. QED BY <1>0, <2>1
<1>4. CASE ReceiveReply(c) \/ CheckStatus(c)
  <2>1. pc'[c] \in {"checking", "order_alert", "idle"} /\ position_cache' = {} /\ UNCHANGED <<held, resting>>
    BY <1>0, <1>4 DEF ReceiveReply, CheckStatus, AddOrder, AddOrderFails, Release, End, Goto, broker
  <2>2. QED BY <1>0, <2>1
<1>5. QED BY <1>1, <1>2, <1>3, <1>4 DEF SubmitStep, SubmitLocalOrder, BrokerRests, PostFails

LEMMA AccountNext == Lone /\ TypeInv /\ AccountIsKnown /\ [Next]_vars => AccountIsKnown'
<1> SUFFICES ASSUME Lone, TypeInv, AccountIsKnown, [Next]_vars PROVE AccountIsKnown'
  OBVIOUS
<1>1. CASE CacheExpires \/ RowAges \/ BarCloses
  <2>1. position_cache' \in {{}, position_cache} /\ UNCHANGED <<pc, position, side, held, resting>>
    BY <1>1 DEF CacheExpires, RowAges, BarCloses, coroutines, locals, memory, broker
  <2>2. QED BY <2>1 DEF AccountIsKnown
<1>2. CASE Restart
  <2>1. position_cache' = {} /\ UNCHANGED resting /\ \A c \in Callers : pc'[c] = "idle"
    BY <1>2 DEF Restart, broker, Actors
  <2>2. QED BY <2>1 DEF AccountIsKnown
<1>3. ASSUME NEW s \in Sides, RestingExecutes(s) PROVE FALSE
  BY <1>3 DEF RestingExecutes, AccountIsKnown
<1>4. CASE UNCHANGED vars
  <2>1. UNCHANGED <<pc, position, side, position_cache, held, resting>>
    BY <1>4 DEF vars, coroutines, locals, memory, broker
  <2>2. QED BY <2>1 DEF AccountIsKnown
<1>5. Actors = Callers /\ Viewers = {}
  BY DEF Lone, Actors
<1>6. QED
  BY <1>1, <1>2, <1>3, <1>4, <1>5, AccountRead, AccountDecide, AccountSubmit
  DEF Next, CallerStep, EnvironmentStep

\* The account only grows by an order that was sent while it held nothing.
LEMMA HeldGrowsFromNothing ==
    ASSUME Lone, TypeInv, AccountIsKnown, [Next]_vars, held' > held
    PROVE  held = 0
<1>0. held \in Nat
  BY BoundsAssumption DEF TypeInv, Funds
<1>1. ASSUME NEW c \in Callers, BrokerExecutes(c) PROVE held = 0
  <2>1. PICK filled \in 0..Requested(c) : held' = IF side[c] = "buy" THEN held + filled ELSE held - filled
    BY <1>1 DEF BrokerExecutes
  <2>2. filled \in Nat
    BY RequestedType
  <2>3. side[c] = "buy"
    BY <1>0, <2>1, <2>2
  <2>4. QED BY <1>1, <2>3 DEF BrokerExecutes, AccountIsKnown
<1>2. ASSUME NEW s \in Sides, RestingExecutes(s) PROVE FALSE
  BY <1>2 DEF RestingExecutes, AccountIsKnown
<1>3. ASSUME NEW a \in Actors, ReadStep(a) PROVE held' = held
  BY <1>3 DEF ReadStep, ReadLocalPosition, ReadCachedPosition, RequestPosition, AnswerPosition,
              ReceivePosition, PositionFails, broker
<1>4. ASSUME NEW v \in Viewers, StartView(v) PROVE held' = held
  BY <1>4 DEF StartView, broker
<1>5. ASSUME NEW c \in Callers, StartRun(c) \/ DecideStep(c) PROVE held' = held
  BY <1>5 DEF StartRun, DecideStep, ApproveBuy, ApproveSell, Approve, Hold, broker
<1>6. ASSUME NEW c \in Callers, SubmitStep(c), ~BrokerExecutes(c) PROVE held' = held
  BY <1>6 DEF SubmitStep, StoreSignalFails, LimitPriceMissing, SubmitLocalOrder, PostOrder, BrokerRests,
              BrokerRefuses, PostFails, ReceiveReply, CheckStatus, Finish, broker
<1>7. ASSUME CacheExpires \/ RowAges \/ BarCloses \/ Restart \/ UNCHANGED vars PROVE held' = held
  BY <1>7 DEF CacheExpires, RowAges, BarCloses, Restart, vars, broker
<1>8. held' # held
  BY <1>0
<1>9. QED BY <1>1, <1>2, <1>3, <1>4, <1>5, <1>6, <1>7, <1>8 DEF Next, CallerStep, EnvironmentStep

\* One open position: what is held only grows from nothing.  In local
\* simulation a single trading loop is enough for that, with any number of
\* viewers, faults and crashes.  In Alpaca mode the loop must be alone with
\* its position cache, its orders limit/ioc, and no request of it lost after
\* the broker acted on it: runs MCTraderStaleCache and MCTraderResting show
\* what the first two are for.
THEOREM NoAveragingDownTheorem ==
    OneCallerOnly /\ (LocalSim \/ (Viewers = {} /\ LimitIoc /\ "post" \notin Faults))
        => (Spec => NoAveragingDown)
<1>1. ASSUME LocalSim, OneCallerOnly PROVE Spec => NoAveragingDown
  <2>1. TypeInv /\ LocalStages /\ LocalPosition /\ [Next]_vars => [Exposure' > Exposure => Exposure = 0]_vars
    BY <1>1, LocalQtyGrowsFromNothing DEF Exposure
  <2>2. Spec => []LocalPosition
    BY <1>1, LocalPositionHolds
  <2>3. QED BY <2>1, <2>2, BasicsHold, PTL DEF Spec, NoAveragingDown
<1>2. ASSUME Lone PROVE Spec => NoAveragingDown
  <2>1. Init => AccountIsKnown
    BY DEF Init, AccountIsKnown, Actors
  <2>2. TypeInv /\ AccountIsKnown /\ [Next]_vars => AccountIsKnown'
    BY <1>2, AccountNext
  <2>3. TypeInv /\ AccountIsKnown /\ [Next]_vars => [Exposure' > Exposure => Exposure = 0]_vars
    BY <1>2, HeldGrowsFromNothing DEF Exposure, Lone
  <2>4. QED BY <2>1, <2>2, <2>3, BasicsHold, PTL DEF Spec, NoAveragingDown
<1>3. QED BY <1>1, <1>2 DEF Lone

(***************************************************************************)
(* Runs that overlap, within the cooldown                                  *)
(***************************************************************************)

\* A run that has read that nothing is held while something is open by now
\* would be buying on top of it; but what was opened meanwhile is a filled row
\* younger than the run, and as no run outlives the cooldown, the cooldown
\* still stands when the run decides.
CooldownProtects ==
    LocalSim =>
        /\ aged <= Len(orders)
        /\ \A c \in Callers : pc[c] \in {"position", "account"} => since[c] <= Len(orders)
        /\ \A c \in Callers : pc[c] = "account" /\ position[c] = 0 /\ AllOpen # 0 =>
              \E i \in 1..Len(orders) : i > since[c] /\ i > aged /\ IsFilled(orders[i])
        /\ \A c \in Callers : pc[c] = "signal" /\ side[c] = "buy" => AllOpen = 0

LEMMA CooldownKept ==
    ASSUME LocalSim, CooldownProtects, UNCHANGED <<orders, aged>>,
           \A c \in Callers :
              /\ pc'[c] \in {"position", "account", "signal"} =>
                    pc'[c] = pc[c] /\ position'[c] = position[c] /\ since'[c] = since[c] /\ side'[c] = side[c]
    PROVE  CooldownProtects'
BY DEF CooldownProtects, AllOpen, IsFilled

LEMMA CooldownRead ==
    ASSUME LocalSim, TypeInv, MemoryKnows, CooldownProtects, NEW a \in Actors, ReadLocalPosition(a)
    PROVE  CooldownProtects'
<1> USE DEF TypeInv, CoroutinesOK
<1>1. AllOpen \in Nat /\ local_qty \in Nat
  BY OpenQtyType DEF DatabaseOK, MemoryOK, AllOpen
<1>2. UNCHANGED <<orders, aged>> /\ local_qty' = AllOpen /\ AllOpen' = AllOpen
  BY <1>1 DEF ReadLocalPosition, database, AllOpen, MemoryKnows
<1>3. CASE a \in Viewers
  BY <1>2, <1>3, CooldownKept, ActorsAssumption DEF ReadLocalPosition, Learn, End, Goto, Actors
<1>4. CASE a \notin Viewers
  <2>1. /\ pc'[a] = "account" /\ position'[a] = AllOpen /\ since' = since /\ pc[a] = "position" /\ side' = side
        /\ \A c \in Actors \ {a} : pc'[c] = pc[c] /\ position'[c] = position[c]
    BY <1>2, <1>4 DEF ReadLocalPosition, Learn, Goto
  <2>2. \A c \in Callers : c \in Actors
    BY DEF Actors
  <2>3. QED BY <1>2, <2>1, <2>2 DEF CooldownProtects, IsFilled
<1>5. QED BY <1>3, <1>4

LEMMA CooldownApprove ==
    ASSUME LocalSim, TypeInv, CooldownProtects, NEW c \in Callers, NEW wanted \in Sides, NEW forced,
           Approve(c, wanted, forced),
           wanted = "buy" => position[c] = 0 /\ LedgerAllowsBuy(orders, aged)
    PROVE  CooldownProtects'
<1>1. /\ pc'[c] = "signal" /\ side'[c] = wanted /\ pc[c] = "account"
      /\ \A d \in Callers \ {c} : pc'[d] = pc[d] /\ side'[d] = side[d]
  BY DEF Approve, Goto, TypeInv, CoroutinesOK, Actors
<1>2. UNCHANGED <<position, since, orders, aged>> /\ AllOpen' = AllOpen
  BY DEF Approve, database, AllOpen
<1>3. wanted = "buy" => AllOpen = 0
  BY <1>1 DEF CooldownProtects, LedgerAllowsBuy, CoolingDown, TypeInv, DatabaseOK
<1>4. QED BY <1>1, <1>2, <1>3 DEF CooldownProtects, IsFilled

LEMMA CooldownSubmit ==
    ASSUME LocalSim, "row" \notin Faults, TypeInv, OrderInv, MemoryKnows, CooldownProtects,
           NEW c \in Callers, SubmitLocalOrder(c)
    PROVE  CooldownProtects'
<1>1. PICK filled \in 0..Requested(c) :
         local_qty' = ApplyLocalFill(c, filled) /\ AddOrder(c, FinalStatus(filled, Requested(c)), filled)
  BY DEF SubmitLocalOrder, AddOrderFails
<1> DEFINE status == FinalStatus(filled, Requested(c))
           row == NewRow(orders, side[c], status, filled)
<1>2. pc[c] = "signal" /\ local_qty = AllOpen /\ aged' = aged
  BY DEF SubmitLocalOrder, MemoryKnows
<1>3. orders' = Append(orders, row) /\ side[c] \in Sides /\ filled \in Nat /\ status \in Statuses
  BY <1>1, <1>2, FillIsApplied
<1>4. orders \in Seq(Rows) /\ row \in Rows
  BY <1>3, NewRowType DEF TypeInv, DatabaseOK
<1>5. /\ Len(orders') = Len(orders) + 1 /\ Len(orders) \in Nat /\ orders'[Len(orders) + 1] = row
      /\ \A i \in 1..Len(orders) : orders'[i] = orders[i]
  BY <1>3, <1>4, AppendKeeps
<1>6. /\ pc'[c] = "order_alert" /\ UNCHANGED <<position, since, side>>
      /\ \A d \in Callers \ {c} : pc'[d] = pc[d] /\ pc[d] # "signal"
  BY <1>1, <1>2 DEF AddOrder, Goto, TypeInv, CoroutinesOK, Actors, OrderInv, OneOrderInFlight, InFlight, OrderStages
<1>7. ~IsFilled(row) => AllOpen' = AllOpen
  <2>1. AllOpen' = Applied(AllOpen, side[c], status, filled)
    BY <1>3, <1>4, <1>5, NewRowType DEF AllOpen, OpenQty
  <2>2. QED BY <2>1 DEF Applied, IsFilled, NewRow
<1>8. ASSUME NEW d \in Callers, pc'[d] = "account", position'[d] = 0, AllOpen' # 0
      PROVE  \E i \in 1..Len(orders') : i > since'[d] /\ i > aged' /\ IsFilled(orders'[i])
  <2>1. d # c /\ pc[d] = "account" /\ position[d] = 0 /\ since[d] <= Len(orders) /\ aged <= Len(orders)
    BY <1>6, <1>8 DEF CooldownProtects
  <2>2. since[d] \in Nat /\ aged \in Nat
    BY DEF TypeInv, CoroutinesOK, DatabaseOK, Actors
  <2>3. CASE IsFilled(row)
    <3>1. Len(orders) + 1 \in 1..Len(orders') /\ Len(orders) + 1 > since'[d] /\ Len(orders) + 1 > aged'
      BY <1>2, <1>5, <1>6, <2>1, <2>2
    <3>2. QED BY <1>5, <2>3, <3>1
  <2>4. CASE ~IsFilled(row)
    <3>1. PICK i \in 1..Len(orders) : i > since[d] /\ i > aged /\ IsFilled(orders[i])
      BY <1>7, <1>8, <2>1, <2>4 DEF CooldownProtects
    <3>2. i \in 1..Len(orders') /\ orders'[i] = orders[i]
      BY <1>5
    <3>3. QED BY <1>2, <1>6, <3>1, <3>2
  <2>5. QED BY <2>3, <2>4
<1>9. \A d \in Callers : pc'[d] \in {"position", "account"} => since'[d] <= Len(orders')
  BY <1>5, <1>6 DEF CooldownProtects, TypeInv, CoroutinesOK, Actors
<1>10. aged' <= Len(orders')
  BY <1>2, <1>5 DEF CooldownProtects, TypeInv, DatabaseOK
<1>11. QED BY <1>6, <1>8, <1>9, <1>10 DEF CooldownProtects

LEMMA CooldownAges ==
    ASSUME LocalSim, ~SlowRuns, TypeInv, CooldownProtects, RowAges
    PROVE  CooldownProtects'
<1>1. UNCHANGED <<pc, position, since, side, orders>> /\ aged' = aged + 1 /\ aged < Len(orders) /\ AllOpen' = AllOpen
  BY DEF RowAges, coroutines, locals, AllOpen
<1>2. Len(orders) \in Nat /\ aged \in Nat
  BY DEF TypeInv, DatabaseOK
<1>3. ASSUME NEW c \in Callers, pc[c] = "account" PROVE aged + 1 <= since[c]
  BY <1>2, <1>3 DEF RowAges, RunSpans, TypeInv, CoroutinesOK, Actors
<1>4. ASSUME NEW c \in Callers, pc[c] = "account", position[c] = 0, AllOpen # 0
      PROVE  \E i \in 1..Len(orders) : i > since[c] /\ i > aged' /\ IsFilled(orders[i])
  <2>1. PICK i \in 1..Len(orders) : i > since[c] /\ i > aged /\ IsFilled(orders[i])
    BY <1>4 DEF CooldownProtects
  <2>2. since[c] \in Nat
    BY DEF TypeInv, CoroutinesOK, Actors
  <2>3. i > aged'
    BY <1>1, <1>2, <1>3, <1>4, <2>1, <2>2
  <2>4. QED BY <2>1, <2>3
<1>5. QED BY <1>1, <1>2, <1>4 DEF CooldownProtects, IsFilled

LEMMA CooldownNext ==
    ASSUME LocalSim, ~SlowRuns, "row" \notin Faults, TypeInv, LocalStages, OrderInv, MemoryKnows, CooldownProtects,
           [Next]_vars
    PROVE  CooldownProtects'
<1> USE DEF TypeInv, CoroutinesOK
<1>1. ASSUME NEW v \in Viewers, StartView(v) PROVE CooldownProtects'
  BY <1>1, CooldownKept, ActorsAssumption DEF StartView, Goto, locals, database, Actors
<1>2. ASSUME NEW c \in Callers, StartRun(c) PROVE CooldownProtects'
  <2>1. /\ pc'[c] = "position" /\ since'[c] = Len(orders) /\ UNCHANGED <<position, side, orders, aged>>
        /\ \A d \in Callers \ {c} : pc'[d] = pc[d] /\ since'[d] = since[d]
    BY <1>2 DEF StartRun, Goto, database, Actors
  <2>2. Len(orders) \in Nat /\ AllOpen' = AllOpen
    BY <2>1 DEF DatabaseOK, AllOpen
  <2>3. \A d \in Callers : pc'[d] \in {"account", "signal"} => d # c /\ pc'[d] = pc[d] /\ since'[d] = since[d]
    BY <2>1
  <2>4. ASSUME NEW d \in Callers, pc'[d] \in {"position", "account"} PROVE since'[d] <= Len(orders')
    <3> HIDE DEF TypeInv, CoroutinesOK
    <3>1. CASE d = c
      BY <2>1, <2>2, <3>1
    <3>2. CASE d # c
      BY <2>1, <2>4, <3>2 DEF CooldownProtects
    <3>3. QED BY <3>1, <3>2
  <2>5. QED BY <2>1, <2>2, <2>3, <2>4 DEF CooldownProtects, IsFilled
<1>3. ASSUME NEW c \in Callers, DecideStep(c) PROVE CooldownProtects'
  <2>1. CASE ApproveBuy(c)
    BY <2>1, CooldownApprove DEF ApproveBuy, Sides
  <2>2. CASE \E forced \in BOOLEAN : ApproveSell(c, forced)
    BY <2>2, CooldownApprove DEF ApproveSell, Sides
  <2>3. CASE Hold(c)
    BY <2>3, CooldownKept DEF Hold, End, Goto, database, Actors
  <2>4. QED BY <1>3, <2>1, <2>2, <2>3 DEF DecideStep
<1>4. ASSUME NEW c \in Callers, StoreSignalFails(c) \/ LimitPriceMissing(c) \/ Finish(c) PROVE CooldownProtects'
  <2>1. UNCHANGED <<orders, aged>> /\ End(c)
    BY <1>4 DEF StoreSignalFails, LimitPriceMissing, Finish, Release, database
  <2>2. QED BY <2>1, CooldownKept DEF End, Goto, Actors
<1>5. CASE LocalStep
  BY <1>1, <1>2, <1>3, <1>4, <1>5, CooldownRead, CooldownSubmit DEF LocalStep
<1>6. CASE CacheExpires \/ BarCloses \/ (\E s \in Sides : RestingExecutes(s))
  BY <1>6, CooldownKept DEF CacheExpires, BarCloses, RestingExecutes, coroutines, locals, database
<1>7. CASE Restart
  <2>1. UNCHANGED <<orders, aged>> /\ \A c \in Callers : pc'[c] = "idle"
    BY <1>7 DEF Restart, database, Actors
  <2>2. QED BY <2>1 DEF CooldownProtects
<1>8. CASE UNCHANGED vars
  BY <1>8, CooldownKept DEF vars, coroutines, locals, database
<1>9. QED BY <1>5, <1>6, <1>7, <1>8, CooldownAges, LocalNext DEF EnvironmentStep

\* A filled buy finds nothing held; a restore finds nothing in memory.
LEMMA LocalQtyGrowsWithinCooldown ==
    ASSUME LocalSim, TypeInv, LocalStages, MemoryKnows, CooldownProtects, [Next]_vars, local_qty' > local_qty
    PROVE  local_qty = 0
<1>0. local_qty \in Nat
  BY DEF TypeInv, MemoryOK
<1>1. ASSUME NEW a \in Actors, ReadLocalPosition(a) PROVE local_qty = 0
  BY <1>0, <1>1 DEF ReadLocalPosition
<1>2. ASSUME NEW c \in Callers, SubmitLocalOrder(c) PROVE local_qty = 0
  <2>1. PICK filled \in 0..Requested(c) : local_qty' = ApplyLocalFill(c, filled)
    BY <1>2 DEF SubmitLocalOrder
  <2>2. filled \in Nat
    BY RequestedType
  <2>3. CASE side[c] = "buy"
    BY <1>2, <2>3 DEF SubmitLocalOrder, CooldownProtects, MemoryKnows
  <2>4. CASE side[c] # "buy"
    BY <1>0, <2>1, <2>2, <2>4 DEF ApplyLocalFill, Reduced
  <2>5. QED BY <2>3, <2>4
<1>3. local_qty' # local_qty /\ local_qty' # 0
  BY <1>0
<1>4. ASSUME NEW c \in Callers,
             StartRun(c) \/ DecideStep(c) \/ StoreSignalFails(c) \/ LimitPriceMissing(c) \/ Finish(c)
      PROVE  local_qty' = local_qty
  BY <1>4 DEF StartRun, DecideStep, ApproveBuy, ApproveSell, Approve, Hold, StoreSignalFails,
              LimitPriceMissing, Finish, memory
<1>5. ASSUME NEW v \in Viewers, StartView(v) PROVE local_qty' = local_qty
  BY <1>5 DEF StartView, memory
<1>6. ASSUME EnvironmentStep \/ UNCHANGED vars PROVE local_qty' = local_qty \/ local_qty' = 0
  BY <1>6 DEF EnvironmentStep, CacheExpires, RowAges, BarCloses, Restart, RestingExecutes, memory, vars
<1>7. QED BY <1>1, <1>2, <1>3, <1>4, <1>5, <1>6, LocalNext DEF LocalStep

\* However many runs overlap in local simulation: if none takes longer than
\* the trade cooldown and every order gets its row, what is held still only
\* grows from nothing.
THEOREM CooldownTheorem ==
    LocalSim /\ ~SlowRuns /\ "row" \notin Faults => (Spec => NoAveragingDown)
<1> SUFFICES ASSUME LocalSim, ~SlowRuns, "row" \notin Faults PROVE Spec => NoAveragingDown
  OBVIOUS
<1>1. Init => MemoryKnows /\ CooldownProtects
  BY DEF Init, MemoryKnows, CooldownProtects, AllOpen, OpenQty, Actors
<1>2. TypeInv /\ LocalStages /\ MemoryKnows /\ [Next]_vars => MemoryKnows'
  BY MemoryNext
<1>3. TypeInv /\ LocalStages /\ OrderInv /\ MemoryKnows /\ CooldownProtects /\ [Next]_vars => CooldownProtects'
  BY CooldownNext
<1>4. TypeInv /\ LocalStages /\ MemoryKnows /\ CooldownProtects /\ [Next]_vars
         => [Exposure' > Exposure => Exposure = 0]_vars
  BY LocalQtyGrowsWithinCooldown DEF Exposure
<1>5. QED BY <1>1, <1>2, <1>3, <1>4, BasicsHold, OrderInvHolds, PTL DEF Spec, NoAveragingDown

=============================================================================
