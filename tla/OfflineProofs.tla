---------------------------- MODULE OfflineProofs ----------------------------
(***************************************************************************)
(* What holds of the programs that loop over data of any length: the folds *)
(* and slices of validation, the sweep of parameters and the accounting of *)
(* filled orders.                                                          *)
(***************************************************************************)
EXTENDS WalkForward, TradeAccounting, ParameterSweep, SequenceTheorems,
        FiniteSetTheorems, WellFoundedInduction, TLAPS

(***************************************************************************)
(* Loops                                                                   *)
(***************************************************************************)

\* A set of numbers that is not empty has a least one.
LEMMA LeastPlace ==
    ASSUME NEW T, T \subseteq Nat, T # {}
    PROVE  Min(T) \in T /\ \A y \in T : Min(T) <= y
<1> DEFINE R == {ss \in Nat \X Nat : ss[1] < ss[2]}
<1>1. IsWellFoundedOn(R, Nat)
  BY NatLessThanWellFounded DEF OpToRel
<1>2. \E x \in T : \A y \in T : <<y, x>> \notin R
  <2> HIDE DEF R
  <2> QED BY <1>1, WFMin
<1>3. ASSUME NEW x \in T, NEW y \in T, <<y, x>> \notin R PROVE x <= y
  <2>1. x \in Nat /\ y \in Nat /\ <<y, x>> \in Nat \X Nat
    OBVIOUS
  <2>2. ~(<<y, x>>[1] < <<y, x>>[2])
    BY <1>3, <2>1 DEF R
  <2>3. QED BY <2>1, <2>2
<1>4. \E x \in T : \A y \in T : x <= y
  <2> HIDE DEF R
  <2> QED BY <1>2, <1>3
<1>5. QED BY <1>4 DEF Min

LEMMA MaxOfTwo ==
    ASSUME NEW a \in Int, NEW b \in Int
    PROVE  /\ Max({a, b}) = IF a >= b THEN a ELSE b
           /\ Min({a, b}) = IF a <= b THEN a ELSE b
<1> DEFINE most == IF a >= b THEN a ELSE b
           least == IF a <= b THEN a ELSE b
<1>1. most \in {a, b} /\ \A y \in {a, b} : most >= y
  OBVIOUS
<1>2. \A x \in {a, b} : (\A y \in {a, b} : x >= y) => x = most
  OBVIOUS
<1>3. least \in {a, b} /\ \A y \in {a, b} : least <= y
  OBVIOUS
<1>4. \A x \in {a, b} : (\A y \in {a, b} : x <= y) => x = least
  OBVIOUS
<1>5. QED
  <2> HIDE DEF most, least
  <2>1. Max({a, b}) = most
    BY <1>1, <1>2 DEF Max
  <2>2. Min({a, b}) = least
    BY <1>3, <1>4 DEF Min
  <2>3. QED BY <2>1, <2>2 DEF most, least

\* What holds before the first turn, and after a turn if before it, holds
\* after every turn.
LEMMA Turns ==
    ASSUME NEW n \in Nat, NEW T, 0 \in T, \A k \in 1..n : k - 1 \in T => k \in T
    PROVE  \A k \in 0..n : k \in T
<1> DEFINE Left == {k \in 0..n : k \notin T}
<1>1. ASSUME Left # {} PROVE FALSE
  <2>1. PICK k \in Left : \A j \in Left : k <= j
    <3>1. Left \subseteq Nat
      OBVIOUS
    <3>2. QED
      <4> HIDE DEF Left
      <4> QED BY <1>1, <3>1, LeastPlace
  <2>2. k \in 1..n /\ k - 1 \in 0..n /\ ~(k <= k - 1)
    BY <2>1
  <2>3. k - 1 \in T
    BY <2>1, <2>2
  <2>4. QED BY <2>1, <2>2, <2>3
<1>2. QED BY <1>1

\* The states of a loop, before its first turn and after each of n.
RunOf(f, n, S, base, turn) ==
    f \in [0..n -> S] /\ f[0] = base /\ \A k \in 1..n : f[k] = turn[k][f[k - 1]]

\* A loop whose turns take states to states does run.
LEMMA LoopRuns ==
    ASSUME NEW n \in Nat, NEW S, NEW base \in S, NEW turn \in [1..n -> [S -> S]]
    PROVE  \E f : RunOf(f, n, S, base, turn)
<1> DEFINE Run(f, m) == f[0] = base /\ \A k \in 1..m : f[k] = turn[k][f[k - 1]]
           T == {m \in 0..n : \E f \in [0..m -> S] : Run(f, m)}
<1>1. 0 \in T
  <2> DEFINE f == [k \in 0..0 |-> base]
  <2>1. f \in [0..0 -> S] /\ Run(f, 0) /\ 0 \in 0..n
    OBVIOUS
  <2>2. QED
    <3> HIDE DEF f, Run
    <3> QED BY <2>1
<1>2. ASSUME NEW m \in 1..n, m - 1 \in T PROVE m \in T
  <2>1. PICK f \in [0..(m - 1) -> S] : Run(f, m - 1)
    BY <1>2
  <2> DEFINE g == [k \in 0..m |-> IF k = m THEN turn[m][f[m - 1]] ELSE f[k]]
  <2>2. m \in 1..n /\ m - 1 \in 0..(m - 1) /\ f[m - 1] \in S
    OBVIOUS
  <2>3. turn[m][f[m - 1]] \in S
    BY <2>2
  <2>4. g \in [0..m -> S]
    BY <2>2, <2>3
  <2>5. g[0] = base
    BY <2>1, <2>2
  <2>6. ASSUME NEW k \in 1..m PROVE g[k] = turn[k][g[k - 1]]
    <3>1. k - 1 \in 0..m /\ k - 1 # m /\ g[k - 1] = f[k - 1]
      BY <2>2
    <3>2. CASE k = m
      BY <3>1, <3>2
    <3>3. CASE k # m
      <4>1. k \in 1..(m - 1) /\ g[k] = f[k]
        BY <2>2, <3>3
      <4>2. f[k] = turn[k][f[k - 1]]
        BY <2>1, <4>1
      <4>3. QED BY <3>1, <4>1, <4>2
    <3>4. QED BY <3>2, <3>3
  <2>7. QED
    <3> HIDE DEF g
    <3>1. Run(g, m)
      BY <2>5, <2>6
    <3>2. QED
      <4> HIDE DEF Run
      <4> QED BY <2>4, <3>1
<1>3. n \in T
  <2> HIDE DEF T
  <2>1. \A m \in 0..n : m \in T
    BY <1>1, <1>2, Turns
  <2>2. QED BY <2>1
<1>4. PICK f \in [0..n -> S] : Run(f, n)
  <2> HIDE DEF Run
  <2> QED BY <1>3
<1>5. QED BY <1>4 DEF RunOf

\* The sum that Total computes.
LEMMA TotalRuns ==
    ASSUME NEW n \in Nat, NEW numbers, \A k \in 1..n : numbers[k] \in Int
    PROVE  \E sum \in [0..n -> Int] :
                /\ sum[0] = 0 /\ \A k \in 1..n : sum[k] = sum[k - 1] + numbers[k]
                /\ Total(numbers, n) = sum[n]
<1> DEFINE Turn(f, k) == IF k = 0 THEN 0 ELSE f[k - 1] + numbers[k]
           IsLoop(f) == f = [k \in 0..n |-> Turn(f, k)]
           sum == CHOOSE f : IsLoop(f)
           turn == [k \in 1..n |-> [x \in Int |-> x + numbers[k]]]
<1>1. Total(numbers, n) = sum[n]
  BY DEF Total
<1>2. \E f : IsLoop(f)
  <2> DEFINE S == Int
             base == 0
  <2>1. turn \in [1..n -> [S -> S]] /\ base \in S
    OBVIOUS
  <2>0. PICK f : RunOf(f, n, S, base, turn)
    <3> HIDE DEF turn, S, base
    <3> QED BY <2>1, LoopRuns
  <2>2. f \in [0..n -> Int] /\ f[0] = 0 /\ \A k \in 1..n : f[k] = turn[k][f[k - 1]]
    <3> HIDE DEF turn
    <3> QED BY <2>0 DEF RunOf
  <2>3. ASSUME NEW k \in 0..n PROVE f[k] = Turn(f, k)
    <3>1. CASE k = 0
      BY <2>2, <3>1
    <3>2. CASE k # 0
      <4>1. k \in 1..n /\ k - 1 \in 0..n
        BY <3>2
      <4>2. turn[k][f[k - 1]] = f[k - 1] + numbers[k]
        BY <2>2, <4>1
      <4>3. QED
        <5> HIDE DEF turn
        <5> QED BY <2>2, <3>2, <4>1, <4>2
    <3>3. QED BY <3>1, <3>2
  <2>4. f = [k \in 0..n |-> Turn(f, k)]
    <3> HIDE DEF Turn
    <3> QED BY <2>2, <2>3
  <2>5. QED BY <2>4
<1>3. IsLoop(sum)
  <2> HIDE DEF IsLoop
  <2> QED BY <1>2, Zenon
<1>4. \A k \in 0..n : sum[k] = Turn(sum, k)
  <2> HIDE DEF sum, Turn
  <2> QED BY <1>3
<1>5. \A k \in 0..n : sum[k] \in Int
  <2> DEFINE T == {k \in 0..n : sum[k] \in Int}
  <2> HIDE DEF sum
  <2>1. 0 \in T
    BY <1>4
  <2>2. \A k \in 1..n : k - 1 \in T => k \in T
    BY <1>4
  <2>3. \A k \in 0..n : k \in T
    <3> HIDE DEF T
    <3> QED BY <2>1, <2>2, Turns
  <2>4. QED BY <2>3
<1>6. sum \in [0..n -> Int]
  <2> HIDE DEF sum, Turn
  <2> QED BY <1>3, <1>5
<1> HIDE DEF sum, IsLoop
<1>7. QED BY <1>1, <1>4, <1>6

\* Numbers that agree so far have the same sum so far.
LEMMA TotalsAgree ==
    ASSUME NEW n \in Nat, NEW f, NEW g, \A k \in 1..n : f[k] \in Int /\ g[k] = f[k]
    PROVE  Total(g, n) = Total(f, n)
<1>1. PICK s \in [0..n -> Int] :
        /\ s[0] = 0 /\ \A k \in 1..n : s[k] = s[k - 1] + f[k]
        /\ Total(f, n) = s[n]
  BY TotalRuns
<1>2. PICK t \in [0..n -> Int] :
        /\ t[0] = 0 /\ \A k \in 1..n : t[k] = t[k - 1] + g[k]
        /\ Total(g, n) = t[n]
  BY TotalRuns
<1> DEFINE T == {k \in 0..n : s[k] = t[k]}
<1>3. 0 \in T /\ \A k \in 1..n : k - 1 \in T => k \in T
  BY <1>1, <1>2
<1>4. n \in T
  <2> HIDE DEF T
  <2>1. \A k \in 0..n : k \in T
    BY <1>3, Turns
  <2>2. QED BY <2>1
<1>5. QED BY <1>1, <1>2, <1>4

LEMMA TotalType ==
    ASSUME NEW n \in Nat, NEW f, \A k \in 1..n : f[k] \in Int
    PROVE  Total(f, n) \in Int
BY TotalRuns

LEMMA TotalNone ==
    ASSUME NEW f
    PROVE  Total(f, 0) = 0
<1>1. \A k \in 1..0 : f[k] \in Int
  OBVIOUS
<1>2. QED BY <1>1, TotalRuns

\* One number more.
LEMMA TotalMore ==
    ASSUME NEW n \in Nat, NEW f, NEW g, \A k \in 1..n : f[k] \in Int /\ g[k] = f[k], g[n + 1] \in Int
    PROVE  Total(g, n + 1) = Total(f, n) + g[n + 1]
<1>1. \A k \in 1..(n + 1) : g[k] \in Int
  <2>1. \A k \in 1..(n + 1) : k \in 1..n \/ k = n + 1
    OBVIOUS
  <2>2. QED BY <2>1
<1>2. PICK t \in [0..(n + 1) -> Int] :
        /\ t[0] = 0 /\ \A k \in 1..(n + 1) : t[k] = t[k - 1] + g[k]
        /\ Total(g, n + 1) = t[n + 1]
  <2>1. n + 1 \in Nat
    OBVIOUS
  <2>2. QED BY <1>1, <2>1, TotalRuns
<1>3. PICK s \in [0..n -> Int] :
        /\ s[0] = 0 /\ \A k \in 1..n : s[k] = s[k - 1] + f[k]
        /\ Total(f, n) = s[n]
  BY TotalRuns
<1> DEFINE T == {k \in 0..n : s[k] = t[k]}
<1>4. 0 \in T /\ \A k \in 1..n : k - 1 \in T => k \in T
  BY <1>2, <1>3
<1>5. n \in T
  <2> HIDE DEF T
  <2>1. \A k \in 0..n : k \in T
    BY <1>4, Turns
  <2>2. QED BY <2>1
<1>6. QED BY <1>2, <1>3, <1>5

(***************************************************************************)
(* Folds                                                                   *)
(***************************************************************************)

\* A selection of the first n elements of a sequence, in their order: "at"
\* has the places they were taken from.
Selects(out, seq, wanted, n) ==
    \E at \in [1..Len(out) -> Int] :
        /\ \A i \in 1..Len(out) : at[i] \in wanted /\ at[i] \in 1..n /\ out[i] = seq[at[i]]
        /\ \A i, j \in 1..Len(out) : i < j => at[i] < at[j]
        /\ \A k \in 1..n : k \in wanted => \E i \in 1..Len(out) : at[i] = k

\* One turn of the loop.
LEMMA SelectsOne ==
    ASSUME NEW S, NEW seq \in Seq(S), NEW wanted, NEW out \in Seq(S), NEW n \in 1..Len(seq),
           Selects(out, seq, wanted, n - 1)
    PROVE  /\ n \notin wanted => Selects(out, seq, wanted, n)
           /\ n \in wanted => /\ Append(out, seq[n]) \in Seq(S)
                              /\ Selects(Append(out, seq[n]), seq, wanted, n)
<1>1. PICK at \in [1..Len(out) -> Int] :
        /\ \A i \in 1..Len(out) : at[i] \in wanted /\ at[i] \in 1..(n - 1) /\ out[i] = seq[at[i]]
        /\ \A i, j \in 1..Len(out) : i < j => at[i] < at[j]
        /\ \A k \in 1..(n - 1) : k \in wanted => \E i \in 1..Len(out) : at[i] = k
  BY DEF Selects
<1>2. n \in Nat /\ n >= 1 /\ Len(out) \in Nat
  OBVIOUS
<1>3. ASSUME n \notin wanted PROVE Selects(out, seq, wanted, n)
  <2>1. \A i \in 1..Len(out) : at[i] \in wanted /\ at[i] \in 1..n /\ out[i] = seq[at[i]]
    BY <1>1, <1>2
  <2>2. \A k \in 1..n : k \in wanted => \E i \in 1..Len(out) : at[i] = k
    <3>1. \A k \in 1..n : k \in wanted => k \in 1..(n - 1)
      BY <1>2, <1>3
    <3>2. QED BY <1>1, <3>1
  <2>3. QED BY <1>1, <2>1, <2>2 DEF Selects
<1>4. ASSUME n \in wanted
      PROVE  Append(out, seq[n]) \in Seq(S) /\ Selects(Append(out, seq[n]), seq, wanted, n)
  <2> DEFINE longer == Append(out, seq[n])
             size == Len(out)
             next == [i \in 1..(size + 1) |-> IF i <= size THEN at[i] ELSE n]
  <2>1. /\ longer \in Seq(S) /\ Len(longer) = size + 1
        /\ \A i \in 1..size : longer[i] = out[i]
        /\ longer[size + 1] = seq[n]
    OBVIOUS
  <2> HIDE DEF longer
  <2>2. next \in [1..Len(longer) -> Int]
    BY <1>1, <1>2, <2>1
  <2>3. ASSUME NEW i \in 1..Len(longer)
        PROVE  next[i] \in wanted /\ next[i] \in 1..n /\ longer[i] = seq[next[i]]
    <3>1. CASE i <= size
      <4>1. i \in 1..size /\ next[i] = at[i]
        BY <1>2, <2>1, <3>1
      <4>2. QED BY <1>1, <1>2, <2>1, <4>1
    <3>2. CASE ~(i <= size)
      BY <1>2, <1>4, <2>1, <3>2
    <3>3. QED BY <3>1, <3>2
  <2>4. ASSUME NEW i \in 1..Len(longer), NEW j \in 1..Len(longer), i < j PROVE next[i] < next[j]
    <3>1. i \in 1..size /\ next[i] = at[i] /\ at[i] < n
      BY <1>1, <1>2, <2>1, <2>4
    <3>2. CASE j <= size
      BY <1>1, <1>2, <2>1, <2>4, <3>1, <3>2
    <3>3. CASE ~(j <= size)
      BY <1>2, <2>1, <3>1, <3>3
    <3>4. QED BY <3>2, <3>3
  <2>5. ASSUME NEW k \in 1..n, k \in wanted PROVE \E i \in 1..Len(longer) : next[i] = k
    <3>1. CASE k = n
      <4>1. size + 1 \in 1..Len(longer) /\ next[size + 1] = n
        BY <1>2, <2>1
      <4>2. QED BY <3>1, <4>1
    <3>2. CASE k # n
      <4>1. PICK i \in 1..size : at[i] = k
        BY <1>1, <1>2, <2>5, <3>2
      <4>2. i \in 1..Len(longer) /\ next[i] = at[i]
        BY <1>2, <2>1
      <4>3. QED BY <4>1, <4>2
    <3>3. QED BY <3>1, <3>2
  <2>6. Selects(longer, seq, wanted, n)
    <3> HIDE DEF next
    <3> QED BY <2>2, <2>3, <2>4, <2>5 DEF Selects
  <2>7. QED BY <2>1, <2>6 DEF longer
<1>5. QED BY <1>3, <1>4

\* What the loop has kept is what it was to select.
LEMMA KeptSelects ==
    ASSUME NEW S, NEW seq \in Seq(S), NEW wanted
    PROVE  /\ Kept(seq, wanted) \in Seq(S)
           /\ Selects(Kept(seq, wanted), seq, wanted, Len(seq))
<1> DEFINE Turn(f, k) == IF k = 0 THEN <<>>
                         ELSE IF k \in wanted THEN Append(f[k - 1], seq[k])
                         ELSE f[k - 1]
           n == Len(seq)
           IsLoop(f) == f = [k \in 0..n |-> Turn(f, k)]
           after == CHOOSE f : IsLoop(f)
           turn == [k \in 1..n |-> [out \in Seq(S) |->
                        IF k \in wanted THEN Append(out, seq[k]) ELSE out]]
<1>1. Kept(seq, wanted) = after[n]
  BY DEF Kept
<1>2. \E f : IsLoop(f)
  <2> DEFINE States == Seq(S)
             base == <<>>
  <2>1. turn \in [1..n -> [States -> States]] /\ base \in States /\ n \in Nat
    OBVIOUS
  <2>2. PICK f : RunOf(f, n, States, base, turn)
    <3> HIDE DEF turn, States, base, n
    <3> QED BY <2>1, LoopRuns
  <2>3. f \in [0..n -> Seq(S)] /\ f[0] = <<>> /\ \A k \in 1..n : f[k] = turn[k][f[k - 1]]
    <3> HIDE DEF turn, n
    <3> QED BY <2>2 DEF RunOf
  <2>4. ASSUME NEW k \in 0..n PROVE f[k] = Turn(f, k)
    <3>1. CASE k = 0
      BY <2>3, <3>1
    <3>2. CASE k # 0
      <4>1. k \in 1..n /\ f[k - 1] \in Seq(S)
        BY <2>3, <3>2
      <4>2. turn[k][f[k - 1]] = IF k \in wanted THEN Append(f[k - 1], seq[k]) ELSE f[k - 1]
        BY <4>1
      <4>3. QED
        <5> HIDE DEF turn
        <5> QED BY <2>3, <3>2, <4>1, <4>2
    <3>3. QED BY <3>1, <3>2
  <2>5. f = [k \in 0..n |-> Turn(f, k)]
    <3> HIDE DEF Turn
    <3> QED BY <2>3, <2>4
  <2>6. QED BY <2>5
<1>3. IsLoop(after)
  <2> HIDE DEF IsLoop
  <2> QED BY <1>2, Zenon
<1>4. \A k \in 0..n : after[k] = Turn(after, k)
  <2> HIDE DEF after, Turn
  <2> QED BY <1>3
<1> DEFINE Good(k) == after[k] \in Seq(S) /\ Selects(after[k], seq, wanted, k)
           Right == {k \in 0..n : Good(k)}
<1> HIDE DEF after, IsLoop, turn
<1>5. Good(0)
  <2>1. after[0] = <<>>
    BY <1>4
  <2>2. Selects(<<>>, seq, wanted, 0)
    <3> DEFINE none == [i \in 1..Len(<<>>) |-> 0]
    <3>1. Len(<<>>) = 0 /\ 1..0 = {} /\ none \in [1..Len(<<>>) -> Int]
      OBVIOUS
    <3> HIDE DEF none
    <3>2. QED BY <3>1 DEF Selects
  <2>3. QED BY <2>1, <2>2
<1>6. ASSUME NEW k \in 1..n, Good(k - 1) PROVE Good(k)
  <2>1. after[k] = IF k \in wanted THEN Append(after[k - 1], seq[k]) ELSE after[k - 1]
    BY <1>4
  <2>2. after[k - 1] \in Seq(S) /\ Selects(after[k - 1], seq, wanted, k - 1)
    BY <1>6
  <2>3. k \in 1..Len(seq)
    OBVIOUS
  <2> HIDE DEF n, Turn
  <2>4. CASE k \in wanted
    BY <2>1, <2>2, <2>3, <2>4, SelectsOne
  <2>5. CASE k \notin wanted
    BY <2>1, <2>2, <2>3, <2>5, SelectsOne
  <2>6. QED BY <2>4, <2>5
<1>7. Good(n)
  <2>1. n \in Nat /\ n \in 0..n /\ 0 \in 0..n /\ \A k \in 1..n : k \in 0..n /\ k - 1 \in 0..n
    OBVIOUS
  <2> HIDE DEF Good, n
  <2>2. 0 \in Right /\ \A k \in 1..n : k - 1 \in Right => k \in Right
    BY <1>5, <1>6, <2>1
  <2>3. \A k \in 0..n : k \in Right
    <3> HIDE DEF Right
    <3> QED BY <2>1, <2>2, Turns
  <2>4. QED BY <2>1, <2>3
<1>8. QED BY <1>1, <1>7

Records == {[from |-> f, to |-> t] : f \in Int, t \in Int}
SameKind == data.dull = data.rows
Few == data.rows < asked.start
WantedFolds == {k \in 1..asked.folds : LongEnough(Fold(k)) /\ Trainable(Fold(k))}
AllSlices == [k \in 1..asked.folds |-> Slice(k)]
WantedSlices == {k \in 1..asked.folds : Slice(k).to > Slice(k).from}

AsksOK ==
    /\ data.rows \in Nat /\ data.dull \in Nat /\ data.dull <= data.rows
    /\ asked.start \in Nat /\ asked.start # 0
    /\ asked.folds \in Nat /\ asked.folds # 0

\* What the three functions returned is what they would return again.
WalkInv ==
    /\ AsksOK
    /\ \/ validated = Unmeasured
       \/ validated = [reason |-> "not_enough_rows", folds |-> <<>>] /\ Few
       \/ validated = [reason |-> "target_class_diversity_too_low", folds |-> <<>>] /\ ~Few /\ SameKind
       \/ validated = [reason |-> "no_trainable_validation_folds", folds |-> <<>>]
            /\ ~Few /\ ScoredFolds = <<>>
       \/ validated = [reason |-> "none", folds |-> ScoredFolds]
            /\ ~Few /\ ~SameKind /\ ScoredFolds # <<>>
    /\ \/ backtested = Unmeasured
       \/ /\ validated # Unmeasured
          /\ \/ backtested = [reason |-> "not_enough_rows", folds |-> <<>>] /\ Few
             \/ backtested = [reason |-> "no_validation_folds", folds |-> <<>>]
                  /\ ~Few /\ PredictionFolds = <<>>
             \/ backtested = [reason |-> "none", folds |-> PredictionFolds]
                  /\ ~Few /\ PredictionFolds # <<>>
    /\ slices = <<>> \/ (slices = Kept(AllSlices, WantedSlices) /\ data.rows > 0)

LEMMA TimesGrows ==
    ASSUME NEW a \in Nat, NEW b \in Nat, NEW size \in Nat, a <= b
    PROVE  a * size \in Nat /\ a * size <= b * size /\ (a + 1) * size = a * size + size
<1>1. PICK d \in Nat : b = a + d
  <2>1. b - a \in Nat /\ b = a + (b - a)
    OBVIOUS
  <2>2. QED BY <2>1
<1>2. b * size = a * size + d * size
  BY <1>1
<1>3. a * size \in Nat /\ d * size \in Nat
  OBVIOUS
<1>4. QED BY <1>2, <1>3

\* Folds have one size, of which the last of them may fall short.
LEMMA FoldShape ==
    ASSUME AsksOK, ~Few
    PROVE  /\ FoldSize \in Nat /\ FoldSize >= MinFold
           /\ data.rows - asked.start < asked.folds * FoldSize + asked.folds
           /\ \A k \in 1..asked.folds :
                /\ Fold(k).from = asked.start + (k - 1) * FoldSize
                /\ Fold(k).to = IF data.rows <= Fold(k).from + FoldSize THEN data.rows
                                ELSE Fold(k).from + FoldSize
                /\ Fold(k).from \in Nat /\ Fold(k).from >= asked.start
                /\ Fold(k).to \in Nat /\ Fold(k).to <= data.rows /\ Fold(k).to <= Fold(k).from + FoldSize
                /\ Fold(k) \in Records
<1> DEFINE n == asked.folds
           left == data.rows - asked.start
           share == left \div n
<1>1. n \in Nat /\ n # 0 /\ left \in Nat /\ data.rows \in Nat /\ asked.start \in Nat
  BY DEF AsksOK, Few
<1>2. MinFold \in Nat
  BY WalkForwardAssumption
<1>3. share \in Nat /\ left < n * share + n
  <2> HIDE DEF n, left
  <2>1. share \in Int /\ left = (n * share) + (left % n) /\ left % n \in 0..(n - 1)
    BY <1>1
  <2>2. share >= 0
    BY <1>1
  <2>3. QED BY <1>1, <2>1, <2>2
<1>4. FoldSize = IF MinFold >= share THEN MinFold ELSE share
  <2>1. FoldSize = Max({MinFold, share})
    BY DEF FoldSize
  <2> HIDE DEF share
  <2> QED BY <1>2, <1>3, <2>1, MaxOfTwo
<1>5. FoldSize \in Nat /\ FoldSize >= MinFold /\ FoldSize >= share
  <2> HIDE DEF share
  <2> QED BY <1>2, <1>3, <1>4
<1>6. left < n * FoldSize + n
  <2> HIDE DEF share, n, left
  <2>1. share * n <= FoldSize * n
    <3>1. PICK d \in Nat : FoldSize = share + d
      <4>1. FoldSize - share \in Nat /\ FoldSize = share + (FoldSize - share)
        BY <1>3, <1>5
      <4>2. QED BY <4>1
    <3>2. FoldSize * n = share * n + d * n /\ d * n \in Nat /\ share * n \in Nat
      BY <1>1, <1>3, <3>1
    <3>3. QED BY <3>2
  <2>2. share * n = n * share /\ FoldSize * n = n * FoldSize /\ n * share \in Nat /\ n * FoldSize \in Nat
    BY <1>1, <1>3, <1>5
  <2>3. QED BY <1>1, <1>3, <2>1, <2>2
<1>7. ASSUME NEW k \in 1..n
      PROVE  /\ Fold(k).from = asked.start + (k - 1) * FoldSize
             /\ Fold(k).to = IF data.rows <= Fold(k).from + FoldSize THEN data.rows
                             ELSE Fold(k).from + FoldSize
             /\ Fold(k).from \in Nat /\ Fold(k).from >= asked.start
             /\ Fold(k).to \in Nat /\ Fold(k).to <= data.rows /\ Fold(k).to <= Fold(k).from + FoldSize
             /\ Fold(k) \in Records
  <2> DEFINE from == asked.start + (k - 1) * FoldSize
  <2>1. from \in Nat /\ from >= asked.start
    <3>1. k - 1 \in Nat
      BY <1>1
    <3>2. (k - 1) * FoldSize \in Nat
      BY <1>5, <3>1, TimesGrows
    <3>3. QED BY <1>1, <3>2
  <2>2. Fold(k) = [from |-> from, to |-> Min({data.rows, from + FoldSize})]
    BY DEF Fold
  <2> HIDE DEF from
  <2>3. Min({data.rows, from + FoldSize}) = IF data.rows <= from + FoldSize THEN data.rows
                                            ELSE from + FoldSize
    <3>1. data.rows \in Int /\ from + FoldSize \in Int
      BY <1>1, <1>5, <2>1
    <3>2. QED BY <3>1, MaxOfTwo
  <2>4. Fold(k).from = from /\ Fold(k).to = IF data.rows <= from + FoldSize THEN data.rows
                                            ELSE from + FoldSize
    BY <2>2, <2>3
  <2>5. Fold(k).to \in Nat /\ Fold(k).to <= data.rows /\ Fold(k).to <= Fold(k).from + FoldSize
    BY <1>1, <1>5, <2>1, <2>4
  <2>6. Fold(k) \in Records
    BY <1>1, <1>5, <2>1, <2>2, <2>3 DEF Records
  <2>7. QED BY <2>1, <2>4, <2>5, <2>6 DEF from
<1>8. QED BY <1>5, <1>6, <1>7

\* A later fold begins where an earlier one is over, or after that.
LEMMA FoldsFollow ==
    ASSUME AsksOK, ~Few, NEW i \in 1..asked.folds, NEW j \in 1..asked.folds, i < j
    PROVE  Fold(i).from + FoldSize <= Fold(j).from /\ Fold(i).to <= Fold(j).from
<1>1. i - 1 \in Nat /\ i \in Nat /\ j - 1 \in Nat /\ i <= j - 1 /\ (i - 1) + 1 = i
  BY DEF AsksOK
<1>2. FoldSize \in Nat
  BY FoldShape
<1>3. i * FoldSize = (i - 1) * FoldSize + FoldSize
  BY <1>1, <1>2, TimesGrows
<1>4. i * FoldSize <= (j - 1) * FoldSize
  BY <1>1, <1>2, TimesGrows
<1>5. asked.start \in Nat /\ (i - 1) * FoldSize \in Nat /\ (j - 1) * FoldSize \in Nat
  BY <1>1, <1>2, TimesGrows DEF AsksOK
<1>6. /\ Fold(i).from = asked.start + (i - 1) * FoldSize
      /\ Fold(j).from = asked.start + (j - 1) * FoldSize
      /\ Fold(i).to <= Fold(i).from + FoldSize /\ Fold(i).to \in Nat /\ Fold(i).from \in Nat
  BY FoldShape
<1>7. QED BY <1>2, <1>3, <1>4, <1>5, <1>6

\* The folds that validation has scored.
LEMMA ScoredShape ==
    ASSUME AsksOK, ~Few
    PROVE  /\ ScoredFolds \in Seq(Records)
           /\ Apart(ScoredFolds)
           /\ \A i \in DOMAIN ScoredFolds : ScoredFolds[i].from >= asked.start
           /\ ScoredFolds # <<>> =>
                data.rows - ScoredFolds[Len(ScoredFolds)].to <= Max({MinTail, asked.folds - 1})
           /\ SameKind => ScoredFolds = <<>>
<1> DEFINE n == asked.folds
           out == ScoredFolds
<1>1. n \in Nat /\ n # 0
  BY DEF AsksOK
<1>2. AllFolds \in Seq(Records) /\ Len(AllFolds) = n /\ \A k \in 1..n : AllFolds[k] = Fold(k)
  <2>1. AllFolds \in [1..n -> Records]
    BY FoldShape DEF AllFolds
  <2>2. QED BY <1>1, <2>1 DEF AllFolds
<1>3. out = Kept(AllFolds, WantedFolds)
  BY DEF ScoredFolds, WantedFolds
<1>4. out \in Seq(Records) /\ Selects(out, AllFolds, WantedFolds, n)
  <2> HIDE DEF n, out
  <2> QED BY <1>2, <1>3, KeptSelects
<1> HIDE DEF out
<1>5. PICK at \in [1..Len(out) -> Int] :
        /\ \A i \in 1..Len(out) : at[i] \in WantedFolds /\ at[i] \in 1..n /\ out[i] = AllFolds[at[i]]
        /\ \A i, j \in 1..Len(out) : i < j => at[i] < at[j]
        /\ \A k \in 1..n : k \in WantedFolds => \E i \in 1..Len(out) : at[i] = k
  BY <1>4 DEF Selects
<1>6. DOMAIN out = 1..Len(out) /\ Len(out) \in Nat
  BY <1>4
<1>7. \A i \in 1..Len(out) : at[i] \in 1..n /\ out[i] = Fold(at[i])
  BY <1>2, <1>5
<1>8. Apart(out)
  <2> SUFFICES ASSUME NEW i \in DOMAIN out, NEW j \in DOMAIN out, i < j PROVE out[i].to <= out[j].from
    BY DEF Apart
  <2>1. at[i] \in 1..n /\ at[j] \in 1..n /\ at[i] < at[j]
    BY <1>5, <1>6
  <2>2. QED BY <1>6, <1>7, <2>1, FoldsFollow
<1>9. ASSUME NEW i \in DOMAIN out PROVE out[i].from >= asked.start
  BY <1>6, <1>7, FoldShape
<1>10. ASSUME out # <<>> PROVE data.rows - out[Len(out)].to <= Max({MinTail, n - 1})
  <2> DEFINE last == at[Len(out)]
  <2>1. Len(out) \in 1..Len(out)
    BY <1>4, <1>6, <1>10
  <2>2. last \in 1..n /\ out[Len(out)] = Fold(last) /\ last \in WantedFolds
    BY <1>5, <1>7, <2>1
  <2>3. MinTail \in Nat /\ MinFold \in Nat /\ MinFold > MinTail
    BY WalkForwardAssumption
  <2>4. Max({MinTail, n - 1}) >= MinTail /\ Max({MinTail, n - 1}) >= n - 1 /\ Max({MinTail, n - 1}) \in Int
    BY <1>1, <2>3, MaxOfTwo
  <2>5. FoldSize \in Nat /\ FoldSize > MinTail
    BY <2>3, FoldShape
  <2>6. /\ Fold(last).from \in Nat /\ Fold(last).to \in Nat /\ data.rows \in Nat
        /\ Fold(last).to = IF data.rows <= Fold(last).from + FoldSize THEN data.rows
                           ELSE Fold(last).from + FoldSize
    BY <2>2, FoldShape DEF AsksOK
  <2>7. CASE Fold(last).to = data.rows
    BY <2>2, <2>3, <2>4, <2>6, <2>7
  <2>8. CASE Fold(last).to # data.rows /\ last = n
    <3>1. Fold(n).from = asked.start + (n - 1) * FoldSize /\ asked.start \in Nat
      <4>1. n \in 1..n
      BY <1>1
    <4>2. QED BY <4>1, FoldShape DEF AsksOK
    <3>2. n * FoldSize = (n - 1) * FoldSize + FoldSize /\ (n - 1) * FoldSize \in Nat
      <4>1. n - 1 \in Nat /\ (n - 1) + 1 = n
        BY <1>1
      <4>2. QED BY <2>5, <4>1, TimesGrows
    <3>3. data.rows - asked.start < n * FoldSize + n
      BY FoldShape
    <3>4. Fold(last).to = asked.start + (n - 1) * FoldSize + FoldSize
      BY <2>6, <2>8, <3>1
    <3> DEFINE before == (n - 1) * FoldSize
    <3>5. before \in Nat /\ Fold(last).to = asked.start + before + FoldSize
             /\ data.rows - asked.start < before + FoldSize + n
      BY <3>2, <3>3, <3>4
    <3> HIDE DEF before
    <3>6. data.rows - Fold(last).to < n
      <4> DEFINE rows == data.rows
                 to == Fold(last).to
                 start == asked.start
                 size == FoldSize
      <4>1. /\ rows \in Nat /\ to \in Nat /\ start \in Nat /\ size \in Nat /\ before \in Nat /\ n \in Nat
            /\ to = start + before + size /\ rows - start < before + size + n
        BY <1>1, <2>5, <2>6, <3>1, <3>5
      <4> HIDE DEF rows, to, start, size, n, last
      <4>2. rows - to < n
        BY <4>1
      <4>3. QED BY <4>2 DEF rows, to
    <3>7. QED BY <1>1, <2>2, <2>4, <2>6, <3>6
  <2>9. CASE Fold(last).to # data.rows /\ last # n
    <3> DEFINE next == last + 1
    <3>1. last \in Nat /\ next \in 1..n /\ last < next
      BY <1>1, <2>2, <2>9
    <3> HIDE DEF last, next
    <3>2. next \notin WantedFolds
      <4> SUFFICES ASSUME next \in WantedFolds PROVE FALSE
        OBVIOUS
      <4>1. PICK i \in 1..Len(out) : at[i] = next
        BY <1>5, <3>1
      <4> DEFINE size == Len(out)
      <4>2. size \in Nat /\ size \in 1..size /\ i \in 1..size
        BY <1>6, <2>1
      <4>3. at[i] <= at[size] /\ at[i] \in Int /\ at[size] \in Int
        <5>1. at \in [1..size -> Int] /\ \A j, k \in 1..size : j < k => at[j] < at[k]
          BY <1>5
        <5> HIDE DEF size
        <5>2. CASE i = size
          BY <4>2, <5>1, <5>2
        <5>3. CASE i # size
          <6>1. i < size
            BY <4>2, <5>3
          <6>2. QED BY <4>2, <5>1, <6>1
        <5>4. QED BY <5>2, <5>3
      <4>4. QED BY <3>1, <4>1, <4>3 DEF last
    <3>3. Fold(next).from = Fold(last).to /\ Fold(next).from >= Fold(last).from
      <4>1. /\ Fold(next).from = asked.start + (next - 1) * FoldSize
            /\ Fold(last).from = asked.start + (last - 1) * FoldSize
        BY <2>2, <3>1, FoldShape
      <4>2. next - 1 = last /\ last - 1 \in Nat /\ (last - 1) + 1 = last
        BY <2>2, <3>1 DEF next
      <4>3. last * FoldSize = (last - 1) * FoldSize + FoldSize /\ (last - 1) * FoldSize \in Nat
        BY <2>5, <4>2, TimesGrows
      <4>4. Fold(last).to = Fold(last).from + FoldSize
        BY <2>6, <2>9
      <4>5. asked.start \in Nat
        BY DEF AsksOK
      <4>6. QED BY <2>5, <4>1, <4>2, <4>3, <4>4, <4>5
    <3>4. Trainable(Fold(next))
      <4>1. Fold(last).from > data.dull
        BY <2>2 DEF WantedFolds, Trainable
      <4>2. Fold(next).from \in Nat /\ data.dull \in Nat
        BY <3>1, FoldShape DEF AsksOK
      <4>3. QED BY <2>6, <3>3, <4>1, <4>2 DEF Trainable
    <3>5. ~(Fold(next).to > Fold(next).from + MinTail)
      BY <3>1, <3>2, <3>4 DEF WantedFolds, LongEnough
    <3>6. /\ Fold(next).from \in Nat /\ Fold(next).to \in Nat
          /\ Fold(next).to = IF data.rows <= Fold(next).from + FoldSize THEN data.rows
                             ELSE Fold(next).from + FoldSize
      BY <3>1, FoldShape
    <3>7. Fold(next).to = data.rows
      BY <2>3, <2>5, <3>5, <3>6
    <3>8. data.rows - Fold(last).to <= MinTail
      BY <2>3, <2>6, <3>3, <3>5, <3>6, <3>7
    <3>9. QED BY <2>2, <2>3, <2>4, <2>6, <3>8 DEF last
  <2>10. QED BY <2>7, <2>8, <2>9
<1>11. ASSUME SameKind PROVE out = <<>>
  <2>1. ASSUME NEW k \in 1..n, k \in WantedFolds PROVE FALSE
    <3>1. Fold(k).from \in Nat /\ Fold(k).to \in Nat /\ Fold(k).to <= data.rows
      BY FoldShape
    <3>2. Fold(k).to > Fold(k).from + MinTail /\ Fold(k).from > data.dull
      BY <2>1 DEF WantedFolds, LongEnough, Trainable
    <3>3. MinTail \in Nat /\ data.dull = data.rows /\ data.rows \in Nat
      BY <1>11, WalkForwardAssumption DEF SameKind, AsksOK
    <3>4. QED BY <3>1, <3>2, <3>3
  <2>2. Len(out) = 0
    <3> SUFFICES ASSUME Len(out) # 0 PROVE FALSE
      OBVIOUS
    <3>1. 1 \in 1..Len(out)
      BY <1>6
    <3>2. QED BY <1>5, <2>1, <3>1
  <2>3. QED BY <1>4, <2>2
<1>12. QED BY <1>4, <1>8, <1>9, <1>10, <1>11 DEF out

\* Where slice k + 1 begins, and slice k is over.
Cut(k) == k * (data.rows \div asked.folds)
            + (IF k <= data.rows % asked.folds THEN k ELSE data.rows % asked.folds)

\* Slices go from cut to cut, from the first row to the last, and are as long
\* as one another but for one row.
LEMMA SliceShape ==
    ASSUME AsksOK
    PROVE  /\ data.rows \div asked.folds \in Nat
           /\ Cut(0) = 0 /\ Cut(asked.folds) = data.rows
           /\ \A k \in 0..asked.folds : Cut(k) \in Nat
           /\ \A k \in 1..asked.folds :
                /\ Slice(k) = [from |-> Cut(k - 1), to |-> Cut(k)]
                /\ Cut(k) - Cut(k - 1) \in {data.rows \div asked.folds, data.rows \div asked.folds + 1}
<1> DEFINE n == asked.folds
           rows == data.rows
           size == rows \div n
           longer == rows % n
<1>1. n \in Nat /\ n # 0 /\ rows \in Nat
  BY DEF AsksOK
<1> HIDE DEF n, rows
<1>2. size \in Nat /\ longer \in 0..(n - 1) /\ rows = n * size + longer
  <2>1. size \in Int /\ longer \in 0..(n - 1) /\ rows = (n * size) + longer
    BY <1>1
  <2>2. size >= 0
    BY <1>1
  <2>3. QED BY <2>1, <2>2
<1> HIDE DEF size, longer
<1>3. \A k : Cut(k) = k * size + (IF k <= longer THEN k ELSE longer)
  BY DEF Cut, size, longer, n, rows
<1>4. ASSUME NEW k \in 0..n PROVE k * size \in Nat /\ Cut(k) \in Nat
  <2>1. k \in Nat /\ k * size \in Nat
    BY <1>1, <1>2, TimesGrows
  <2>2. QED BY <1>2, <1>3, <2>1
<1>5. Cut(0) = 0
  <2>1. 0 * size = 0 /\ 0 <= longer
    BY <1>2
  <2>2. QED BY <1>3, <2>1
<1>6. Cut(n) = rows
  <2>1. ~(n <= longer)
    BY <1>1, <1>2
  <2>2. QED BY <1>2, <1>3, <2>1
<1>7. ASSUME NEW k \in 1..n
      PROVE  /\ Slice(k) = [from |-> Cut(k - 1), to |-> Cut(k)]
             /\ Cut(k) - Cut(k - 1) \in {size, size + 1}
  <2> DEFINE before == (k - 1) * size
  <2>1. k \in Nat /\ k - 1 \in Nat /\ before \in Nat /\ k * size = before + size
    <3>1. k \in Nat /\ k - 1 \in Nat /\ (k - 1) + 1 = k
      BY <1>1
    <3>2. QED BY <1>2, <3>1, TimesGrows
  <2>2. Cut(k) = before + size + (IF k <= longer THEN k ELSE longer)
    BY <1>3, <2>1
  <2>3. Cut(k - 1) = before + (IF k - 1 <= longer THEN k - 1 ELSE longer)
    BY <1>3
  <2> HIDE DEF before
  <2>4. Min({k - 1, longer}) = IF k - 1 <= longer THEN k - 1 ELSE longer
    <3>1. k - 1 \in Int /\ longer \in Int
      BY <1>2, <2>1
    <3>2. QED BY <3>1, MaxOfTwo
  <2>5. Slice(k) = [from |-> before + Min({k - 1, longer}),
                    to |-> before + Min({k - 1, longer}) + size + IF k <= longer THEN 1 ELSE 0]
    BY DEF Slice, n, rows, size, longer, before
  <2>6. before + Min({k - 1, longer}) = Cut(k - 1)
    BY <2>3, <2>4
  <2>7. before + Min({k - 1, longer}) + size + (IF k <= longer THEN 1 ELSE 0) = Cut(k)
    <3>1. longer \in Nat
      BY <1>2
    <3>2. CASE k <= longer
      BY <1>2, <2>1, <2>2, <2>4, <3>1, <3>2
    <3>3. CASE ~(k <= longer)
      BY <1>2, <2>1, <2>2, <2>4, <3>1, <3>3
    <3>4. QED BY <3>2, <3>3
  <2>8. Slice(k) = [from |-> Cut(k - 1), to |-> Cut(k)]
    BY <2>5, <2>6, <2>7
  <2>9. Cut(k) - Cut(k - 1) = size \/ Cut(k) - Cut(k - 1) = size + 1
    <3>1. longer \in Nat
      BY <1>2
    <3>2. CASE k <= longer
      BY <1>2, <2>1, <2>2, <2>3, <3>1, <3>2
    <3>3. CASE ~(k <= longer)
      BY <1>2, <2>1, <2>2, <2>3, <3>1, <3>3
    <3>4. QED BY <3>2, <3>3
  <2>10. QED BY <2>8, <2>9
<1>8. QED BY <1>2, <1>4, <1>5, <1>6, <1>7 DEF n, rows, size

\* No cut lies before an earlier one.
LEMMA CutsFollow ==
    ASSUME AsksOK, NEW i \in 0..asked.folds, NEW j \in 0..asked.folds, i <= j
    PROVE  Cut(i) <= Cut(j)
<1> DEFINE Before == {m \in Nat : m <= asked.folds /\ i <= m /\ ~(Cut(i) <= Cut(m))}
<1>1. asked.folds \in Nat /\ i \in Nat /\ j \in Nat
  BY DEF AsksOK
<1>2. ASSUME Before # {} PROVE FALSE
  <2>1. PICK m \in Before : \A k \in Before : m <= k
    <3>1. Before \subseteq Nat
      OBVIOUS
    <3>2. QED
      <4> HIDE DEF Before
      <4> QED BY <1>2, <3>1, LeastPlace
  <2>2. m \in Nat /\ m <= asked.folds /\ i <= m /\ ~(Cut(i) <= Cut(m))
    BY <2>1
  <2>3. Cut(i) \in Nat /\ Cut(m) \in Nat
    BY <1>1, <2>2, SliceShape
  <2>4. m # i
    BY <2>2, <2>3
  <2>5. m - 1 \in Nat /\ m - 1 <= asked.folds /\ i <= m - 1 /\ m \in 1..asked.folds /\ ~(m <= m - 1)
    BY <1>1, <2>2, <2>4
  <2>6. Cut(i) <= Cut(m - 1)
    <3>1. m - 1 \notin Before
      <4> HIDE DEF Before
      <4> QED BY <2>1, <2>5
    <3>2. QED BY <2>5, <3>1
  <2>7. Cut(m - 1) \in Nat /\ Cut(m - 1) <= Cut(m)
    <3> DEFINE size == data.rows \div asked.folds
    <3>1. size \in Nat /\ Cut(m) - Cut(m - 1) \in {size, size + 1}
      BY <2>5, SliceShape
    <3>2. Cut(m - 1) \in Nat
      <4>1. m - 1 \in 0..asked.folds
        BY <1>1, <2>5
      <4>2. QED BY <4>1, SliceShape
    <3> HIDE DEF size
    <3>3. QED BY <2>3, <3>1, <3>2
  <2>8. QED BY <2>2, <2>3, <2>6, <2>7
<1>3. j \notin Before
  <2> HIDE DEF Before
  <2> QED BY <1>2
<1>4. QED BY <1>1, <1>3

\* The slices of research, of which the empty ones are left out.
LEMMA SlicesShape ==
    ASSUME AsksOK, NEW out, out = Kept(AllSlices, WantedSlices)
    PROVE  /\ Apart(out) /\ RowsOf(out) = 0..(data.rows - 1)
           /\ \A i, j \in DOMAIN out : out[i].to - out[i].from <= out[j].to - out[j].from + 1
<1> DEFINE n == asked.folds
           size == data.rows \div n
<1>1. n \in Nat /\ n # 0 /\ data.rows \in Nat
  BY DEF AsksOK
<1>2. ASSUME NEW k \in 1..n
      PROVE  /\ Slice(k).from = Cut(k - 1) /\ Slice(k).to = Cut(k) /\ Slice(k) \in Records
             /\ Cut(k) \in Nat /\ Cut(k - 1) \in Nat
             /\ Cut(k) - Cut(k - 1) \in {size, size + 1} /\ size \in Nat
             /\ k - 1 \in 0..n /\ k \in 0..n
  <2>1. k - 1 \in 0..n /\ k \in 0..n
    BY <1>1
  <2>2. Cut(k) \in Nat /\ Cut(k - 1) \in Nat
    BY <2>1, SliceShape
  <2>3. /\ Slice(k) = [from |-> Cut(k - 1), to |-> Cut(k)]
        /\ Cut(k) - Cut(k - 1) \in {size, size + 1} /\ size \in Nat
    BY SliceShape
  <2>4. QED BY <2>1, <2>2, <2>3 DEF Records
<1>3. AllSlices \in Seq(Records) /\ Len(AllSlices) = n /\ \A k \in 1..n : AllSlices[k] = Slice(k)
  <2>1. AllSlices \in [1..n -> Records]
    BY <1>2 DEF AllSlices
  <2>2. QED BY <1>1, <2>1 DEF AllSlices
<1>4. out \in Seq(Records) /\ Selects(out, AllSlices, WantedSlices, n)
  <2> HIDE DEF n
  <2> QED BY <1>3, KeptSelects
<1>5. PICK at \in [1..Len(out) -> Int] :
        /\ \A i \in 1..Len(out) : at[i] \in WantedSlices /\ at[i] \in 1..n /\ out[i] = AllSlices[at[i]]
        /\ \A i, j \in 1..Len(out) : i < j => at[i] < at[j]
        /\ \A k \in 1..n : k \in WantedSlices => \E i \in 1..Len(out) : at[i] = k
  BY <1>4 DEF Selects
<1>6. DOMAIN out = 1..Len(out) /\ Len(out) \in Nat
  BY <1>4
<1>7. \A i \in DOMAIN out :
        /\ at[i] \in 1..n /\ out[i].from = Cut(at[i] - 1) /\ out[i].to = Cut(at[i])
        /\ Cut(at[i] - 1) \in Nat /\ Cut(at[i]) \in Nat
        /\ Cut(at[i]) - Cut(at[i] - 1) \in {size, size + 1}
  <2> SUFFICES ASSUME NEW i \in DOMAIN out
               PROVE  /\ at[i] \in 1..n /\ out[i].from = Cut(at[i] - 1) /\ out[i].to = Cut(at[i])
                      /\ Cut(at[i] - 1) \in Nat /\ Cut(at[i]) \in Nat
                      /\ Cut(at[i]) - Cut(at[i] - 1) \in {size, size + 1}
    OBVIOUS
  <2>1. at[i] \in 1..n /\ out[i] = AllSlices[at[i]]
    BY <1>5, <1>6
  <2>2. out[i] = Slice(at[i])
    BY <1>3, <2>1
  <2> DEFINE k == at[i]
  <2> HIDE DEF k, n, size
  <2>3. k \in 1..n /\ out[i] = Slice(k)
    BY <2>1, <2>2 DEF k
  <2>4. QED BY <1>2, <2>3 DEF k
<1>8. Apart(out)
  <2> SUFFICES ASSUME NEW i \in DOMAIN out, NEW j \in DOMAIN out, i < j PROVE out[i].to <= out[j].from
    BY DEF Apart
  <2>1. at[i] \in 1..n /\ at[j] \in 1..n /\ at[i] < at[j]
    BY <1>5, <1>6
  <2>2. at[i] \in 0..n /\ at[j] - 1 \in 0..n /\ at[i] <= at[j] - 1
    BY <1>1, <2>1
  <2>3. Cut(at[i]) <= Cut(at[j] - 1)
    BY <2>2, CutsFollow
  <2>4. QED BY <1>7, <2>3
<1>9. ASSUME NEW i \in DOMAIN out, NEW j \in DOMAIN out
      PROVE  out[i].to - out[i].from <= out[j].to - out[j].from + 1
  <2>1. size \in Nat
    BY SliceShape
  <2>2. out[i].to - out[i].from \in {size, size + 1} /\ out[j].to - out[j].from \in {size, size + 1}
    BY <1>7
  <2> HIDE DEF size
  <2>3. QED BY <2>1, <2>2
<1>10. ASSUME NEW x \in RowsOf(out) PROVE x \in 0..(data.rows - 1)
  <2>1. PICK i \in DOMAIN out : x \in out[i].from..(out[i].to - 1)
    BY DEF RowsOf
  <2>2. at[i] \in 1..n /\ out[i].from \in Nat /\ out[i].to = Cut(at[i]) /\ Cut(at[i]) \in Nat
    BY <1>7
  <2>3. Cut(at[i]) <= data.rows
    <3>1. at[i] \in 0..n /\ n \in 0..n /\ at[i] <= n
      BY <1>1, <2>2
    <3>2. Cut(at[i]) <= Cut(n) /\ Cut(n) = data.rows
      BY <3>1, CutsFollow, SliceShape
    <3>3. QED BY <3>2
  <2>4. QED BY <1>1, <2>1, <2>2, <2>3
<1>11. ASSUME NEW x \in 0..(data.rows - 1) PROVE x \in RowsOf(out)
  <2> DEFINE Beyond == {k \in Nat : k <= n /\ Cut(k) > x}
  <2>1. n \in Beyond
    <3>1. Cut(n) = data.rows
      BY SliceShape
    <3>2. QED BY <1>1, <3>1
  <2>2. PICK k \in Beyond : \A m \in Beyond : k <= m
    <3>1. Beyond \subseteq Nat /\ Beyond # {}
      BY <2>1
    <3>2. QED
      <4> HIDE DEF Beyond
      <4> QED BY <3>1, LeastPlace
  <2>3. k \in Nat /\ k <= n /\ Cut(k) > x
    BY <2>2
  <2>4. k # 0
    <3>1. Cut(0) = 0
      BY SliceShape
    <3>2. QED BY <2>3, <3>1
  <2>5. k \in 1..n /\ k - 1 \in Nat /\ k - 1 <= n /\ ~(k <= k - 1)
    BY <1>1, <2>3, <2>4
  <2>6. Cut(k - 1) \in Nat /\ Cut(k - 1) <= x /\ Cut(k) \in Nat
    <3>1. k - 1 \notin Beyond
      <4> HIDE DEF Beyond
      <4> QED BY <2>2, <2>5
    <3>2. ~(Cut(k - 1) > x)
      BY <2>5, <3>1
    <3>3. Cut(k - 1) \in Nat /\ Cut(k) \in Nat
      BY <1>2, <2>5
    <3>4. QED BY <3>2, <3>3
  <2>7. k \in WantedSlices
    <3>1. Slice(k).to = Cut(k) /\ Slice(k).from = Cut(k - 1)
      BY <1>2, <2>5
    <3>2. Cut(k) > Cut(k - 1)
      BY <2>3, <2>6
    <3>3. QED BY <2>5, <3>1, <3>2 DEF WantedSlices
  <2>8. PICK i \in DOMAIN out : at[i] = k
    BY <1>5, <1>6, <2>5, <2>7
  <2>9. x \in out[i].from..(out[i].to - 1)
    <3>1. out[i].from = Cut(k - 1) /\ out[i].to = Cut(k)
      BY <1>7, <2>8
    <3>2. QED BY <2>3, <2>6, <3>1
  <2>10. QED BY <2>9 DEF RowsOf
<1>12. RowsOf(out) = 0..(data.rows - 1)
  BY <1>10, <1>11
<1>13. QED BY <1>8, <1>9, <1>12

LEMMA WalkInitial == WalkInit => WalkInv
<1> SUFFICES ASSUME WalkInit PROVE WalkInv
  OBVIOUS
<1>1. PICK rows \in 0..MaxRows : data \in [rows : {rows}, dull : 0..rows]
  BY DEF WalkInit
<1>2. data.rows = rows /\ data.dull \in 0..rows /\ rows \in Nat
  BY <1>1, WalkForwardAssumption
<1>3. asked.start \in Nat \ {0} /\ asked.folds \in Nat \ {0}
  BY WalkForwardAssumption DEF WalkInit
<1>4. AsksOK
  BY <1>2, <1>3 DEF AsksOK
<1>5. QED BY <1>4 DEF WalkInit, WalkInv

\* Data and what is asked never change, nor does what they come to.
LEMMA AskedStays ==
    ASSUME UNCHANGED <<data, asked>>
    PROVE  /\ ScoredFolds' = ScoredFolds /\ PredictionFolds' = PredictionFolds
           /\ Kept(AllSlices, WantedSlices)' = Kept(AllSlices, WantedSlices)
           /\ Few' = Few /\ SameKind' = SameKind /\ AsksOK' = AsksOK
<1>1. \A k : Fold(k)' = Fold(k)
  BY DEF Fold, FoldSize
<1>2. \A k : Slice(k)' = Slice(k)
  BY DEF Slice
<1>3. AllFolds' = AllFolds
  BY <1>1 DEF AllFolds
<1>4. AllSlices' = AllSlices
  BY <1>2 DEF AllSlices
<1>5. \A k : (LongEnough(Fold(k)) /\ Trainable(Fold(k)))' = (LongEnough(Fold(k)) /\ Trainable(Fold(k)))
  BY <1>1 DEF LongEnough, Trainable
<1>6. WantedFolds' = WantedFolds
  BY <1>5 DEF WantedFolds
<1>7. WantedSlices' = WantedSlices
  BY <1>2 DEF WantedSlices
<1>8. ScoredFolds' = ScoredFolds /\ PredictionFolds' = PredictionFolds
  BY <1>3, <1>6 DEF ScoredFolds, PredictionFolds, WantedFolds
<1>9. Kept(AllSlices, WantedSlices)' = Kept(AllSlices, WantedSlices)
  BY <1>4, <1>7
<1>10. QED BY <1>8, <1>9 DEF Few, SameKind, AsksOK

LEMMA WalkStep == WalkInv /\ [WalkNext]_walkVars => WalkInv'
<1> SUFFICES ASSUME WalkInv, [WalkNext]_walkVars PROVE WalkInv'
  OBVIOUS
<1>1. UNCHANGED <<data, asked>>
  BY DEF WalkNext, walkVars, WalkForwardValidate, FeeAwareBacktest, SplitResearch
<1>2. /\ ScoredFolds' = ScoredFolds /\ PredictionFolds' = PredictionFolds
      /\ Kept(AllSlices, WantedSlices)' = Kept(AllSlices, WantedSlices)
      /\ Few' = Few /\ SameKind' = SameKind /\ AsksOK' = AsksOK /\ data' = data
  BY <1>1, AskedStays
<1>3. CASE UNCHANGED walkVars
  BY <1>2, <1>3 DEF WalkInv, walkVars
<1>4. CASE WalkForwardValidate
  <2>1. backtested = Unmeasured
    BY <1>4 DEF WalkInv, WalkForwardValidate
  <2>2. \/ validated' = [reason |-> "not_enough_rows", folds |-> <<>>] /\ Few
        \/ validated' = [reason |-> "target_class_diversity_too_low", folds |-> <<>>] /\ ~Few /\ SameKind
        \/ validated' = [reason |-> "no_trainable_validation_folds", folds |-> <<>>]
            /\ ~Few /\ ScoredFolds = <<>>
        \/ validated' = [reason |-> "none", folds |-> ScoredFolds]
            /\ ~Few /\ ~SameKind /\ ScoredFolds # <<>>
    BY <1>4 DEF WalkForwardValidate, Few, SameKind
  <2>3. backtested' = Unmeasured /\ slices' = slices
    BY <1>4, <2>1 DEF WalkForwardValidate
  <2>4. QED BY <1>2, <2>2, <2>3 DEF WalkInv
<1>5. CASE FeeAwareBacktest
  <2>1. \/ backtested' = [reason |-> "not_enough_rows", folds |-> <<>>] /\ Few
        \/ backtested' = [reason |-> "no_validation_folds", folds |-> <<>>]
            /\ ~Few /\ PredictionFolds = <<>>
        \/ backtested' = [reason |-> "none", folds |-> PredictionFolds]
            /\ ~Few /\ PredictionFolds # <<>>
    BY <1>5 DEF FeeAwareBacktest, Few
  <2>2. validated # Unmeasured /\ validated' = validated /\ slices' = slices /\ Unmeasured' = Unmeasured
    BY <1>5 DEF FeeAwareBacktest, Unmeasured
  <2>3. QED BY <1>2, <2>1, <2>2 DEF WalkInv
<1>6. CASE SplitResearch
  <2>1. slices' = Kept(AllSlices, WantedSlices) /\ data.rows > 0
    BY <1>6 DEF SplitResearch, AllSlices, WantedSlices
  <2>2. validated' = validated /\ backtested' = backtested
    BY <1>6 DEF SplitResearch
  <2>3. QED BY <1>2, <2>1, <2>2 DEF WalkInv
<1>7. QED BY <1>3, <1>4, <1>5, <1>6 DEF WalkNext

\* No row is scored by a model that was trained on it, validation and backtest
\* score the same rows, and the slices of research are a partition of theirs:
\* for all numbers of rows and folds, and all minimal lengths.
THEOREM FoldsTheorem == WalkSpec => []FoldsLookForward
<1>1. WalkInv => FoldsLookForward
  <2> SUFFICES ASSUME WalkInv PROVE FoldsLookForward
    OBVIOUS
  <2>1. AsksOK
    BY DEF WalkInv
  <2>2. PredictionFolds = ScoredFolds
    BY DEF PredictionFolds, ScoredFolds
  <2>3. Apart(<<>>) /\ DOMAIN <<>> = {}
    BY DEF Apart
  <2>4. validated.reason = "none" => validated.folds = ScoredFolds /\ ~Few /\ ScoredFolds # <<>>
    BY DEF WalkInv, Unmeasured
  <2>5. validated.reason # "none" => validated.folds = <<>>
    BY DEF WalkInv, Unmeasured
  <2>6. backtested # Unmeasured =>
            /\ (validated.reason = "none") = (backtested.reason = "none")
            /\ validated.folds = backtested.folds
    <3> SUFFICES ASSUME backtested # Unmeasured
                 PROVE  /\ (validated.reason = "none") = (backtested.reason = "none")
                        /\ validated.folds = backtested.folds
      OBVIOUS
    <3>1. ~Few /\ SameKind => ScoredFolds = <<>>
      BY <2>1, ScoredShape
    <3>2. validated.reason = "none" <=> (~Few /\ ScoredFolds # <<>>)
      BY <3>1 DEF WalkInv, Unmeasured
    <3>3. backtested.reason = "none" <=> (~Few /\ ScoredFolds # <<>>)
      BY <2>2 DEF WalkInv, Unmeasured
    <3>4. backtested.reason = "none" => backtested.folds = ScoredFolds
      BY <2>2 DEF WalkInv, Unmeasured
    <3>5. backtested.reason # "none" => backtested.folds = <<>>
      BY DEF WalkInv, Unmeasured
    <3>6. QED BY <2>4, <2>5, <3>2, <3>3, <3>4, <3>5
  <2>7. Apart(validated.folds) /\ \A i \in DOMAIN validated.folds : validated.folds[i].from >= asked.start
    <3>1. CASE validated.reason = "none"
      BY <2>1, <2>4, <3>1, ScoredShape
    <3>2. CASE validated.reason # "none"
      BY <2>3, <2>5, <3>2
    <3>3. QED BY <3>1, <3>2
  <2>8. validated.reason = "none" =>
            data.rows - validated.folds[Len(validated.folds)].to <= Max({MinTail, asked.folds - 1})
    BY <2>1, <2>4, ScoredShape
  <2>9. slices # <<>> =>
            /\ Apart(slices) /\ RowsOf(slices) = 0..(data.rows - 1)
            /\ \A i, j \in DOMAIN slices :
                 slices[i].to - slices[i].from <= slices[j].to - slices[j].from + 1
    <3> SUFFICES ASSUME slices # <<>>
                 PROVE  /\ Apart(slices) /\ RowsOf(slices) = 0..(data.rows - 1)
                        /\ \A i, j \in DOMAIN slices :
                             slices[i].to - slices[i].from <= slices[j].to - slices[j].from + 1
      OBVIOUS
    <3>1. slices = Kept(AllSlices, WantedSlices)
      BY DEF WalkInv
    <3>2. QED BY <2>1, <3>1, SlicesShape
  <2>10. QED BY <2>6, <2>7, <2>8, <2>9 DEF FoldsLookForward
<1>2. QED BY <1>1, WalkInitial, WalkStep, PTL DEF WalkSpec

(***************************************************************************)
(* Accounting                                                              *)
(***************************************************************************)

Orders == [side : {"buy", "sell"}, qty : Quantities, price : FillPrices]
LotRecords == [at : Nat, qty : Nat \ {0}, price : Nat, effective : Int, fee : Nat]
SumRecords == [qty : Nat, gross : Int, net : Int, fees : Nat]
Matchings == [qty : Nat, fee : Nat, open : Seq(LotRecords), sums : SumRecords]

\* A share of a fee is at most the fee, and the share of the whole is all of it.
LEMMA Share ==
    ASSUME NEW fee \in Nat, NEW matched \in Nat, NEW qty \in Nat, qty # 0, matched <= qty
    PROVE  /\ (fee * matched) \div qty \in Nat /\ (fee * matched) \div qty <= fee
           /\ matched = 0 => (fee * matched) \div qty = 0
           /\ matched = qty => (fee * matched) \div qty = fee
<1>1. fee * matched \in Nat /\ fee * matched <= fee * qty
  OBVIOUS
<1>2. (fee * matched) \div qty \in Nat /\ qty * ((fee * matched) \div qty) <= fee * matched
  BY <1>1
<1>3. (fee * matched) \div qty <= fee
  <2> DEFINE part == (fee * matched) \div qty
  <2>1. part \in Nat /\ qty * part <= qty * fee
    BY <1>1, <1>2
  <2>2. ASSUME part > fee PROVE FALSE
    <3>1. qty * part >= qty * (fee + 1)
      <4> HIDE DEF part
      <4> QED BY <2>1, <2>2
    <3>2. qty * (fee + 1) = qty * fee + qty
      OBVIOUS
    <3>3. QED
      <4> HIDE DEF part
      <4> QED BY <2>1, <3>1, <3>2
  <2>3. QED
    <3> HIDE DEF part
    <3>1. part <= fee
      BY <2>1, <2>2
    <3>2. QED BY <3>1 DEF part
<1>4. matched = 0 => (fee * matched) \div qty = 0
  OBVIOUS
<1>5. (fee * qty) \div qty = fee
  OBVIOUS
<1>6. QED BY <1>2, <1>3, <1>4, <1>5

LEMMA OrderCosts ==
    ASSUME NEW order \in Orders
    PROVE  /\ order.qty \in Nat \ {0} /\ order.price \in Nat
           /\ Effective(order) \in Int /\ Fee(order) \in Nat
<1>1. order.qty \in Nat \ {0} /\ order.price \in Nat /\ Basis \in Nat \ {0} /\ FlatFee \in Nat
  BY AccountingAssumption DEF Orders
<1>2. order.price \div Basis \in Nat /\ (order.qty * order.price) \div Basis \in Nat
  <2>1. order.qty * order.price \in Nat
    BY <1>1
  <2>2. QED BY <1>1, <2>1
<1>3. QED BY <1>1, <1>2 DEF Effective, Slippage, Fee

LEMMA LotIsRecord ==
    ASSUME NEW order \in Orders, NEW at \in Nat
    PROVE  Lot(order, at) \in LotRecords
BY OrderCosts DEF Lot, LotRecords

Of(lots) == [qty |-> [i \in DOMAIN lots |-> lots[i].qty],
             fee |-> [i \in DOMAIN lots |-> lots[i].fee],
             value |-> [i \in DOMAIN lots |-> lots[i].qty * lots[i].effective + lots[i].fee]]

LEMMA LotNumbers ==
    ASSUME NEW lots \in Seq(LotRecords), NEW i \in 1..Len(lots)
    PROVE  /\ Of(lots).qty[i] = lots[i].qty /\ lots[i].qty \in Nat \ {0}
           /\ Of(lots).fee[i] = lots[i].fee /\ lots[i].fee \in Nat
           /\ Of(lots).value[i] = lots[i].qty * lots[i].effective + lots[i].fee
           /\ Of(lots).value[i] \in Int
<1>1. lots[i] \in LotRecords /\ i \in DOMAIN lots
  OBVIOUS
<1>2. QED BY <1>1 DEF Of, LotRecords

LEMMA LotTotals ==
    ASSUME NEW lots
    PROVE  /\ Units(lots) = Total(Of(lots).qty, Len(lots))
           /\ FeesLeft(lots) = Total(Of(lots).fee, Len(lots))
           /\ BookValue(lots) = Total(Of(lots).value, Len(lots))
BY DEF Units, FeesLeft, BookValue, Of

LEMMA LotTotalsType ==
    ASSUME NEW lots \in Seq(LotRecords), NEW k \in 0..Len(lots)
    PROVE  /\ Total(Of(lots).qty, k) \in Int /\ Total(Of(lots).fee, k) \in Int
           /\ Total(Of(lots).value, k) \in Int
<1>1. \A i \in 1..k : Of(lots).qty[i] \in Int /\ Of(lots).fee[i] \in Int /\ Of(lots).value[i] \in Int
  BY LotNumbers
<1>2. k \in Nat
  OBVIOUS
<1>3. QED BY <1>1, <1>2, TotalType

\* One lot more of a sequence.
LEMMA NextLot ==
    ASSUME NEW lots \in Seq(LotRecords), NEW k \in 1..Len(lots)
    PROVE  /\ Total(Of(lots).qty, k) = Total(Of(lots).qty, k - 1) + lots[k].qty
           /\ Total(Of(lots).fee, k) = Total(Of(lots).fee, k - 1) + lots[k].fee
           /\ Total(Of(lots).value, k) =
                Total(Of(lots).value, k - 1) + lots[k].qty * lots[k].effective + lots[k].fee
<1>1. \A i \in 1..k : /\ Of(lots).qty[i] \in Int /\ Of(lots).fee[i] \in Int /\ Of(lots).value[i] \in Int
  BY LotNumbers
<1>2. k - 1 \in Nat /\ (k - 1) + 1 = k /\ k - 1 \in 0..Len(lots)
  OBVIOUS
<1>3. /\ Of(lots).qty[k] = lots[k].qty /\ Of(lots).fee[k] = lots[k].fee
      /\ Of(lots).value[k] = lots[k].qty * lots[k].effective + lots[k].fee
      /\ lots[k].qty \in Nat /\ lots[k].fee \in Nat /\ lots[k].effective \in Int
  <2>1. lots[k] \in LotRecords
    OBVIOUS
  <2>2. QED BY <2>1, LotNumbers DEF LotRecords
<1>4. \A i \in 1..(k - 1) : /\ Of(lots).qty[i] \in Int /\ Of(lots).fee[i] \in Int /\ Of(lots).value[i] \in Int
  BY <1>1
<1>5. /\ Of(lots).qty[(k - 1) + 1] \in Int /\ Of(lots).fee[(k - 1) + 1] \in Int
      /\ Of(lots).value[(k - 1) + 1] \in Int
  BY <1>1, <1>2
<1>6. /\ Total(Of(lots).qty, k) = Total(Of(lots).qty, k - 1) + Of(lots).qty[k]
      /\ Total(Of(lots).fee, k) = Total(Of(lots).fee, k - 1) + Of(lots).fee[k]
      /\ Total(Of(lots).value, k) = Total(Of(lots).value, k - 1) + Of(lots).value[k]
  <2> DEFINE before == k - 1
  <2> HIDE DEF before
  <2>1. before \in Nat /\ before + 1 = k
    BY <1>2 DEF before
  <2>2. QED BY <1>2, <1>4, <1>5, <2>1, TotalMore DEF before
<1>7. /\ Total(Of(lots).qty, k - 1) \in Int /\ Total(Of(lots).fee, k - 1) \in Int
      /\ Total(Of(lots).value, k - 1) \in Int
  BY <1>2, LotTotalsType
<1>8. QED BY <1>3, <1>6, <1>7

\* One lot more at the end.
LEMMA AppendLot ==
    ASSUME NEW lots \in Seq(LotRecords), NEW lot \in LotRecords
    PROVE  /\ Append(lots, lot) \in Seq(LotRecords)
           /\ Units(Append(lots, lot)) = Units(lots) + lot.qty
           /\ FeesLeft(Append(lots, lot)) = FeesLeft(lots) + lot.fee
           /\ BookValue(Append(lots, lot)) = BookValue(lots) + lot.qty * lot.effective + lot.fee
<1> DEFINE more == Append(lots, lot)
           n == Len(lots)
<1>1. /\ more \in Seq(LotRecords) /\ n \in Nat /\ Len(more) = n + 1 /\ more[n + 1] = lot
      /\ \A i \in 1..n : more[i] = lots[i]
  OBVIOUS
<1>2. \A i \in 1..n : /\ Of(lots).qty[i] \in Int /\ Of(more).qty[i] = Of(lots).qty[i]
                      /\ Of(lots).fee[i] \in Int /\ Of(more).fee[i] = Of(lots).fee[i]
                      /\ Of(lots).value[i] \in Int /\ Of(more).value[i] = Of(lots).value[i]
  <2> HIDE DEF more
  <2>1. SUFFICES ASSUME NEW i \in 1..n
                 PROVE  /\ Of(lots).qty[i] \in Int /\ Of(more).qty[i] = Of(lots).qty[i]
                        /\ Of(lots).fee[i] \in Int /\ Of(more).fee[i] = Of(lots).fee[i]
                        /\ Of(lots).value[i] \in Int /\ Of(more).value[i] = Of(lots).value[i]
    OBVIOUS
  <2>2. i \in 1..Len(more) /\ i \in 1..Len(lots)
    BY <1>1
  <2>3. QED BY <1>1, <2>2, LotNumbers
<1>3. n + 1 \in 1..Len(more) /\ (n + 1) - 1 = n
  BY <1>1
<1> HIDE DEF more
<1>4. /\ Total(Of(more).qty, n + 1) = Total(Of(more).qty, n) + lot.qty
      /\ Total(Of(more).fee, n + 1) = Total(Of(more).fee, n) + lot.fee
      /\ Total(Of(more).value, n + 1) = Total(Of(more).value, n) + lot.qty * lot.effective + lot.fee
  <2> DEFINE last == n + 1
  <2> HIDE DEF last, n
  <2>1. last \in 1..Len(more) /\ last - 1 = n /\ more[last] = lot
    BY <1>1, <1>3 DEF last
  <2>2. QED BY <1>1, <2>1, NextLot DEF last
<1>5. /\ Total(Of(more).qty, n) = Total(Of(lots).qty, n)
      /\ Total(Of(more).fee, n) = Total(Of(lots).fee, n)
      /\ Total(Of(more).value, n) = Total(Of(lots).value, n)
  <2> HIDE DEF n
  <2> QED BY <1>1, <1>2, TotalsAgree
<1>6. QED
  <2> HIDE DEF n
  <2>1. /\ Units(more) = Total(Of(more).qty, n + 1) /\ Units(lots) = Total(Of(lots).qty, n)
        /\ FeesLeft(more) = Total(Of(more).fee, n + 1) /\ FeesLeft(lots) = Total(Of(lots).fee, n)
        /\ BookValue(more) = Total(Of(more).value, n + 1)
        /\ BookValue(lots) = Total(Of(lots).value, n)
    BY <1>1, LotTotals DEF n
  <2>2. QED BY <1>1, <1>4, <1>5, <2>1 DEF more

LEMMA MinOfTwo ==
    ASSUME NEW a \in Nat, NEW b \in Nat
    PROVE  Min({a, b}) \in Nat /\ Min({a, b}) = IF a <= b THEN a ELSE b
<1>1. a \in Int /\ b \in Int
  OBVIOUS
<1>2. Min({a, b}) = IF a <= b THEN a ELSE b
  BY <1>1, MaxOfTwo
<1>3. QED BY <1>2

\* What is left of a lot of which a part was sold.
Rest(lot, matched) == [lot EXCEPT !.qty = @ - matched, !.fee = @ - EntryFee(lot, matched)]

\* One turn of match_lots: types, and what becomes of the lot and of the fee of the sell.
LEMMA OneLot ==
    ASSUME NEW sell \in Orders, NEW state \in Matchings, NEW lot \in LotRecords
    PROVE  LET matched == IF state.qty <= lot.qty THEN state.qty ELSE lot.qty
               next == MatchLot(state, sell, lot)
               entry == EntryFee(lot, matched)
           IN  /\ matched \in Nat /\ next \in Matchings
               /\ next.qty = state.qty - matched
               /\ entry \in Nat /\ entry <= lot.fee
               /\ matched = lot.qty => entry = lot.fee
               /\ matched = state.qty => next.fee = 0 \/ (state.qty = 0 /\ next.fee = state.fee)
               /\ next.fee <= state.fee
               /\ next.open = IF matched = lot.qty THEN state.open ELSE Append(state.open, Rest(lot, matched))
               /\ matched < lot.qty => Rest(lot, matched) \in LotRecords
               /\ next.sums.qty = state.sums.qty + matched
               /\ next.sums.net = state.sums.net + matched * (Effective(sell) - lot.effective)
                                    - (state.fee - next.fee) - entry
               /\ next.sums.fees = state.sums.fees + entry + (state.fee - next.fee)
<1> DEFINE matched == IF state.qty <= lot.qty THEN state.qty ELSE lot.qty
           next == MatchLot(state, sell, lot)
           entry == EntryFee(lot, matched)
           exit == ExitFee(state, sell, matched)
<1>1. /\ state.qty \in Nat /\ state.fee \in Nat /\ state.open \in Seq(LotRecords)
      /\ state.sums \in SumRecords
      /\ lot.qty \in Nat \ {0} /\ lot.fee \in Nat /\ lot.effective \in Int /\ lot.price \in Nat
      /\ sell.price \in Nat /\ Effective(sell) \in Int
  BY OrderCosts DEF Matchings, LotRecords
<1>2. matched \in Nat /\ matched = Min({state.qty, lot.qty}) /\ matched <= lot.qty /\ matched <= state.qty
  BY <1>1, MinOfTwo
<1> HIDE DEF matched
<1>3. entry \in Nat /\ entry <= lot.fee /\ (matched = lot.qty => entry = lot.fee)
  BY <1>1, <1>2, Share DEF EntryFee
<1>4. exit \in Nat /\ exit <= state.fee /\ (matched = state.qty => exit = state.fee \/ (state.qty = 0 /\ exit = 0))
  <2>1. CASE state.qty = 0
    BY <1>1, <2>1 DEF ExitFee
  <2>2. CASE state.qty # 0
    <3>1. exit = (state.fee * matched) \div state.qty
      BY <2>2 DEF ExitFee
    <3> HIDE DEF exit
    <3>2. state.fee \in Nat /\ state.qty \in Nat /\ matched \in Nat /\ matched <= state.qty
      BY <1>1, <1>2
    <3> DEFINE fee == state.fee
               qty == state.qty
    <3>3. exit = (fee * matched) \div qty /\ fee \in Nat /\ qty \in Nat /\ qty # 0 /\ matched \in Nat /\ matched <= qty
      BY <2>2, <3>1, <3>2
    <3> HIDE DEF fee, qty
    <3>4. exit \in Nat /\ exit <= fee /\ (matched = qty => exit = fee)
      BY <3>3, Share
    <3>5. QED BY <3>4 DEF fee, qty
  <2>3. QED BY <2>1, <2>2
<1> HIDE DEF entry, exit
<1>5. /\ next.qty = state.qty - matched
      /\ next.fee = state.fee - exit
      /\ next.open = IF matched = lot.qty THEN state.open ELSE Append(state.open, Rest(lot, matched))
      /\ next.sums = [qty |-> state.sums.qty + matched,
                      gross |-> state.sums.gross + matched * (sell.price - lot.price),
                      net |-> state.sums.net + matched * (Effective(sell) - lot.effective) - exit - entry,
                      fees |-> state.sums.fees + entry + exit]
      /\ next = [qty |-> next.qty, fee |-> next.fee, open |-> next.open, sums |-> next.sums]
  BY <1>2 DEF MatchLot, Rest, entry, exit
<1>6. matched < lot.qty => Rest(lot, matched) \in LotRecords
  <2>1. SUFFICES ASSUME matched < lot.qty PROVE Rest(lot, matched) \in LotRecords
    OBVIOUS
  <2>2. lot.qty - matched \in Nat \ {0} /\ lot.fee - entry \in Nat
    BY <1>1, <1>2, <1>3, <2>1
  <2>3. QED BY <2>2 DEF Rest, LotRecords, entry
<1>7. /\ state.sums.qty \in Nat /\ state.sums.gross \in Int /\ state.sums.net \in Int /\ state.sums.fees \in Nat
  BY <1>1 DEF SumRecords
<1>8. next.sums \in SumRecords
  <2>1. /\ state.sums.qty + matched \in Nat /\ state.sums.fees + entry + exit \in Nat
        /\ state.sums.gross + matched * (sell.price - lot.price) \in Int
        /\ state.sums.net + matched * (Effective(sell) - lot.effective) - exit - entry \in Int
    <3>1. matched * (sell.price - lot.price) \in Int /\ matched * (Effective(sell) - lot.effective) \in Int
      BY <1>1, <1>2
    <3> DEFINE gross == matched * (sell.price - lot.price)
               net == matched * (Effective(sell) - lot.effective)
    <3>2. gross \in Int /\ net \in Int
      BY <3>1
    <3> HIDE DEF gross, net
    <3>3. /\ state.sums.qty + matched \in Nat /\ state.sums.fees + entry + exit \in Nat
          /\ state.sums.gross + gross \in Int /\ state.sums.net + net - exit - entry \in Int
      BY <1>2, <1>3, <1>4, <1>7, <3>2
    <3>4. QED BY <3>3 DEF gross, net
  <2>2. QED BY <1>5, <2>1 DEF SumRecords
<1>9. next.open \in Seq(LotRecords)
  <2>1. CASE matched = lot.qty
    BY <1>1, <1>5, <2>1
  <2>2. CASE matched # lot.qty
    <3>1. Rest(lot, matched) \in LotRecords
      BY <1>1, <1>2, <1>6, <2>2
    <3>2. QED BY <1>1, <1>5, <2>2, <3>1
  <2>3. QED BY <2>1, <2>2
<1>10. next.qty \in Nat /\ next.fee \in Nat
  <2> HIDE DEF next
  <2>1. next.qty = state.qty - matched /\ next.fee = state.fee - exit
    BY <1>5
  <2>2. QED BY <1>1, <1>2, <1>4, <2>1
<1>11. next \in Matchings
  <2> HIDE DEF next
  <2> QED BY <1>5, <1>8, <1>9, <1>10 DEF Matchings
<1>12. /\ next.sums.qty = state.sums.qty + matched
       /\ next.sums.net = state.sums.net + matched * (Effective(sell) - lot.effective)
                                    - (state.fee - next.fee) - entry
       /\ next.sums.fees = state.sums.fees + entry + (state.fee - next.fee)
  <2> HIDE DEF next
  <2>1. exit = state.fee - next.fee
    <3>1. next.fee = state.fee - exit
      BY <1>5
    <3>2. QED BY <1>1, <1>4, <3>1
  <2>2. /\ next.sums.qty = state.sums.qty + matched
        /\ next.sums.net = state.sums.net + matched * (Effective(sell) - lot.effective) - exit - entry
        /\ next.sums.fees = state.sums.fees + entry + exit
    BY <1>5
  <2>3. QED BY <2>1, <2>2
<1>13. /\ matched = state.qty => next.fee = 0 \/ (state.qty = 0 /\ next.fee = state.fee)
       /\ next.fee <= state.fee
  <2> HIDE DEF next
  <2>1. next.fee = state.fee - exit
    BY <1>5
  <2>2. QED BY <1>1, <1>4, <2>1
<1>14. QED
  <2> HIDE DEF next
  <2> QED BY <1>2, <1>3, <1>5, <1>6, <1>11, <1>12, <1>13 DEF matched, next, entry

LEMMA Spread ==
    ASSUME NEW a \in Int, NEW b \in Int, NEW c \in Int
    PROVE  /\ a * b \in Int
           /\ (a + b) * c = a * c + b * c
           /\ (a - b) * c = a * c - b * c
           /\ a * (b - c) = a * b - a * c
OBVIOUS

Unmatched(sell) == [qty |-> sell.qty, fee |-> Fee(sell), open |-> <<>>, sums |-> Sums]

\* What match_lots goes through, lot after lot.
MatchRun(after, sell, lots) ==
    /\ after \in [0..Len(lots) -> Matchings]
    /\ after[0] = Unmatched(sell)
    /\ \A k \in 1..Len(lots) : after[k] = MatchLot(after[k - 1], sell, lots[k])
    /\ Match(sell, lots) = after[Len(lots)]

LEMMA MatchRuns ==
    ASSUME NEW sell \in Orders, NEW lots \in Seq(LotRecords)
    PROVE  \E after : MatchRun(after, sell, lots)
<1> DEFINE n == Len(lots)
           Turn(f, k) == IF k = 0 THEN Unmatched(sell) ELSE MatchLot(f[k - 1], sell, lots[k])
           IsLoop(f) == f = [k \in 0..n |-> Turn(f, k)]
           run == CHOOSE f : IsLoop(f)
           turn == [k \in 1..n |-> [x \in Matchings |-> MatchLot(x, sell, lots[k])]]
<1>0. n \in Nat
  OBVIOUS
<1>1. Match(sell, lots) = run[n]
  BY DEF Match, Unmatched
<1>2. Unmatched(sell) \in Matchings
  BY OrderCosts DEF Unmatched, Matchings, SumRecords, Sums
<1>3. ASSUME NEW k \in 1..n, NEW x \in Matchings PROVE MatchLot(x, sell, lots[k]) \in Matchings
  <2>1. lots[k] \in LotRecords
    OBVIOUS
  <2>2. QED BY <2>1, OneLot
<1>4. turn \in [1..n -> [Matchings -> Matchings]]
  <2> HIDE DEF n
  <2> QED BY <1>3
<1>5. PICK f : RunOf(f, n, Matchings, Unmatched(sell), turn)
  <2> HIDE DEF turn, n
  <2> QED BY <1>0, <1>2, <1>4, LoopRuns
<1>6. f \in [0..n -> Matchings] /\ f[0] = Unmatched(sell) /\ \A k \in 1..n : f[k] = turn[k][f[k - 1]]
  <2> HIDE DEF turn, n
  <2> QED BY <1>5 DEF RunOf
<1>7. ASSUME NEW k \in 0..n PROVE f[k] = Turn(f, k)
  <2>1. CASE k = 0
    BY <1>6, <2>1
  <2>2. CASE k # 0
    <3> HIDE DEF n
    <3>1. k \in 1..n /\ k - 1 \in 0..n
      BY <1>0, <2>2
    <3>2. turn[k][f[k - 1]] = MatchLot(f[k - 1], sell, lots[k])
      BY <1>6, <3>1
    <3>3. QED
      <4> HIDE DEF turn
      <4> QED BY <1>6, <2>2, <3>1, <3>2
  <2>3. QED BY <2>1, <2>2
<1>8. IsLoop(f)
  <2> HIDE DEF Turn, n
  <2> QED BY <1>6, <1>7
<1>9. IsLoop(run)
  <2> HIDE DEF IsLoop
  <2> QED BY <1>8, Zenon
<1>10. \A k \in 0..n : run[k] = Turn(run, k)
  <2> HIDE DEF run, Turn, n
  <2> QED BY <1>9
<1>11. \A k \in 0..n : run[k] \in Matchings
  <2> DEFINE T == {k \in 0..n : run[k] \in Matchings}
  <2>1. 0 \in T
    <3> HIDE DEF run, n
    <3> QED BY <1>0, <1>2, <1>10
  <2>2. ASSUME NEW k \in 1..n, k - 1 \in T PROVE k \in T
    <3> HIDE DEF run, n
    <3>1. run[k] = MatchLot(run[k - 1], sell, lots[k]) /\ k \in 0..n
      BY <1>0, <1>10
    <3>2. QED BY <1>3, <2>2, <3>1
  <2>3. \A k \in 0..n : k \in T
    <3> HIDE DEF T, n
    <3> QED BY <1>0, <2>1, <2>2, Turns
  <2>4. QED BY <2>3
<1>12. run \in [0..n -> Matchings]
  <2> HIDE DEF run, Turn, n
  <2> QED BY <1>9, <1>11
<1>13. MatchRun(run, sell, lots)
  <2> HIDE DEF run, IsLoop
  <2> QED BY <1>1, <1>10, <1>12 DEF MatchRun
<1>14. QED BY <1>13

LEMMA NoLots ==
    /\ Units(<<>>) = 0 /\ FeesLeft(<<>>) = 0 /\ BookValue(<<>>) = 0
    /\ <<>> \in Seq(LotRecords)
BY LotTotals, TotalNone

\* What match_lots keeps true: it has taken from the lots before the next one
\* what it has realized, and no lot is left open while units are left to sell.
Balanced(state, sell, lots, k) ==
    /\ state.qty + state.sums.qty = sell.qty
    /\ Units(state.open) + state.sums.qty = Total(Of(lots).qty, k)
    /\ FeesLeft(state.open) + state.sums.fees + state.fee = Total(Of(lots).fee, k) + Fee(sell)
    /\ state.sums.net = state.sums.qty * Effective(sell) - (Fee(sell) - state.fee)
                            - (Total(Of(lots).value, k) - BookValue(state.open))
    /\ state.qty > 0 => state.open = <<>>
    /\ state.qty = 0 => state.fee = 0

LEMMA BalancedAtFirst ==
    ASSUME NEW sell \in Orders, NEW lots
    PROVE  Balanced(Unmatched(sell), sell, lots, 0)
<1>1. /\ Total(Of(lots).qty, 0) = 0 /\ Total(Of(lots).fee, 0) = 0 /\ Total(Of(lots).value, 0) = 0
  BY TotalNone
<1>2. QED BY <1>1, NoLots, OrderCosts DEF Balanced, Unmatched, Sums

LEMMA LotTotalsAll ==
    ASSUME NEW lots \in Seq(LotRecords)
    PROVE  Units(lots) \in Int /\ FeesLeft(lots) \in Int /\ BookValue(lots) \in Int
<1>1. Len(lots) \in 0..Len(lots)
  OBVIOUS
<1>2. QED BY <1>1, LotTotals, LotTotalsType

LEMMA BalancedNext ==
    ASSUME NEW sell \in Orders, NEW lots \in Seq(LotRecords), NEW k \in 1..Len(lots),
           NEW state \in Matchings, Balanced(state, sell, lots, k - 1)
    PROVE  Balanced(MatchLot(state, sell, lots[k]), sell, lots, k)
<1> DEFINE lot == lots[k]
           matched == IF state.qty <= lot.qty THEN state.qty ELSE lot.qty
           next == MatchLot(state, sell, lot)
           entry == EntryFee(lot, matched)
<1>1. lot \in LotRecords
  OBVIOUS
<1>2. /\ state.qty \in Nat /\ state.fee \in Nat /\ state.open \in Seq(LotRecords)
      /\ state.sums.qty \in Nat /\ state.sums.net \in Int /\ state.sums.fees \in Nat
      /\ lot.qty \in Nat \ {0} /\ lot.fee \in Nat /\ lot.effective \in Int
      /\ Effective(sell) \in Int /\ Fee(sell) \in Nat /\ sell.qty \in Nat
  BY <1>1, OrderCosts DEF Matchings, LotRecords, SumRecords
<1>3. /\ Total(Of(lots).qty, k) = Total(Of(lots).qty, k - 1) + lot.qty
      /\ Total(Of(lots).fee, k) = Total(Of(lots).fee, k - 1) + lot.fee
      /\ Total(Of(lots).value, k) = Total(Of(lots).value, k - 1) + lot.qty * lot.effective + lot.fee
      /\ Total(Of(lots).qty, k - 1) \in Int /\ Total(Of(lots).fee, k - 1) \in Int
      /\ Total(Of(lots).value, k - 1) \in Int
  <2>1. k - 1 \in 0..Len(lots)
    OBVIOUS
  <2>2. QED BY <2>1, NextLot, LotTotalsType
<1> HIDE DEF lot
<1>0. /\ state.qty \in Int /\ state.fee \in Int /\ state.sums.qty \in Int /\ state.sums.net \in Int
      /\ state.sums.fees \in Int /\ lot.qty \in Int /\ lot.fee \in Int /\ lot.effective \in Int
      /\ Effective(sell) \in Int /\ Fee(sell) \in Int /\ sell.qty \in Int
  <2>1. \A n \in Nat : n \in Int
    OBVIOUS
  <2>2. lot.qty \in Nat
    BY <1>2
  <2>3. QED BY <1>2, <2>1, <2>2, Zenon
<1>4. /\ matched \in Nat /\ next \in Matchings
      /\ next.qty = state.qty - matched
      /\ entry \in Nat /\ entry <= lot.fee
      /\ matched = lot.qty => entry = lot.fee
      /\ matched = state.qty => next.fee = 0 \/ (state.qty = 0 /\ next.fee = state.fee)
      /\ next.fee <= state.fee
      /\ next.open = IF matched = lot.qty THEN state.open ELSE Append(state.open, Rest(lot, matched))
      /\ matched < lot.qty => Rest(lot, matched) \in LotRecords
      /\ next.sums.qty = state.sums.qty + matched
      /\ next.sums.net = state.sums.net + matched * (Effective(sell) - lot.effective)
                            - (state.fee - next.fee) - entry
      /\ next.sums.fees = state.sums.fees + entry + (state.fee - next.fee)
  BY <1>1, OneLot
<1>5. matched <= lot.qty /\ matched <= state.qty /\ (matched = lot.qty \/ matched = state.qty)
  BY <1>2
<1>6. next.fee \in Nat
  <2> HIDE DEF next
  <2> QED BY <1>4 DEF Matchings
<1> HIDE DEF matched, next, entry
<1>7. /\ Units(state.open) \in Int /\ FeesLeft(state.open) \in Int /\ BookValue(state.open) \in Int
  BY <1>2, LotTotalsAll
\* What stays open of the lot.
<1>8. /\ Units(next.open) = Units(state.open) + (lot.qty - matched)
      /\ FeesLeft(next.open) = FeesLeft(state.open) + (lot.fee - entry)
      /\ BookValue(next.open) = BookValue(state.open) + (lot.qty - matched) * lot.effective + (lot.fee - entry)
  <2>1. CASE matched = lot.qty
    <3>1. next.open = state.open /\ entry = lot.fee
      BY <1>4, <2>1
    <3>2. lot.qty - matched = 0 /\ lot.fee - entry = 0 /\ 0 * lot.effective = 0
      BY <1>0, <2>1, <3>1
    <3>3. QED BY <1>7, <3>1, <3>2
  <2>2. CASE matched # lot.qty
    <3>1. matched < lot.qty
      BY <1>2, <1>4, <1>5, <2>2
    <3>2. Rest(lot, matched) \in LotRecords /\ next.open = Append(state.open, Rest(lot, matched))
      BY <1>4, <2>2, <3>1
    <3>3. /\ Rest(lot, matched).qty = lot.qty - matched
          /\ Rest(lot, matched).fee = lot.fee - entry
          /\ Rest(lot, matched).effective = lot.effective
      BY <1>1 DEF Rest, entry, LotRecords
    <3>4. QED BY <1>2, <3>2, <3>3, AppendLot
  <2>3. QED BY <2>1, <2>2
<1>9. /\ state.qty + state.sums.qty = sell.qty
      /\ Units(state.open) + state.sums.qty = Total(Of(lots).qty, k - 1)
      /\ FeesLeft(state.open) + state.sums.fees + state.fee = Total(Of(lots).fee, k - 1) + Fee(sell)
      /\ state.sums.net = state.sums.qty * Effective(sell) - (Fee(sell) - state.fee)
                                - (Total(Of(lots).value, k - 1) - BookValue(state.open))
      /\ state.qty > 0 => state.open = <<>>
      /\ state.qty = 0 => state.fee = 0
  BY DEF Balanced
<1>10. /\ next.qty + next.sums.qty = sell.qty
       /\ Units(next.open) + next.sums.qty = Total(Of(lots).qty, k)
       /\ FeesLeft(next.open) + next.sums.fees + next.fee = Total(Of(lots).fee, k) + Fee(sell)
  <2>1. /\ next.qty = state.qty - matched /\ next.sums.qty = state.sums.qty + matched
        /\ next.sums.fees = state.sums.fees + entry + (state.fee - next.fee)
        /\ matched \in Nat /\ entry \in Nat
    BY <1>4
  <2>2. /\ Units(next.open) = Units(state.open) + (lot.qty - matched)
        /\ FeesLeft(next.open) = FeesLeft(state.open) + (lot.fee - entry)
    BY <1>8
  <2>3. /\ Total(Of(lots).qty, k) = Total(Of(lots).qty, k - 1) + lot.qty
        /\ Total(Of(lots).fee, k) = Total(Of(lots).fee, k - 1) + lot.fee
        /\ Total(Of(lots).qty, k - 1) \in Int /\ Total(Of(lots).fee, k - 1) \in Int
    BY <1>3
  <2>4. /\ state.qty + state.sums.qty = sell.qty
        /\ Units(state.open) + state.sums.qty = Total(Of(lots).qty, k - 1)
        /\ FeesLeft(state.open) + state.sums.fees + state.fee = Total(Of(lots).fee, k - 1) + Fee(sell)
    BY <1>9
  <2>5. next.qty + next.sums.qty = sell.qty
    BY <1>0, <2>1, <2>4
  <2>6. Units(next.open) + next.sums.qty = Total(Of(lots).qty, k)
    <3>1. /\ Units(next.open) = Units(state.open) + (lot.qty - matched)
          /\ Units(state.open) + state.sums.qty = Total(Of(lots).qty, k - 1)
          /\ next.sums.qty = state.sums.qty + matched
          /\ Total(Of(lots).qty, k) = Total(Of(lots).qty, k - 1) + lot.qty
          /\ Units(state.open) \in Int /\ lot.qty \in Int /\ matched \in Int /\ state.sums.qty \in Int
      BY <1>0, <1>7, <2>1, <2>2, <2>3, <2>4
    <3>2. QED BY <3>1
  <2>7. FeesLeft(next.open) + next.sums.fees + next.fee = Total(Of(lots).fee, k) + Fee(sell)
    <3>1. /\ FeesLeft(state.open) \in Int /\ lot.fee \in Int /\ entry \in Int /\ state.sums.fees \in Int
          /\ state.fee \in Int /\ next.fee \in Int /\ Fee(sell) \in Int /\ Total(Of(lots).fee, k - 1) \in Int
      BY <1>0, <1>6, <1>7, <2>1, <2>3
    <3>2. FeesLeft(state.open) + state.sums.fees + state.fee = Total(Of(lots).fee, k - 1) + Fee(sell)
      BY <2>4
    <3> DEFINE left == FeesLeft(state.open)
               fees == state.sums.fees
               fee == state.fee
               rest == next.fee
               before == Total(Of(lots).fee, k - 1)
               whole == Fee(sell)
               part == lot.fee
    <3>3. (left + (part - entry)) + (fees + entry + (fee - rest)) + rest = (before + part) + whole
      <4>1. /\ left \in Int /\ fees \in Int /\ fee \in Int /\ rest \in Int /\ before \in Int
            /\ whole \in Int /\ part \in Int /\ entry \in Int /\ left + fees + fee = before + whole
        BY <3>1, <3>2
      <4> HIDE DEF left, fees, fee, rest, before, whole, part
      <4>2. QED BY <4>1
    <3>4. QED BY <2>1, <2>2, <2>3, <3>3
  <2>8. QED BY <2>5, <2>6, <2>7
<1>11. next.sums.net = next.sums.qty * Effective(sell) - (Fee(sell) - next.fee)
                                - (Total(Of(lots).value, k) - BookValue(next.open))
  <2> DEFINE E == Effective(sell)
             cost == lot.effective
             had == state.sums.qty * E
             bought == lot.qty * cost
             came == matched * E
             went == matched * cost
  <2>1. /\ had \in Int /\ bought \in Int /\ came \in Int /\ went \in Int
        /\ next.sums.qty * E = had + came
        /\ matched * (E - cost) = came - went
        /\ (lot.qty - matched) * cost = bought - went
    <3>1. /\ matched \in Int /\ next.sums.qty = state.sums.qty + matched
          /\ E \in Int /\ cost \in Int /\ state.sums.qty \in Int /\ lot.qty \in Int
      BY <1>0, <1>4
    <3> HIDE DEF E, cost
    <3>2. had \in Int /\ bought \in Int /\ came \in Int /\ went \in Int
      BY <3>1, Spread
    <3>3. next.sums.qty * E = had + came
      BY <3>1, Spread
    <3>4. matched * (E - cost) = came - went
      BY <3>1, Spread
    <3>5. (lot.qty - matched) * cost = bought - went
      BY <3>1, Spread
    <3>6. QED BY <3>2, <3>3, <3>4, <3>5 DEF E, cost
  <2>2. /\ next.sums.net = state.sums.net + (came - went) - (state.fee - next.fee) - entry
        /\ entry \in Nat
    BY <1>4, <2>1
  <2>3. BookValue(next.open) = BookValue(state.open) + (bought - went) + (lot.fee - entry)
    BY <1>8, <2>1
  <2>4. /\ Total(Of(lots).value, k) = Total(Of(lots).value, k - 1) + bought + lot.fee
        /\ Total(Of(lots).value, k - 1) \in Int
    BY <1>3
  <2>5. state.sums.net = had - (Fee(sell) - state.fee) - (Total(Of(lots).value, k - 1) - BookValue(state.open))
    BY <1>9
  <2>6. next.sums.qty * E = had + came /\ had \in Int /\ bought \in Int /\ came \in Int /\ went \in Int
    BY <2>1
  <2>7. next.sums.net = (had + came) - (Fee(sell) - next.fee)
                            - (Total(Of(lots).value, k) - BookValue(next.open))
    <3> HIDE DEF E, cost, had, bought, came, went
    <3> DEFINE T == Total(Of(lots).value, k - 1)
               B == BookValue(state.open)
               F == Fee(sell)
    <3>1. T \in Int /\ B \in Int /\ F \in Int /\ next.fee \in Int /\ entry \in Int
      BY <1>0, <1>6, <1>7, <2>2, <2>4
    <3>2. /\ next.sums.net = had - (F - state.fee) - (T - B) + (came - went) - (state.fee - next.fee) - entry
          /\ Total(Of(lots).value, k) = T + bought + lot.fee
          /\ BookValue(next.open) = B + (bought - went) + (lot.fee - entry)
      BY <2>2, <2>3, <2>4, <2>5
    <3> HIDE DEF T, B, F
    <3> DEFINE fee == state.fee
               rest == next.fee
               part == lot.fee
    <3>3. next.sums.net = (had + came) - (F - rest) - ((T + bought + part) - (B + (bought - went) + (part - entry)))
      <4>1. /\ fee \in Int /\ rest \in Int /\ part \in Int /\ had \in Int /\ bought \in Int /\ came \in Int
            /\ went \in Int /\ T \in Int /\ B \in Int /\ F \in Int /\ entry \in Int
        BY <1>0, <2>6, <3>1
      <4>2. next.sums.net = had - (F - fee) - (T - B) + (came - went) - (fee - rest) - entry
        BY <3>2
      <4> HIDE DEF fee, rest, part
      <4>3. had - (F - fee) - (T - B) + (came - went) - (fee - rest) - entry
                = (had + came) - (F - rest) - ((T + bought + part) - (B + (bought - went) + (part - entry)))
        BY <4>1
      <4>4. QED BY <4>2, <4>3
    <3>4. QED BY <3>2, <3>3 DEF F
  <2>8. QED
    <3> HIDE DEF had, came
    <3> QED BY <2>6, <2>7
<1>12. /\ next.qty > 0 => next.open = <<>>
       /\ next.qty = 0 => next.fee = 0
  <2>1. next.qty > 0 => next.open = <<>>
    <3>1. SUFFICES ASSUME next.qty > 0 PROVE next.open = <<>>
      OBVIOUS
    <3>2. next.qty = state.qty - matched /\ matched \in Int
      BY <1>4
    <3>3. matched # state.qty /\ state.qty > 0
      <4>1. state.qty \in Nat
        BY <1>2
      <4>2. matched \in Nat
        BY <1>4
      <4>3. state.qty \in Int /\ state.qty >= 0 /\ matched <= state.qty /\ matched >= 0
        BY <1>5, <4>1, <4>2
      <4>4. QED BY <3>1, <3>2, <4>3
    <3>4. matched = lot.qty
      BY <1>5, <3>3
    <3>5. QED BY <1>4, <1>9, <3>3, <3>4
  <2>2. next.qty = 0 => next.fee = 0
    <3>1. next.qty = 0 => matched = state.qty
      <4>1. next.qty = state.qty - matched /\ matched \in Int
        BY <1>4
      <4>2. QED BY <1>0, <4>1
    <3>2. QED BY <1>4, <1>9, <3>1
  <2>3. QED BY <2>1, <2>2
<1>13. QED BY <1>10, <1>11, <1>12 DEF Balanced, next, lot

\* What match_lots comes to.
LEMMA Matched ==
    ASSUME NEW sell \in Orders, NEW lots \in Seq(LotRecords)
    PROVE  LET m == Match(sell, lots)
           IN  /\ m \in Matchings
               /\ m.sums.qty <= sell.qty
               /\ Units(m.open) + m.sums.qty = Units(lots)
               /\ FeesLeft(m.open) + m.sums.fees <= FeesLeft(lots) + Fee(sell)
               /\ Units(lots) >= sell.qty =>
                    /\ m.sums.qty = sell.qty
                    /\ m.sums.net = sell.qty * Effective(sell) - Fee(sell) - (BookValue(lots) - BookValue(m.open))
<1> DEFINE n == Len(lots)
           m == Match(sell, lots)
<1>1. PICK after : MatchRun(after, sell, lots)
  BY MatchRuns
<1>2. /\ after \in [0..n -> Matchings] /\ after[0] = Unmatched(sell)
      /\ \A k \in 1..n : after[k] = MatchLot(after[k - 1], sell, lots[k])
      /\ m = after[n] /\ n \in Nat
  BY <1>1 DEF MatchRun
<1>3. Balanced(m, sell, lots, n)
  <2> DEFINE T == {k \in 0..n : Balanced(after[k], sell, lots, k)}
  <2>1. 0 \in T
    BY <1>2, BalancedAtFirst
  <2>2. ASSUME NEW k \in 1..n, k - 1 \in T PROVE k \in T
    <3>1. after[k - 1] \in Matchings /\ Balanced(after[k - 1], sell, lots, k - 1)
      BY <1>2, <2>2
    <3>2. Balanced(MatchLot(after[k - 1], sell, lots[k]), sell, lots, k)
      BY <3>1, BalancedNext
    <3>3. QED BY <1>2, <3>2
  <2>3. \A k \in 0..n : k \in T
    <3> HIDE DEF T, n
    <3> QED BY <1>2, <2>1, <2>2, Turns
  <2>4. n \in T
    BY <1>2, <2>3
  <2>5. QED BY <1>2, <2>4
<1>4. m \in Matchings
  BY <1>2
<1>5. /\ Total(Of(lots).qty, n) = Units(lots) /\ Total(Of(lots).fee, n) = FeesLeft(lots)
      /\ Total(Of(lots).value, n) = BookValue(lots)
  BY LotTotals
<1> HIDE DEF m, n
<1>6. /\ m.qty \in Nat /\ m.fee \in Nat /\ m.open \in Seq(LotRecords)
      /\ m.sums.qty \in Nat /\ m.sums.net \in Int /\ m.sums.fees \in Nat
      /\ sell.qty \in Nat /\ Fee(sell) \in Nat
      /\ Units(lots) \in Int /\ FeesLeft(lots) \in Int /\ BookValue(lots) \in Int
  BY <1>4, OrderCosts, LotTotalsAll DEF Matchings, SumRecords
<1>7. Units(m.open) \in Int /\ FeesLeft(m.open) \in Int /\ BookValue(m.open) \in Int
  BY <1>6, LotTotalsAll
<1>8. /\ m.qty + m.sums.qty = sell.qty
      /\ Units(m.open) + m.sums.qty = Units(lots)
      /\ FeesLeft(m.open) + m.sums.fees + m.fee = FeesLeft(lots) + Fee(sell)
      /\ m.sums.net = m.sums.qty * Effective(sell) - (Fee(sell) - m.fee) - (BookValue(lots) - BookValue(m.open))
      /\ m.qty > 0 => m.open = <<>>
      /\ m.qty = 0 => m.fee = 0
  BY <1>3, <1>5 DEF Balanced
<1>9. /\ m.sums.qty <= sell.qty
      /\ FeesLeft(m.open) + m.sums.fees <= FeesLeft(lots) + Fee(sell)
  <2>1. /\ m.qty + m.sums.qty = sell.qty
        /\ FeesLeft(m.open) + m.sums.fees + m.fee = FeesLeft(lots) + Fee(sell)
    BY <1>8
  <2>2. /\ m.qty \in Nat /\ m.fee \in Nat /\ m.sums.qty \in Nat /\ m.sums.fees \in Nat
        /\ FeesLeft(lots) \in Int /\ Fee(sell) \in Nat /\ sell.qty \in Nat
    BY <1>6
  <2>3. m.sums.qty <= sell.qty
    BY <2>1, <2>2
  <2>4. FeesLeft(m.open) + m.sums.fees <= FeesLeft(lots) + Fee(sell)
    BY <1>7, <2>1, <2>2
  <2>5. QED BY <2>3, <2>4
<1>10. ASSUME Units(lots) >= sell.qty
       PROVE  /\ m.sums.qty = sell.qty
              /\ m.sums.net = sell.qty * Effective(sell) - Fee(sell) - (BookValue(lots) - BookValue(m.open))
  <2>1. m.qty = 0
    <3>1. m.qty > 0 => Units(m.open) = 0
      BY <1>8, NoLots
    <3>2. m.qty + m.sums.qty = sell.qty /\ Units(m.open) + m.sums.qty = Units(lots)
      BY <1>8
    <3>3. QED BY <1>6, <1>7, <1>10, <3>1, <3>2
  <2>2. m.sums.qty = sell.qty /\ m.fee = 0
    BY <1>6, <1>8, <2>1
  <2>3. Fee(sell) - m.fee = Fee(sell)
    BY <1>6, <2>2
  <2>4. QED BY <1>8, <2>2, <2>3
<1>11. QED BY <1>4, <1>8, <1>9, <1>10 DEF m

LEMMA MatchRunsNext ==
    \A sell \in Orders, lots \in Seq(LotRecords) : (\E after : MatchRun(after, sell, lots))'
<1>1. \A sell \in Orders, lots \in Seq(LotRecords) : \E after : MatchRun(after, sell, lots)
  BY MatchRuns
<1>2. (\A sell \in Orders, lots \in Seq(LotRecords) : \E after : MatchRun(after, sell, lots))'
  BY <1>1, PTL
<1>3. QED BY <1>2

\* The charges do not change, so neither does what a sell comes to.
LEMMA MatchStable ==
    ASSUME costs' = costs, NEW sell \in Orders, NEW lots \in Seq(LotRecords)
    PROVE  Match(sell, lots)' = Match(sell, lots)
<1> DEFINE n == Len(lots)
<1>1. PICK f : MatchRun(f, sell, lots)
  BY MatchRuns
<1>2. PICK g : MatchRun(g, sell, lots)'
  BY MatchRunsNext
<1>3. /\ n \in Nat /\ f \in [0..n -> Matchings] /\ f[0] = Unmatched(sell)
      /\ \A k \in 1..n : f[k] = MatchLot(f[k - 1], sell, lots[k])
      /\ Match(sell, lots) = f[n]
  BY <1>1 DEF MatchRun
<1>4. /\ g \in [0..n -> Matchings] /\ g[0] = Unmatched(sell)'
      /\ \A k \in 1..n : g[k] = MatchLot(g[k - 1], sell, lots[k])'
      /\ Match(sell, lots)' = g[n]
  BY <1>2 DEF MatchRun
<1>5. Unmatched(sell)' = Unmatched(sell)
  BY DEF Unmatched, Fee
<1>6. ASSUME NEW state, NEW lot PROVE MatchLot(state, sell, lot)' = MatchLot(state, sell, lot)
  BY DEF MatchLot, ExitFee, EntryFee, Effective, Slippage
<1> DEFINE T == {k \in 0..n : g[k] = f[k]}
<1> HIDE DEF n
<1>7. 0 \in T
  BY <1>3, <1>4, <1>5
<1>8. ASSUME NEW k \in 1..n, k - 1 \in T PROVE k \in T
  <2>1. g[k] = MatchLot(g[k - 1], sell, lots[k])'
    BY <1>4
  <2>2. MatchLot(g[k - 1], sell, lots[k])' = MatchLot(g[k - 1], sell, lots[k])
    BY <1>6
  <2>3. g[k - 1] = f[k - 1] /\ f[k] = MatchLot(f[k - 1], sell, lots[k]) /\ k \in 0..n
    BY <1>3, <1>8
  <2>4. QED BY <2>1, <2>2, <2>3
<1>9. n \in T
  <2> HIDE DEF T
  <2>1. \A k \in 0..n : k \in T
    BY <1>3, <1>7, <1>8, Turns
  <2>2. QED BY <1>3, <2>1
<1>10. QED BY <1>3, <1>4, <1>9

LEMMA ProcessedStable ==
    ASSUME costs' = costs, NEW order \in Orders, NEW lots \in Seq(LotRecords), NEW at
    PROVE  Processed(lots, order, at)' = Processed(lots, order, at)
<1>1. Match(order, lots)' = Match(order, lots)
  BY MatchStable
<1>2. Lot(order, at)' = Lot(order, at)
  BY DEF Lot, Effective, Slippage, Fee
<1>3. QED BY <1>1, <1>2 DEF Processed, Executed

LEMMA ProcessedType ==
    ASSUME NEW order \in Orders, NEW lots \in Seq(LotRecords), NEW at \in Nat
    PROVE  Processed(lots, order, at) \in Seq(LotRecords)
<1>1. Match(order, lots).open \in Seq(LotRecords)
  BY Matched DEF Matchings
<1>2. Append(lots, Lot(order, at)) \in Seq(LotRecords)
  BY LotIsRecord
<1>3. QED BY <1>1, <1>2 DEF Processed

\* The lots that are open after each of the first n orders.
OpenRun(run, n) ==
    /\ run \in [0..n -> Seq(LotRecords)]
    /\ run[0] = <<>>
    /\ \A k \in 1..n : run[k] = Processed(run[k - 1], filled[k], k)
    /\ OpenLots(n) = run[n]

LEMMA OpenRuns ==
    ASSUME filled \in Seq(Orders), NEW n \in 0..Len(filled)
    PROVE  \E run : OpenRun(run, n)
<1> DEFINE Turn(f, k) == IF k = 0 THEN <<>> ELSE Processed(f[k - 1], filled[k], k)
           IsLoop(f) == f = [k \in 0..n |-> Turn(f, k)]
           run == CHOOSE f : IsLoop(f)
           S == Seq(LotRecords)
           turn == [k \in 1..n |-> [x \in S |-> Processed(x, filled[k], k)]]
<1>0. n \in Nat /\ \A k \in 1..n : filled[k] \in Orders /\ k \in Nat
  OBVIOUS
<1>1. OpenLots(n) = run[n]
  BY DEF OpenLots
<1>2. <<>> \in S
  BY NoLots
<1>3. ASSUME NEW k \in 1..n, NEW x \in S PROVE Processed(x, filled[k], k) \in S
  <2>1. filled[k] \in Orders /\ k \in Nat
    BY <1>0
  <2>2. QED BY <2>1, ProcessedType
<1> HIDE DEF S
<1>4. turn \in [1..n -> [S -> S]]
  BY <1>3
<1>5. PICK f : RunOf(f, n, S, <<>>, turn)
  <2> HIDE DEF turn
  <2> QED BY <1>0, <1>2, <1>4, LoopRuns
<1>6. f \in [0..n -> S] /\ f[0] = <<>> /\ \A k \in 1..n : f[k] = turn[k][f[k - 1]]
  <2> HIDE DEF turn
  <2> QED BY <1>5 DEF RunOf
<1>7. ASSUME NEW k \in 0..n PROVE f[k] = Turn(f, k)
  <2>1. CASE k = 0
    BY <1>6, <2>1
  <2>2. CASE k # 0
    <3>1. k \in 1..n /\ k - 1 \in 0..n
      BY <1>0, <2>2
    <3>2. turn[k][f[k - 1]] = Processed(f[k - 1], filled[k], k)
      BY <1>6, <3>1
    <3>3. QED
      <4> HIDE DEF turn
      <4> QED BY <1>6, <2>2, <3>1, <3>2
  <2>3. QED BY <2>1, <2>2
<1>8. IsLoop(f)
  <2> HIDE DEF Turn
  <2> QED BY <1>6, <1>7
<1>9. IsLoop(run)
  <2> HIDE DEF IsLoop
  <2> QED BY <1>8, Zenon
<1>10. \A k \in 0..n : run[k] = Turn(run, k)
  <2> HIDE DEF run, Turn
  <2> QED BY <1>9
<1>11. \A k \in 0..n : run[k] \in S
  <2> DEFINE T == {k \in 0..n : run[k] \in S}
  <2>1. 0 \in T
    <3> HIDE DEF run
    <3> QED BY <1>0, <1>2, <1>10
  <2>2. ASSUME NEW k \in 1..n, k - 1 \in T PROVE k \in T
    <3> HIDE DEF run
    <3>1. run[k] = Processed(run[k - 1], filled[k], k) /\ k \in 0..n
      BY <1>0, <1>10
    <3>2. QED BY <1>3, <2>2, <3>1
  <2>3. \A k \in 0..n : k \in T
    <3> HIDE DEF T
    <3> QED BY <1>0, <2>1, <2>2, Turns
  <2>4. QED BY <2>3
<1>12. run \in [0..n -> S]
  <2> HIDE DEF run, Turn
  <2> QED BY <1>9, <1>11
<1>13. OpenRun(run, n)
  <2> HIDE DEF run, IsLoop
  <2>1. run[0] = <<>> /\ \A k \in 1..n : run[k] = Processed(run[k - 1], filled[k], k)
    BY <1>0, <1>10
  <2>2. QED BY <1>1, <1>12, <2>1 DEF OpenRun, S
<1>14. QED BY <1>13

LEMMA OpenRunsNext ==
    filled' \in Seq(Orders) => \A n \in (0..Len(filled))' : (\E run : OpenRun(run, n))'
<1>1. filled \in Seq(Orders) => \A n \in 0..Len(filled) : \E run : OpenRun(run, n)
  BY OpenRuns
<1>2. (filled \in Seq(Orders) => \A n \in 0..Len(filled) : \E run : OpenRun(run, n))'
  BY <1>1, PTL
<1>3. QED BY <1>2

\* Orders that are filled later leave the lots alone that were open before.
LEMMA OpenStable ==
    ASSUME costs' = costs, filled \in Seq(Orders), filled' \in Seq(Orders), Len(filled) <= Len(filled'),
           \A k \in 1..Len(filled) : filled'[k] = filled[k], NEW n \in 0..Len(filled)
    PROVE  OpenLots(n)' = OpenLots(n)
<1>1. n \in 0..Len(filled') /\ n \in Nat
  OBVIOUS
<1>2. PICK f : OpenRun(f, n)
  BY OpenRuns
<1>3. PICK g : OpenRun(g, n)'
  BY <1>1, OpenRunsNext
<1>4. /\ f \in [0..n -> Seq(LotRecords)] /\ f[0] = <<>> /\ OpenLots(n) = f[n]
      /\ \A k \in 1..n : f[k] = Processed(f[k - 1], filled[k], k)
  BY <1>2 DEF OpenRun
<1>5. /\ g[0] = <<>> /\ OpenLots(n)' = g[n]
      /\ \A k \in 1..n : g[k] = Processed(g[k - 1], filled[k], k)'
  BY <1>3 DEF OpenRun
<1> DEFINE T == {k \in 0..n : g[k] = f[k]}
<1>6. 0 \in T
  BY <1>1, <1>4, <1>5
<1>7. ASSUME NEW k \in 1..n, k - 1 \in T PROVE k \in T
  <2>1. g[k] = Processed(g[k - 1], filled[k], k)'
    BY <1>5
  <2>2. PICK order \in Orders : order = filled[k]
    BY <1>1
  <2>3. filled'[k] = order
    BY <1>1, <2>2
  <2>4. PICK before \in Seq(LotRecords) : before = f[k - 1]
    BY <1>1, <1>4, <1>7
  <2>5. g[k - 1] = before /\ f[k] = Processed(before, order, k) /\ k \in 0..n
    BY <1>1, <1>4, <1>7, <2>2, <2>4
  <2>6. Processed(before, order, k)' = Processed(before, order, k)
    BY ProcessedStable
  <2>7. g[k] = Processed(before, order, k)'
    BY <2>1, <2>3, <2>5
  <2>8. QED BY <2>5, <2>6, <2>7
<1>8. n \in T
  <2> HIDE DEF T
  <2>1. \A k \in 0..n : k \in T
    BY <1>1, <1>6, <1>7, Turns
  <2>2. QED BY <1>1, <2>1
<1>9. QED BY <1>4, <1>5, <1>8

LEMMA OpenNext ==
    ASSUME filled \in Seq(Orders), NEW n \in 0..Len(filled)
    PROVE  /\ OpenLots(n) \in Seq(LotRecords)
           /\ n = 0 => OpenLots(n) = <<>>
           /\ n > 0 => OpenLots(n) = Processed(OpenLots(n - 1), filled[n], n)
<1>1. n \in Nat
  OBVIOUS
<1>2. PICK f : OpenRun(f, n)
  BY OpenRuns
<1>3. /\ f \in [0..n -> Seq(LotRecords)] /\ f[0] = <<>> /\ OpenLots(n) = f[n]
      /\ \A k \in 1..n : f[k] = Processed(f[k - 1], filled[k], k)
  BY <1>2 DEF OpenRun
<1>4. ASSUME n > 0 PROVE OpenLots(n) = Processed(OpenLots(n - 1), filled[n], n)
  <2>1. n - 1 \in 0..Len(filled) /\ n - 1 \in Nat /\ n \in 1..n
    BY <1>1, <1>4
  <2> DEFINE m == n - 1
  <2>2. PICK g : OpenRun(g, m)
    BY <2>1, OpenRuns
  <2>3. /\ g[0] = <<>> /\ OpenLots(m) = g[m]
        /\ \A k \in 1..m : g[k] = Processed(g[k - 1], filled[k], k)
    BY <2>2 DEF OpenRun
  <2> DEFINE T == {k \in 0..m : g[k] = f[k]}
  <2>4. 0 \in T
    BY <1>3, <2>1, <2>3
  <2>5. ASSUME NEW k \in 1..m, k - 1 \in T PROVE k \in T
    <3>1. k \in 1..n /\ k \in 0..m
      BY <1>1
    <3>2. g[k] = Processed(g[k - 1], filled[k], k) /\ f[k] = Processed(f[k - 1], filled[k], k)
      BY <1>3, <2>3, <3>1
    <3>3. QED BY <2>5, <3>1, <3>2
  <2>6. m \in T
    <3> HIDE DEF T
    <3>1. m \in Nat
      BY <2>1
    <3> HIDE DEF m
    <3>2. \A k \in 0..m : k \in T
      BY <3>1, <2>4, <2>5, Turns
    <3>3. QED BY <3>1, <3>2
  <2>7. QED BY <1>3, <2>1, <2>3, <2>6
<1>5. QED BY <1>1, <1>3, <1>4

\* What one order does to the books.
BoughtBy(order) == IF Executed(order) /\ order.side = "buy" THEN order.qty ELSE 0
SoldBy(order) == IF Executed(order) /\ order.side = "sell" THEN order.qty ELSE 0
CostOf(order) == IF Executed(order) THEN Fee(order) ELSE 0
MoneyOf(order) ==
    IF ~Executed(order) THEN 0
    ELSE IF order.side = "buy" THEN -(order.qty * Effective(order)) - Fee(order)
    ELSE order.qty * Effective(order) - Fee(order)
RealizedBy(order, lots) ==
    IF Executed(order) /\ order.side = "sell" THEN Match(order, lots).sums ELSE Sums

LEMMA OrderNumbers ==
    ASSUME NEW order \in Orders
    PROVE  /\ BoughtBy(order) \in Nat /\ SoldBy(order) \in Nat /\ CostOf(order) \in Nat
           /\ MoneyOf(order) \in Int
<1>1. order.qty \in Nat /\ Effective(order) \in Int /\ Fee(order) \in Nat
  BY OrderCosts
<1>2. order.qty * Effective(order) \in Int
  BY <1>1
<1>3. MoneyOf(order) \in Int
  <2> DEFINE moved == order.qty * Effective(order)
  <2>1. moved \in Int
    BY <1>2
  <2> HIDE DEF moved
  <2>2. -moved - Fee(order) \in Int /\ moved - Fee(order) \in Int
    BY <1>1, <2>1
  <2>3. QED BY <2>2 DEF MoneyOf, moved
<1>4. QED BY <1>1, <1>3 DEF BoughtBy, SoldBy, CostOf

\* One order more: what it realizes and what it leaves open come from what was
\* open before and from the order itself.
LEMMA OneOrder ==
    ASSUME NEW order \in Orders, NEW lots \in Seq(LotRecords), NEW at \in Nat
    PROVE  LET next == Processed(lots, order, at)
               done == RealizedBy(order, lots)
           IN  /\ done \in SumRecords
               /\ Units(next) + done.qty = Units(lots) + BoughtBy(order)
               /\ FeesLeft(next) + done.fees <= FeesLeft(lots) + CostOf(order)
               /\ SoldBy(order) <= Units(lots) =>
                    /\ done.qty = SoldBy(order)
                    /\ done.net = MoneyOf(order) + BookValue(next) - BookValue(lots)
<1> DEFINE next == Processed(lots, order, at)
           done == RealizedBy(order, lots)
<1>1. /\ order.qty \in Nat /\ Effective(order) \in Int /\ Fee(order) \in Nat
      /\ order.side \in {"buy", "sell"}
  BY OrderCosts DEF Orders
<1>2. Units(lots) \in Int /\ FeesLeft(lots) \in Int /\ BookValue(lots) \in Int
  BY LotTotalsAll
<1>3. Sums \in SumRecords /\ Sums.qty = 0 /\ Sums.fees = 0 /\ Sums.net = 0
  BY DEF Sums, SumRecords
<1>4. CASE ~Executed(order)
  <2>1. next = lots /\ done = Sums
    BY <1>4 DEF Processed, RealizedBy
  <2>2. BoughtBy(order) = 0 /\ SoldBy(order) = 0 /\ CostOf(order) = 0 /\ MoneyOf(order) = 0
    BY <1>4 DEF BoughtBy, SoldBy, CostOf, MoneyOf
  <2> HIDE DEF next, done
  <2>3. QED BY <1>2, <1>3, <2>1, <2>2 DEF next, done
<1>5. CASE Executed(order) /\ order.side = "buy"
  <2> DEFINE lot == Lot(order, at)
             moved == order.qty * Effective(order)
  <2>1. next = Append(lots, lot) /\ done = Sums
    BY <1>5 DEF Processed, RealizedBy
  <2>2. /\ BoughtBy(order) = order.qty /\ SoldBy(order) = 0 /\ CostOf(order) = Fee(order)
        /\ MoneyOf(order) = -moved - Fee(order)
    BY <1>5 DEF BoughtBy, SoldBy, CostOf, MoneyOf
  <2>3. lot \in LotRecords /\ lot.qty = order.qty /\ lot.effective = Effective(order) /\ lot.fee = Fee(order)
    BY LotIsRecord DEF Lot
  <2> HIDE DEF next, done, lot
  <2>4. /\ Units(next) = Units(lots) + order.qty
        /\ FeesLeft(next) = FeesLeft(lots) + Fee(order)
        /\ BookValue(next) = BookValue(lots) + moved + Fee(order)
    BY <2>1, <2>3, AppendLot
  <2>5. moved \in Int
    BY <1>1
  <2> HIDE DEF moved
  <2>6. done.qty = 0 /\ done.fees = 0 /\ done.net = 0 /\ done \in SumRecords
    BY <1>3, <2>1
  <2>7. /\ Units(next) + done.qty = Units(lots) + BoughtBy(order)
        /\ FeesLeft(next) + done.fees <= FeesLeft(lots) + CostOf(order)
    BY <1>1, <1>2, <2>2, <2>4, <2>6
  <2>8. done.net = MoneyOf(order) + BookValue(next) - BookValue(lots)
    BY <1>1, <1>2, <2>2, <2>4, <2>5, <2>6
  <2>9. QED BY <2>2, <2>6, <2>7, <2>8 DEF next, done
<1>6. CASE Executed(order) /\ order.side = "sell"
  <2> DEFINE m == Match(order, lots)
             moved == order.qty * Effective(order)
  <2>1. next = m.open /\ done = m.sums
    BY <1>6 DEF Processed, RealizedBy
  <2>2. /\ BoughtBy(order) = 0 /\ SoldBy(order) = order.qty /\ CostOf(order) = Fee(order)
        /\ MoneyOf(order) = moved - Fee(order)
    BY <1>6 DEF BoughtBy, SoldBy, CostOf, MoneyOf
  <2>3. /\ m \in Matchings
        /\ Units(m.open) + m.sums.qty = Units(lots)
        /\ FeesLeft(m.open) + m.sums.fees <= FeesLeft(lots) + Fee(order)
        /\ Units(lots) >= order.qty =>
                /\ m.sums.qty = order.qty
                /\ m.sums.net = moved - Fee(order) - (BookValue(lots) - BookValue(m.open))
    BY Matched
  <2> HIDE DEF m, next, done
  <2>4. next \in Seq(LotRecords) /\ done \in SumRecords
    BY <2>1, <2>3 DEF Matchings
  <2>5. Units(next) \in Int /\ FeesLeft(next) \in Int /\ BookValue(next) \in Int
    BY <2>4, LotTotalsAll
  <2>6. done.qty \in Int /\ done.fees \in Int /\ done.net \in Int
    BY <2>4 DEF SumRecords
  <2>7. moved \in Int
    BY <1>1
  <2> HIDE DEF moved
  <2>8. /\ Units(next) + done.qty = Units(lots) + BoughtBy(order)
        /\ FeesLeft(next) + done.fees <= FeesLeft(lots) + CostOf(order)
    BY <1>1, <1>2, <2>1, <2>2, <2>3, <2>5, <2>6
  <2>9. ASSUME SoldBy(order) <= Units(lots)
        PROVE  /\ done.qty = SoldBy(order)
               /\ done.net = MoneyOf(order) + BookValue(next) - BookValue(lots)
    <3>1. Units(lots) >= order.qty
      BY <1>1, <1>2, <2>2, <2>9
    <3>2. done.qty = order.qty /\ done.net = moved - Fee(order) - (BookValue(lots) - BookValue(next))
      BY <2>1, <2>3, <3>1
    <3>3. moved - Fee(order) - (BookValue(lots) - BookValue(next)) = MoneyOf(order) + BookValue(next) - BookValue(lots)
      <4>1. MoneyOf(order) = moved - Fee(order) /\ Fee(order) \in Int
        BY <1>1, <2>2
      <4>2. QED BY <1>2, <2>5, <2>7, <4>1
    <3>4. QED BY <2>2, <3>2, <3>3
  <2>10. QED BY <2>4, <2>8, <2>9 DEF next, done
<1>7. QED BY <1>1, <1>4, <1>5, <1>6

(***************************************************************************)
(* The table of orders                                                     *)
(***************************************************************************)

Moved(n) == Total([at \in 1..n |-> Money(at)], n)
Spent(n) == Total([at \in 1..n |-> Costs(at)], n)

LEMMA TableNumbers ==
    ASSUME filled \in Seq(Orders), NEW at \in 1..Len(filled)
    PROVE  /\ filled[at] \in Orders
           /\ (IF at \in Executions("buy") THEN filled[at].qty ELSE 0) = BoughtBy(filled[at])
           /\ (IF at \in Executions("sell") THEN filled[at].qty ELSE 0) = SoldBy(filled[at])
           /\ Money(at) = MoneyOf(filled[at]) /\ Costs(at) = CostOf(filled[at])
<1>1. filled[at] \in Orders /\ at \in DOMAIN filled
  OBVIOUS
<1>2. filled[at].side \in {"buy", "sell"}
  BY <1>1 DEF Orders
<1>3. \A side \in {"buy", "sell"} : at \in Executions(side) <=> Executed(filled[at]) /\ filled[at].side = side
  BY <1>1 DEF Executions
<1>4. QED BY <1>1, <1>2, <1>3 DEF BoughtBy, SoldBy, Money, MoneyOf, Costs, CostOf

\* Sums over the first n orders.
LEMMA TableSums ==
    ASSUME filled \in Seq(Orders), NEW n \in 0..Len(filled)
    PROVE  /\ Bought(n) \in Int /\ Sold(n) \in Int /\ Moved(n) \in Int /\ Spent(n) \in Int
           /\ n = 0 => Bought(n) = 0 /\ Sold(n) = 0 /\ Moved(n) = 0 /\ Spent(n) = 0
           /\ n > 0 => /\ Bought(n) = Bought(n - 1) + BoughtBy(filled[n])
                       /\ Sold(n) = Sold(n - 1) + SoldBy(filled[n])
                       /\ Moved(n) = Moved(n - 1) + MoneyOf(filled[n])
                       /\ Spent(n) = Spent(n - 1) + CostOf(filled[n])
<1> DEFINE b(k) == [at \in 1..k |-> IF at \in Executions("buy") THEN filled[at].qty ELSE 0]
           s(k) == [at \in 1..k |-> IF at \in Executions("sell") THEN filled[at].qty ELSE 0]
           m(k) == [at \in 1..k |-> Money(at)]
           c(k) == [at \in 1..k |-> Costs(at)]
<1>1. \A k : Bought(k) = Total(b(k), k) /\ Sold(k) = Total(s(k), k) /\ Moved(k) = Total(m(k), k) /\ Spent(k) = Total(c(k), k)
  BY DEF Bought, Sold, Turnover, Moved, Spent
<1>2. ASSUME NEW k \in 0..Len(filled), NEW i \in 1..k
      PROVE  /\ b(k)[i] = BoughtBy(filled[i]) /\ s(k)[i] = SoldBy(filled[i])
             /\ m(k)[i] = MoneyOf(filled[i]) /\ c(k)[i] = CostOf(filled[i])
             /\ b(k)[i] \in Int /\ s(k)[i] \in Int /\ m(k)[i] \in Int /\ c(k)[i] \in Int
  <2>1. i \in 1..Len(filled)
    OBVIOUS
  <2>2. /\ BoughtBy(filled[i]) \in Int /\ SoldBy(filled[i]) \in Int
        /\ MoneyOf(filled[i]) \in Int /\ CostOf(filled[i]) \in Int
    <3>1. PICK order \in Orders : order = filled[i]
      BY <2>1, TableNumbers
    <3>2. /\ BoughtBy(order) \in Nat /\ SoldBy(order) \in Nat /\ CostOf(order) \in Nat
          /\ MoneyOf(order) \in Int
      BY OrderNumbers
    <3>3. QED BY <3>1, <3>2
  <2>3. QED BY <2>1, <2>2, TableNumbers
<1>3. n \in Nat
  OBVIOUS
<1> HIDE DEF b, s, m, c
<1>4. Bought(n) \in Int /\ Sold(n) \in Int /\ Moved(n) \in Int /\ Spent(n) \in Int
  BY <1>1, <1>2, <1>3, TotalType
<1>5. n = 0 => Bought(n) = 0 /\ Sold(n) = 0 /\ Moved(n) = 0 /\ Spent(n) = 0
  BY <1>1, TotalNone
<1>6. ASSUME n > 0
      PROVE  /\ Bought(n) = Bought(n - 1) + BoughtBy(filled[n])
             /\ Sold(n) = Sold(n - 1) + SoldBy(filled[n])
             /\ Moved(n) = Moved(n - 1) + MoneyOf(filled[n])
             /\ Spent(n) = Spent(n - 1) + CostOf(filled[n])
  <2>1. PICK k \in 0..Len(filled) : k = n - 1
    BY <1>3, <1>6
  <2>2. k \in Nat /\ k + 1 = n /\ k + 1 \in 1..n
    BY <1>3, <2>1
  <2>3. \A i \in 1..k : i \in 1..n
    BY <2>2
  <2>4. /\ \A i \in 1..k : b(k)[i] \in Int /\ b(n)[i] = b(k)[i]
        /\ \A i \in 1..k : s(k)[i] \in Int /\ s(n)[i] = s(k)[i]
        /\ \A i \in 1..k : m(k)[i] \in Int /\ m(n)[i] = m(k)[i]
        /\ \A i \in 1..k : c(k)[i] \in Int /\ c(n)[i] = c(k)[i]
    BY <1>2, <2>3
  <2>5. /\ b(n)[k + 1] \in Int /\ s(n)[k + 1] \in Int /\ m(n)[k + 1] \in Int /\ c(n)[k + 1] \in Int
        /\ b(n)[k + 1] = BoughtBy(filled[n]) /\ s(n)[k + 1] = SoldBy(filled[n])
        /\ m(n)[k + 1] = MoneyOf(filled[n]) /\ c(n)[k + 1] = CostOf(filled[n])
    BY <1>2, <2>2
  <2>6. /\ Total(b(n), k + 1) = Total(b(k), k) + b(n)[k + 1]
        /\ Total(s(n), k + 1) = Total(s(k), k) + s(n)[k + 1]
        /\ Total(m(n), k + 1) = Total(m(k), k) + m(n)[k + 1]
        /\ Total(c(n), k + 1) = Total(c(k), k) + c(n)[k + 1]
    <3>1. Total(b(n), k + 1) = Total(b(k), k) + b(n)[k + 1]
      BY <2>2, <2>4, <2>5, TotalMore
    <3>2. Total(s(n), k + 1) = Total(s(k), k) + s(n)[k + 1]
      BY <2>2, <2>4, <2>5, TotalMore
    <3>3. Total(m(n), k + 1) = Total(m(k), k) + m(n)[k + 1]
      BY <2>2, <2>4, <2>5, TotalMore
    <3>4. Total(c(n), k + 1) = Total(c(k), k) + c(n)[k + 1]
      BY <2>2, <2>4, <2>5, TotalMore
    <3>5. QED BY <3>1, <3>2, <3>3, <3>4
  <2>7. QED BY <1>1, <2>1, <2>2, <2>5, <2>6
<1>7. QED BY <1>4, <1>5, <1>6

\* The table only grows, and the charges stay.
Grown ==
    /\ costs' = costs
    /\ filled \in Seq(Orders) /\ filled' \in Seq(Orders)
    /\ Len(filled) <= Len(filled')
    /\ \A k \in 1..Len(filled) : filled'[k] = filled[k]

LEMMA ChargesStable ==
    ASSUME costs' = costs, NEW order
    PROVE  /\ Executed(order)' = Executed(order)
           /\ BoughtBy(order)' = BoughtBy(order) /\ SoldBy(order)' = SoldBy(order)
           /\ MoneyOf(order)' = MoneyOf(order) /\ CostOf(order)' = CostOf(order)
BY DEF Executed, BoughtBy, SoldBy, MoneyOf, CostOf, Fee, Effective, Slippage

LEMMA RealizedStable ==
    ASSUME costs' = costs, NEW order \in Orders, NEW lots \in Seq(LotRecords)
    PROVE  RealizedBy(order, lots)' = RealizedBy(order, lots)
BY MatchStable DEF RealizedBy, Executed, Sums

LEMMA TableSumsNext ==
    filled' \in Seq(Orders) => \A n \in (0..Len(filled))' :
           /\ Bought(n)' \in Int /\ Sold(n)' \in Int /\ Moved(n)' \in Int /\ Spent(n)' \in Int
           /\ n = 0 => Bought(n)' = 0 /\ Sold(n)' = 0 /\ Moved(n)' = 0 /\ Spent(n)' = 0
           /\ n > 0 => /\ Bought(n)' = Bought(n - 1)' + BoughtBy(filled[n])'
                       /\ Sold(n)' = Sold(n - 1)' + SoldBy(filled[n])'
                       /\ Moved(n)' = Moved(n - 1)' + MoneyOf(filled[n])'
                       /\ Spent(n)' = Spent(n - 1)' + CostOf(filled[n])'
<1>1. filled \in Seq(Orders) => \A n \in 0..Len(filled) :
           /\ Bought(n) \in Int /\ Sold(n) \in Int /\ Moved(n) \in Int /\ Spent(n) \in Int
           /\ n = 0 => Bought(n) = 0 /\ Sold(n) = 0 /\ Moved(n) = 0 /\ Spent(n) = 0
           /\ n > 0 => /\ Bought(n) = Bought(n - 1) + BoughtBy(filled[n])
                       /\ Sold(n) = Sold(n - 1) + SoldBy(filled[n])
                       /\ Moved(n) = Moved(n - 1) + MoneyOf(filled[n])
                       /\ Spent(n) = Spent(n - 1) + CostOf(filled[n])
  BY TableSums
<1>2. (filled \in Seq(Orders) => \A n \in 0..Len(filled) :
           /\ Bought(n) \in Int /\ Sold(n) \in Int /\ Moved(n) \in Int /\ Spent(n) \in Int
           /\ n = 0 => Bought(n) = 0 /\ Sold(n) = 0 /\ Moved(n) = 0 /\ Spent(n) = 0
           /\ n > 0 => /\ Bought(n) = Bought(n - 1) + BoughtBy(filled[n])
                       /\ Sold(n) = Sold(n - 1) + SoldBy(filled[n])
                       /\ Moved(n) = Moved(n - 1) + MoneyOf(filled[n])
                       /\ Spent(n) = Spent(n - 1) + CostOf(filled[n]))'
  BY <1>1, PTL
<1>3. QED BY <1>2

LEMMA SumsStable ==
    ASSUME Grown, NEW n \in 0..Len(filled)
    PROVE  Bought(n)' = Bought(n) /\ Sold(n)' = Sold(n) /\ Moved(n)' = Moved(n) /\ Spent(n)' = Spent(n)
<1> DEFINE T == {k \in 0..n : /\ Bought(k)' = Bought(k) /\ Sold(k)' = Sold(k)
                              /\ Moved(k)' = Moved(k) /\ Spent(k)' = Spent(k)}
<1>1. n \in Nat /\ \A k \in 0..n : k \in 0..Len(filled) /\ k \in 0..Len(filled')
  BY DEF Grown
<1>2. 0 \in T
  BY <1>1, TableSums, TableSumsNext DEF Grown
<1>3. ASSUME NEW k \in 1..n, k - 1 \in T PROVE k \in T
  <2>1. k \in 0..n /\ k > 0 /\ k \in 1..Len(filled) /\ k \in 0..Len(filled) /\ k \in 0..Len(filled')
    BY <1>1
  <2>2. PICK order \in Orders : order = filled[k]
    BY <2>1 DEF Grown
  <2>3. filled'[k] = order
    BY <2>1, <2>2 DEF Grown
  <2>4. /\ Bought(k) = Bought(k - 1) + BoughtBy(order) /\ Sold(k) = Sold(k - 1) + SoldBy(order)
        /\ Moved(k) = Moved(k - 1) + MoneyOf(order) /\ Spent(k) = Spent(k - 1) + CostOf(order)
    BY <2>1, <2>2, TableSums DEF Grown
  <2>5. /\ Bought(k)' = Bought(k - 1)' + BoughtBy(order)' /\ Sold(k)' = Sold(k - 1)' + SoldBy(order)'
        /\ Moved(k)' = Moved(k - 1)' + MoneyOf(order)' /\ Spent(k)' = Spent(k - 1)' + CostOf(order)'
    BY <2>1, <2>3, TableSumsNext DEF Grown
  <2>6. /\ BoughtBy(order)' = BoughtBy(order) /\ SoldBy(order)' = SoldBy(order)
        /\ MoneyOf(order)' = MoneyOf(order) /\ CostOf(order)' = CostOf(order)
    BY ChargesStable DEF Grown
  <2>7. QED BY <1>3, <2>1, <2>4, <2>5, <2>6
<1>4. n \in T
  <2> HIDE DEF T
  <2>1. \A k \in 0..n : k \in T
    BY <1>1, <1>2, <1>3, Turns
  <2>2. QED BY <1>1, <2>1
<1>5. QED BY <1>4

(***************************************************************************)
(* The Trade rows                                                          *)
(***************************************************************************)

Rows == [order : Nat, sums : SumRecords]
EarnedIn(rows) == Total([r \in DOMAIN rows |-> rows[r].sums.net], Len(rows))
ChargedIn(rows) == Total([r \in DOMAIN rows |-> rows[r].sums.fees], Len(rows))
RecordedIn(rows) == Total([r \in DOMAIN rows |-> rows[r].sums.qty], Len(rows))

LEMMA RowNumbers ==
    ASSUME NEW row \in Rows
    PROVE  row.sums.net \in Int /\ row.sums.fees \in Nat /\ row.sums.qty \in Nat
BY DEF Rows, SumRecords

LEMMA RowTotals ==
    ASSUME NEW rows \in Seq(Rows)
    PROVE  EarnedIn(rows) \in Int /\ ChargedIn(rows) \in Int /\ RecordedIn(rows) \in Int
<1>1. \A r \in 1..Len(rows) : /\ rows[r].sums.net \in Int /\ rows[r].sums.fees \in Int
                              /\ rows[r].sums.qty \in Int
  <2>1. SUFFICES ASSUME NEW r \in 1..Len(rows)
                 PROVE  rows[r].sums.net \in Int /\ rows[r].sums.fees \in Int /\ rows[r].sums.qty \in Int
    OBVIOUS
  <2>2. PICK row \in Rows : row = rows[r]
    OBVIOUS
  <2>3. row.sums.net \in Int /\ row.sums.fees \in Nat /\ row.sums.qty \in Nat
    BY RowNumbers
  <2>4. QED BY <2>2, <2>3
<1>2. Len(rows) \in Nat /\ DOMAIN rows = 1..Len(rows)
  OBVIOUS
<1> DEFINE e == [r \in DOMAIN rows |-> rows[r].sums.net]
           c == [r \in DOMAIN rows |-> rows[r].sums.fees]
           q == [r \in DOMAIN rows |-> rows[r].sums.qty]
<1>3. \A r \in 1..Len(rows) : e[r] \in Int /\ c[r] \in Int /\ q[r] \in Int
  BY <1>1, <1>2
<1>4. QED
  <2> HIDE DEF e, c, q
  <2>1. Total(e, Len(rows)) \in Int /\ Total(c, Len(rows)) \in Int /\ Total(q, Len(rows)) \in Int
    BY <1>2, <1>3, TotalType
  <2>2. QED BY <2>1 DEF EarnedIn, ChargedIn, RecordedIn, e, c, q

\* One row more.
LEMMA AppendRow ==
    ASSUME NEW rows \in Seq(Rows), NEW row \in Rows
    PROVE  /\ Append(rows, row) \in Seq(Rows)
           /\ EarnedIn(Append(rows, row)) = EarnedIn(rows) + row.sums.net
           /\ ChargedIn(Append(rows, row)) = ChargedIn(rows) + row.sums.fees
           /\ RecordedIn(Append(rows, row)) = RecordedIn(rows) + row.sums.qty
<1> DEFINE more == Append(rows, row)
           n == Len(rows)
           e(some) == [r \in DOMAIN some |-> some[r].sums.net]
           c(some) == [r \in DOMAIN some |-> some[r].sums.fees]
           q(some) == [r \in DOMAIN some |-> some[r].sums.qty]
<1>1. /\ more \in Seq(Rows) /\ n \in Nat /\ Len(more) = n + 1 /\ more[n + 1] = row
      /\ \A r \in 1..n : more[r] = rows[r] /\ rows[r] \in Rows
      /\ DOMAIN rows = 1..n /\ DOMAIN more = 1..(n + 1)
  OBVIOUS
<1> HIDE DEF more, n
<1>2. ASSUME NEW r \in 1..n
      PROVE  /\ e(rows)[r] \in Int /\ e(more)[r] = e(rows)[r]
             /\ c(rows)[r] \in Int /\ c(more)[r] = c(rows)[r]
             /\ q(rows)[r] \in Int /\ q(more)[r] = q(rows)[r]
  <2>1. r \in 1..(n + 1) /\ more[r] = rows[r] /\ rows[r] \in Rows
    BY <1>1
  <2>2. rows[r].sums.net \in Int /\ rows[r].sums.fees \in Int /\ rows[r].sums.qty \in Int
    <3>1. PICK some \in Rows : some = rows[r]
      BY <2>1
    <3>2. some.sums.net \in Int /\ some.sums.fees \in Nat /\ some.sums.qty \in Nat
      BY RowNumbers
    <3>3. QED BY <3>1, <3>2
  <2>3. QED BY <1>1, <2>1, <2>2
<1>3. /\ e(more)[n + 1] = row.sums.net /\ c(more)[n + 1] = row.sums.fees /\ q(more)[n + 1] = row.sums.qty
      /\ row.sums.net \in Int /\ row.sums.fees \in Int /\ row.sums.qty \in Int
  <2>1. n + 1 \in 1..(n + 1)
    BY <1>1
  <2>2. row.sums.net \in Int /\ row.sums.fees \in Int /\ row.sums.qty \in Int
    <3>1. row.sums.net \in Int /\ row.sums.fees \in Nat /\ row.sums.qty \in Nat
      BY RowNumbers
    <3>2. QED BY <3>1
  <2>3. QED BY <1>1, <2>1, <2>2
<1> HIDE DEF e, c, q
<1>4. /\ Total(e(more), n + 1) = Total(e(rows), n) + e(more)[n + 1]
      /\ Total(c(more), n + 1) = Total(c(rows), n) + c(more)[n + 1]
      /\ Total(q(more), n + 1) = Total(q(rows), n) + q(more)[n + 1]
  <2>1. /\ \A r \in 1..n : e(rows)[r] \in Int /\ e(more)[r] = e(rows)[r]
        /\ \A r \in 1..n : c(rows)[r] \in Int /\ c(more)[r] = c(rows)[r]
        /\ \A r \in 1..n : q(rows)[r] \in Int /\ q(more)[r] = q(rows)[r]
    BY <1>2
  <2>2. /\ n \in Nat /\ e(more)[n + 1] \in Int /\ c(more)[n + 1] \in Int /\ q(more)[n + 1] \in Int
    BY <1>1, <1>3
  <2>3. QED BY <2>1, <2>2, TotalMore
<1>5. /\ EarnedIn(more) = Total(e(more), n + 1) /\ EarnedIn(rows) = Total(e(rows), n)
      /\ ChargedIn(more) = Total(c(more), n + 1) /\ ChargedIn(rows) = Total(c(rows), n)
      /\ RecordedIn(more) = Total(q(more), n + 1) /\ RecordedIn(rows) = Total(q(rows), n)
  BY <1>1 DEF EarnedIn, ChargedIn, RecordedIn, e, c, q, n
<1>6. QED BY <1>1, <1>3, <1>4, <1>5 DEF more

(***************************************************************************)
(* The invariant                                                           *)
(***************************************************************************)

All == Len(filled)
Lots == OpenLots(All)
RowOrders == {tradeRows[r].order : r \in DOMAIN tradeRows}

\* What the order realizes whose run has not come to the accounting yet.
Pending ==
    IF unrecorded = 0 THEN Sums ELSE RealizedBy(filled[unrecorded], OpenLots(unrecorded - 1))

\* Only the last order can still want its row, and no row is ahead of it.
RowsInOrder ==
    /\ filled \in Seq(Orders)
    /\ unrecorded \in {0, All}
    /\ tradeRows \in Seq(Rows)
    /\ \A r \in DOMAIN tradeRows :
            tradeRows[r].order \in 1..All /\ (unrecorded # 0 => tradeRows[r].order < unrecorded)

\* As BooksBalance, but for the order that still wants its row.
BooksInv ==
    /\ RowsInOrder
    /\ Recorded + Pending.qty + Units(Lots) <= Bought(All)
    /\ Charged + Pending.fees + FeesLeft(Lots) <= Spent(All)
    /\ Covered => Units(Lots) = Bought(All) - Sold(All)
    /\ Covered /\ Executions("sell") \ {unrecorded} \subseteq RowOrders =>
            Earned + Pending.net = Moved(All) + BookValue(Lots)

LEMMA PendingType ==
    ASSUME RowsInOrder
    PROVE  /\ Pending \in SumRecords /\ Lots \in Seq(LotRecords) /\ All \in Nat
           /\ Pending.qty \in Nat /\ Pending.fees \in Nat /\ Pending.net \in Int
           /\ Units(Lots) \in Int /\ FeesLeft(Lots) \in Int /\ BookValue(Lots) \in Int
           /\ Earned \in Int /\ Charged \in Int /\ Recorded \in Int
<1>1. All \in Nat /\ All \in 0..Len(filled) /\ filled \in Seq(Orders)
  BY DEF All, RowsInOrder
<1>2. Lots \in Seq(LotRecords)
  BY <1>1, OpenNext DEF Lots
<1>3. Pending \in SumRecords
  <2>1. CASE unrecorded = 0
    BY <2>1 DEF Pending, Sums, SumRecords
  <2>2. CASE unrecorded # 0
    <3>1. unrecorded = All /\ unrecorded \in 1..Len(filled) /\ unrecorded - 1 \in 0..Len(filled)
      BY <1>1, <2>2 DEF RowsInOrder, All
    <3>2. filled[unrecorded] \in Orders /\ OpenLots(unrecorded - 1) \in Seq(LotRecords)
      BY <1>1, <3>1, OpenNext
    <3>3. RealizedBy(filled[unrecorded], OpenLots(unrecorded - 1)) \in SumRecords
      <4>1. 0 \in Nat
        OBVIOUS
      <4>2. QED BY <3>2, <4>1, OneOrder
    <3>4. QED BY <2>2, <3>3 DEF Pending
  <2>3. QED BY <2>1, <2>2
<1>4. Earned = EarnedIn(tradeRows) /\ Charged = ChargedIn(tradeRows) /\ Recorded = RecordedIn(tradeRows)
  BY DEF Earned, Charged, Recorded, EarnedIn, ChargedIn, RecordedIn
<1>5. tradeRows \in Seq(Rows)
  BY DEF RowsInOrder
<1>6. QED
  BY <1>1, <1>2, <1>3, <1>4, <1>5, LotTotalsAll, RowTotals DEF SumRecords

LEMMA BooksInvFirst == AccountInit => BooksInv
<1> SUFFICES ASSUME AccountInit PROVE BooksInv
  OBVIOUS
<1>1. filled = <<>> /\ unrecorded = 0 /\ tradeRows = <<>> /\ Len(filled) = 0 /\ All = 0
  BY DEF AccountInit, All
<1>2. RowsInOrder
  BY <1>1 DEF RowsInOrder
<1>3. 0 \in 0..Len(filled) /\ filled \in Seq(Orders)
  BY <1>1
<1>4. Lots = <<>> /\ Bought(0) = 0 /\ Sold(0) = 0 /\ Moved(0) = 0 /\ Spent(0) = 0
  BY <1>1, <1>3, OpenNext, TableSums DEF Lots
<1>5. Earned = 0 /\ Charged = 0 /\ Recorded = 0
  BY <1>1, TotalNone DEF Earned, Charged, Recorded
<1>6. Pending.qty = 0 /\ Pending.fees = 0 /\ Pending.net = 0
  BY <1>1 DEF Pending, Sums
<1>7. QED BY <1>1, <1>2, <1>4, <1>5, <1>6, NoLots DEF BooksInv

LEMMA UnitsNat ==
    ASSUME NEW lots \in Seq(LotRecords)
    PROVE  Units(lots) \in Nat
<1> DEFINE n == Len(lots)
           q == Of(lots).qty
<1>1. n \in Nat /\ Units(lots) = Total(q, n)
  BY LotTotals
<1>2. \A i \in 1..n : q[i] \in Nat
  <2>1. \A i \in 1..n : q[i] = lots[i].qty /\ lots[i].qty \in Nat
    BY LotNumbers
  <2>2. QED BY <2>1
<1> HIDE DEF q, n
<1>3. PICK sum \in [0..n -> Int] :
        /\ sum[0] = 0 /\ \A k \in 1..n : sum[k] = sum[k - 1] + q[k]
        /\ Total(q, n) = sum[n]
  <2>1. \A i \in 1..n : q[i] \in Int
    BY <1>2
  <2>2. QED BY <1>1, <2>1, TotalRuns
<1> DEFINE T == {k \in 0..n : sum[k] >= 0}
<1>4. 0 \in T
  BY <1>1, <1>3
<1>5. ASSUME NEW k \in 1..n, k - 1 \in T PROVE k \in T
  <2>1. k \in 0..n /\ k - 1 \in 0..n /\ sum[k - 1] \in Int /\ sum[k - 1] >= 0 /\ q[k] \in Nat
    BY <1>1, <1>2, <1>3, <1>5
  <2>2. sum[k] = sum[k - 1] + q[k]
    BY <1>3
  <2>3. QED BY <2>1, <2>2
<1>6. n \in T
  <2> HIDE DEF T
  <2>1. \A k \in 0..n : k \in T
    BY <1>1, <1>4, <1>5, Turns
  <2>2. QED BY <1>1, <2>1
<1>7. QED BY <1>1, <1>3, <1>6

LEMMA OpenNextNext ==
    filled' \in Seq(Orders) => \A n \in (0..Len(filled))' :
        n > 0 => OpenLots(n)' = Processed(OpenLots(n - 1), filled[n], n)'
<1>1. filled \in Seq(Orders) => \A n \in 0..Len(filled) :
        n > 0 => OpenLots(n) = Processed(OpenLots(n - 1), filled[n], n)
  BY OpenNext
<1>2. (filled \in Seq(Orders) => \A n \in 0..Len(filled) :
        n > 0 => OpenLots(n) = Processed(OpenLots(n - 1), filled[n], n))'
  BY <1>1, PTL
<1>3. QED BY <1>2

LEMMA ExecutionsStable ==
    ASSUME Grown, NEW side, NEW at \in 1..Len(filled)
    PROVE  at \in Executions(side)' <=> at \in Executions(side)
<1>1. at \in DOMAIN filled /\ at \in DOMAIN filled' /\ filled'[at] = filled[at]
  BY DEF Grown
<1>2. QED BY <1>1 DEF Executions, Executed

LEMMA CoveredBefore ==
    ASSUME Grown, Covered'
    PROVE  Covered
<1> SUFFICES ASSUME NEW at \in Executions("sell") PROVE Sold(at) <= Bought(at)
  BY DEF Covered
<1>1. at \in 1..Len(filled) /\ at \in 0..Len(filled)
  BY DEF Executions, Grown
<1>2. at \in Executions("sell")'
  BY <1>1, ExecutionsStable
<1>3. Sold(at)' <= Bought(at)'
  BY <1>2 DEF Covered
<1>4. QED BY <1>1, <1>3, SumsStable

\* No order more: the books are the same.
LEMMA SameTable ==
    ASSUME costs' = costs, filled' = filled, filled \in Seq(Orders)
    PROVE  /\ All' = All /\ Lots' = Lots
           /\ Bought(All)' = Bought(All) /\ Sold(All)' = Sold(All)
           /\ Moved(All)' = Moved(All) /\ Spent(All)' = Spent(All)
           /\ Executions("sell")' = Executions("sell") /\ Covered' = Covered
<1>1. Grown
  BY DEF Grown
<1>2. All' = All /\ All \in 0..Len(filled)
  BY DEF All
<1>3. Lots' = Lots
  BY <1>1, <1>2, OpenStable DEF Lots, Grown
<1>4. \A n \in 0..Len(filled) : /\ Bought(n)' = Bought(n) /\ Sold(n)' = Sold(n)
                                /\ Moved(n)' = Moved(n) /\ Spent(n)' = Spent(n)
  BY <1>1, SumsStable
<1>5. Executions("sell")' = Executions("sell")
  BY DEF Executions, Executed
<1>6. Covered' = Covered
  <2>1. \A at \in Executions("sell") : at \in 0..Len(filled)
    BY DEF Executions
  <2>2. \A at \in Executions("sell") : Sold(at)' = Sold(at) /\ Bought(at)' = Bought(at)
    BY <1>4, <2>1
  <2>3. QED BY <1>5, <2>2 DEF Covered
<1>7. QED BY <1>2, <1>3, <1>4, <1>5, <1>6

LEMMA OrderFilledBooks ==
    ASSUME BooksInv, OrderFilled
    PROVE  BooksInv'
<1>0. PICK n : n = All
  OBVIOUS
<1>1. PICK order \in Orders : filled' = Append(filled, order)
  BY DEF OrderFilled, Orders
<1>2. /\ RowsInOrder /\ unrecorded = 0 /\ costs' = costs /\ tradeRows' = tradeRows
      /\ filled \in Seq(Orders) /\ n \in Nat /\ n = Len(filled)
  BY <1>0 DEF BooksInv, RowsInOrder, OrderFilled, All
<1>3. /\ filled' \in Seq(Orders) /\ Len(filled') = n + 1 /\ filled'[n + 1] = order
      /\ \A k \in 1..n : filled'[k] = filled[k]
      /\ All' = n + 1 /\ unrecorded' = n + 1
  <2>1. /\ filled' \in Seq(Orders) /\ Len(filled') = n + 1 /\ filled'[n + 1] = order
        /\ \A k \in 1..n : filled'[k] = filled[k]
    BY <1>1, <1>2
  <2>2. All' = Len(filled') /\ unrecorded' = Len(filled')
    BY DEF OrderFilled, All
  <2>3. QED BY <2>1, <2>2
<1>4. Grown
  BY <1>2, <1>3 DEF Grown
<1>5. /\ n \in 0..Len(filled) /\ n + 1 \in 0..Len(filled') /\ n + 1 > 0 /\ (n + 1) - 1 = n
      /\ n + 1 \in Nat
  BY <1>2, <1>3
<1>a. PICK L : L = Lots
  OBVIOUS
<1> DEFINE next == Processed(L, order, n + 1)
           done == RealizedBy(order, L)
<1>6. /\ L \in Seq(LotRecords) /\ L = OpenLots(n) /\ OpenLots(n)' = L
      /\ Units(L) \in Int /\ FeesLeft(L) \in Int /\ BookValue(L) \in Int
      /\ Recorded \in Int /\ Charged \in Int /\ Earned \in Int
  <2>1. L = OpenLots(n)
    BY <1>0, <1>a DEF Lots
  <2>2. OpenLots(n)' = OpenLots(n)
    BY <1>4, <1>5, OpenStable DEF Grown
  <2>3. QED BY <1>2, <1>a, <2>1, <2>2, PendingType
<1>7. Lots' = next
  <2>1. Lots' = OpenLots(n + 1)'
    BY <1>3, <1>0 DEF Lots
  <2>2. OpenLots(n + 1)' = Processed(L, order, n + 1)'
    BY <1>3, <1>5, <1>6, OpenNextNext
  <2>3. QED BY <1>2, <1>6, <2>1, <2>2, ProcessedStable
<1>8. Pending' = done
  <2>1. Pending' = RealizedBy(order, L)'
    BY <1>3, <1>5, <1>6 DEF Pending
  <2>2. QED BY <1>2, <1>6, <2>1, RealizedStable
<1>9. /\ done \in SumRecords
      /\ Units(next) + done.qty = Units(L) + BoughtBy(order)
      /\ FeesLeft(next) + done.fees <= FeesLeft(L) + CostOf(order)
      /\ SoldBy(order) <= Units(L) =>
            /\ done.qty = SoldBy(order)
            /\ done.net = MoneyOf(order) + BookValue(next) - BookValue(L)
  BY <1>5, <1>6, OneOrder
<1>10. /\ Bought(n + 1)' = Bought(n) + BoughtBy(order) /\ Sold(n + 1)' = Sold(n) + SoldBy(order)
       /\ Moved(n + 1)' = Moved(n) + MoneyOf(order) /\ Spent(n + 1)' = Spent(n) + CostOf(order)
  <2>1. /\ Bought(n + 1)' = Bought(n)' + BoughtBy(order)' /\ Sold(n + 1)' = Sold(n)' + SoldBy(order)'
        /\ Moved(n + 1)' = Moved(n)' + MoneyOf(order)' /\ Spent(n + 1)' = Spent(n)' + CostOf(order)'
    BY <1>3, <1>5, TableSumsNext
  <2>2. /\ Bought(n)' = Bought(n) /\ Sold(n)' = Sold(n) /\ Moved(n)' = Moved(n) /\ Spent(n)' = Spent(n)
    BY <1>4, <1>5, SumsStable
  <2>3. /\ BoughtBy(order)' = BoughtBy(order) /\ SoldBy(order)' = SoldBy(order)
        /\ MoneyOf(order)' = MoneyOf(order) /\ CostOf(order)' = CostOf(order)
    BY <1>2, ChargesStable
  <2>4. QED BY <2>1, <2>2, <2>3
<1>11. /\ Bought(n) \in Int /\ Sold(n) \in Int /\ Moved(n) \in Int /\ Spent(n) \in Int
       /\ BoughtBy(order) \in Nat /\ SoldBy(order) \in Nat /\ CostOf(order) \in Nat
       /\ MoneyOf(order) \in Int
  BY <1>2, <1>5, TableSums, OrderNumbers
<1>12. /\ Recorded' = Recorded /\ Charged' = Charged /\ Earned' = Earned /\ RowOrders' = RowOrders
  BY <1>2 DEF Recorded, Charged, Earned, RowOrders
<1>13. Pending.qty = 0 /\ Pending.fees = 0 /\ Pending.net = 0
  BY <1>2 DEF Pending, Sums
<1>14. /\ Units(next) \in Int /\ FeesLeft(next) \in Int /\ BookValue(next) \in Int
       /\ done.qty \in Nat /\ done.fees \in Nat /\ done.net \in Int
  <2>1. next \in Seq(LotRecords)
    BY <1>5, <1>6, ProcessedType
  <2>2. done \in SumRecords
    BY <1>9
  <2> HIDE DEF next, done
  <2>3. QED BY <2>1, <2>2, LotTotalsAll DEF SumRecords
<1> HIDE DEF next, done
<1>15. RowsInOrder'
  <2>1. unrecorded' \in {0, All'} /\ tradeRows' \in Seq(Rows)
    BY <1>2, <1>3 DEF RowsInOrder
  <2>2. ASSUME NEW r \in DOMAIN tradeRows'
        PROVE  tradeRows'[r].order \in 1..All' /\ tradeRows'[r].order < unrecorded'
    <3>1. tradeRows'[r].order \in 1..n
      BY <1>0, <1>2, <2>2 DEF RowsInOrder
    <3>2. QED BY <1>2, <1>3, <3>1
  <2>3. QED BY <1>3, <2>1, <2>2 DEF RowsInOrder
<1> DEFINE u == Units(L)
           f == FeesLeft(L)
           v == BookValue(L)
           u1 == Units(next)
           f1 == FeesLeft(next)
           v1 == BookValue(next)
           dq == done.qty
           df == done.fees
           dn == done.net
           b == Bought(n)
           s == Sold(n)
           m == Moved(n)
           c == Spent(n)
           db == BoughtBy(order)
           ds == SoldBy(order)
           dm == MoneyOf(order)
           dc == CostOf(order)
\* In numbers: before, after, and the change.
<1>16. /\ u \in Nat /\ f \in Int /\ v \in Int /\ u1 \in Int /\ f1 \in Int /\ v1 \in Int
       /\ dq \in Nat /\ df \in Nat /\ dn \in Int
       /\ b \in Int /\ s \in Int /\ m \in Int /\ c \in Int
       /\ db \in Nat /\ ds \in Nat /\ dm \in Int /\ dc \in Nat
       /\ Recorded \in Int /\ Charged \in Int /\ Earned \in Int
  BY <1>6, <1>11, <1>14, UnitsNat
<1>17. /\ u1 + dq = u + db /\ f1 + df <= f + dc
       /\ ds <= u => dq = ds /\ dn = dm + v1 - v
  BY <1>9
<1>18. /\ Bought(All)' = b + db /\ Sold(All)' = s + ds
       /\ Moved(All)' = m + dm /\ Spent(All)' = c + dc
       /\ Units(Lots') = u1 /\ FeesLeft(Lots') = f1 /\ BookValue(Lots') = v1
       /\ Pending'.qty = dq /\ Pending'.fees = df /\ Pending'.net = dn
  BY <1>3, <1>7, <1>8, <1>10
<1>19. /\ Recorded + u <= b /\ Charged + f <= c
       /\ Covered => u = b - s
       /\ Covered /\ Executions("sell") \ {0} \subseteq RowOrders => Earned = m + v
  <2> DEFINE pq == Pending.qty
             pf == Pending.fees
             pn == Pending.net
  <2>1. /\ Recorded + pq + u <= b /\ Charged + pf + f <= c
        /\ Covered => u = b - s
        /\ Covered /\ Executions("sell") \ {0} \subseteq RowOrders => Earned + pn = m + v
        /\ pq = 0 /\ pf = 0 /\ pn = 0
    BY <1>0, <1>a, <1>2, <1>13 DEF BooksInv
  <2> HIDE DEF pq, pf, pn, u, f, v, b, s, m, c
  <2>2. QED BY <1>16, <2>1
<1>20. ASSUME Covered' PROVE Covered /\ ds <= u
  <2>1. Covered
    BY <1>4, <1>20, CoveredBefore
  <2>2. CASE ds # 0
    <3>1. Executed(order) /\ order.side = "sell" /\ db = 0
      BY <2>2 DEF SoldBy, BoughtBy
    <3>2. Executed(order)'
      BY <1>2, <3>1, ChargesStable
    <3>3. n + 1 \in Executions("sell")'
      BY <1>3, <1>5, <3>1, <3>2 DEF Executions
    <3>4. \A at \in Executions("sell")' : Sold(at)' <= Bought(at)'
      BY <1>20 DEF Covered
    <3>5. Sold(n + 1)' <= Bought(n + 1)'
      BY <3>3, <3>4
    <3>6. s + ds <= b + db /\ u = b - s
      BY <1>10, <1>19, <2>1, <3>5
    <3> HIDE DEF u, b, s, db, ds
    <3>7. QED BY <1>16, <2>1, <3>1, <3>6
  <2>3. CASE ds = 0
    <3> HIDE DEF u, ds
    <3> QED BY <1>16, <2>1, <2>3
  <2>4. QED BY <2>2, <2>3
<1>21. /\ Recorded' + Pending'.qty + Units(Lots') <= Bought(All)'
       /\ Charged' + Pending'.fees + FeesLeft(Lots') <= Spent(All)'
       /\ Covered' => Units(Lots') = Bought(All)' - Sold(All)'
  <2> HIDE DEF u, f, v, u1, f1, v1, dq, df, dn, b, s, m, c, db, ds, dm, dc
  <2>1. Recorded + dq + u1 <= b + db /\ Charged + df + f1 <= c + dc
    BY <1>16, <1>17, <1>19
  <2>2. Covered' => u1 = (b + db) - (s + ds)
    BY <1>16, <1>17, <1>19, <1>20
  <2>3. QED BY <1>12, <1>18, <2>1, <2>2
<1>22. Covered' /\ Executions("sell")' \ {unrecorded'} \subseteq RowOrders' =>
            Earned' + Pending'.net = Moved(All)' + BookValue(Lots')
  <2>1. SUFFICES ASSUME Covered', Executions("sell")' \ {unrecorded'} \subseteq RowOrders'
                 PROVE  Earned' + Pending'.net = Moved(All)' + BookValue(Lots')
    OBVIOUS
  <2>2. Executions("sell") \ {0} \subseteq RowOrders
    <3>1. SUFFICES ASSUME NEW at \in Executions("sell") PROVE at \in RowOrders
      OBVIOUS
    <3>2. at \in 1..n /\ at \in 1..Len(filled) /\ at # n + 1
      BY <1>2 DEF Executions
    <3>3. at \in Executions("sell")'
      BY <1>4, <3>2, ExecutionsStable
    <3>4. QED BY <1>3, <1>12, <2>1, <3>2, <3>3
  <2> HIDE DEF u, f, v, u1, f1, v1, dq, df, dn, b, s, m, c, db, ds, dm, dc
  <2>3. Earned + dn = (m + dm) + v1
    <3>1. Earned = m + v /\ dn = dm + v1 - v
      BY <1>17, <1>19, <1>20, <2>1, <2>2
    <3>2. QED BY <1>16, <3>1
  <2>4. QED BY <1>12, <1>18, <2>3
<1>23. QED BY <1>15, <1>21, <1>22 DEF BooksInv

\* The last order gets no row: either it realizes nothing, or what it does is lost.
LEMMA NoRowBooks ==
    ASSUME BooksInv, unrecorded # 0, unrecorded' = 0, UNCHANGED <<costs, filled, tradeRows>>
    PROVE  BooksInv'
<1>1. /\ RowsInOrder /\ filled \in Seq(Orders) /\ unrecorded = All /\ All \in Nat
      /\ filled' = filled /\ costs' = costs /\ tradeRows' = tradeRows
  BY PendingType DEF BooksInv, RowsInOrder
<1>2. /\ All' = All /\ Lots' = Lots
      /\ Bought(All)' = Bought(All) /\ Sold(All)' = Sold(All)
      /\ Moved(All)' = Moved(All) /\ Spent(All)' = Spent(All)
      /\ Executions("sell")' = Executions("sell") /\ Covered' = Covered
  BY <1>1, SameTable
<1>3. Pending' = Sums /\ Sums.qty = 0 /\ Sums.fees = 0 /\ Sums.net = 0
  BY DEF Pending, Sums
<1>4. Recorded' = Recorded /\ Charged' = Charged /\ Earned' = Earned /\ RowOrders' = RowOrders
  BY <1>1 DEF Recorded, Charged, Earned, RowOrders
<1>5. RowsInOrder'
  BY <1>1, <1>2 DEF RowsInOrder
<1>6. /\ Pending.qty \in Nat /\ Pending.fees \in Nat /\ Pending.net \in Int
      /\ Units(Lots) \in Int /\ FeesLeft(Lots) \in Int /\ BookValue(Lots) \in Int
      /\ Earned \in Int /\ Charged \in Int /\ Recorded \in Int
  BY <1>1, PendingType
<1>7. Bought(All) \in Int /\ Spent(All) \in Int
  <2>1. PICK n \in 0..Len(filled) : n = All
    BY <1>1 DEF All
  <2>2. QED BY <1>1, <2>1, TableSums
<1>8. Recorded + Pending.qty + Units(Lots) <= Bought(All)
  BY DEF BooksInv
<1>9. Charged + Pending.fees + FeesLeft(Lots) <= Spent(All)
  BY DEF BooksInv
<1>10. Recorded + 0 + Units(Lots) <= Bought(All) /\ Charged + 0 + FeesLeft(Lots) <= Spent(All)
  <2> DEFINE u == Units(Lots)
             f == FeesLeft(Lots)
             pq == Pending.qty
             pf == Pending.fees
             b == Bought(All)
             c == Spent(All)
  <2>1. /\ u \in Int /\ f \in Int /\ pq \in Nat /\ pf \in Nat /\ b \in Int /\ c \in Int
        /\ Recorded + pq + u <= b /\ Charged + pf + f <= c
    BY <1>6, <1>7, <1>8, <1>9
  <2> HIDE DEF u, f, pq, pf, b, c
  <2>2. Recorded + 0 + u <= b /\ Charged + 0 + f <= c
    BY <1>6, <2>1
  <2>3. QED BY <2>2 DEF u, f, b, c
<1>11. ASSUME Covered, Executions("sell") \subseteq RowOrders
       PROVE  Earned + 0 = Moved(All) + BookValue(Lots)
  <2>1. unrecorded \notin RowOrders
    BY <1>1 DEF RowsInOrder, RowOrders
  <2>2. unrecorded \notin Executions("sell") /\ unrecorded \in DOMAIN filled
    BY <1>1, <1>11, <2>1 DEF All
  <2>3. Pending = Sums
    BY <2>2 DEF Executions, Pending, RealizedBy
  <2>4. Earned + Pending.net = Moved(All) + BookValue(Lots)
    BY <1>11 DEF BooksInv
  <2>5. QED BY <1>3, <2>3, <2>4
<1>12. /\ Recorded' + Pending'.qty + Units(Lots') <= Bought(All)'
       /\ Charged' + Pending'.fees + FeesLeft(Lots') <= Spent(All)'
  BY <1>2, <1>3, <1>4, <1>10
<1>13. Covered' => Units(Lots') = Bought(All)' - Sold(All)'
  BY <1>2 DEF BooksInv
<1>14. Covered' /\ Executions("sell")' \ {unrecorded'} \subseteq RowOrders' =>
            Earned' + Pending'.net = Moved(All)' + BookValue(Lots')
  <2>1. SUFFICES ASSUME Covered', Executions("sell")' \ {unrecorded'} \subseteq RowOrders'
                 PROVE  Earned' + Pending'.net = Moved(All)' + BookValue(Lots')
    OBVIOUS
  <2>2. \A at \in Executions("sell") : at # 0
    BY <1>1 DEF Executions
  <2>3. Covered /\ Executions("sell") \subseteq RowOrders
    BY <1>2, <1>4, <2>1, <2>2
  <2>4. QED BY <1>2, <1>3, <1>4, <1>11, <2>3
<1>15. QED BY <1>5, <1>12, <1>13, <1>14 DEF BooksInv

LEMMA RecordTradeBooks ==
    ASSUME BooksInv, RecordTrade
    PROVE  BooksInv'
<1>1. /\ RowsInOrder /\ filled \in Seq(Orders) /\ unrecorded = All /\ All \in Nat /\ unrecorded # 0
      /\ filled' = filled /\ costs' = costs /\ unrecorded' = 0 /\ tradeRows \in Seq(Rows)
  BY PendingType DEF BooksInv, RowsInOrder, RecordTrade
<1> DEFINE row == [order |-> unrecorded, sums |-> Pending]
<1>2. CASE tradeRows' = tradeRows
  BY <1>1, <1>2, NoRowBooks
<1>3. CASE tradeRows' # tradeRows
  <2>1. /\ Executed(filled[unrecorded]) /\ filled[unrecorded].side = "sell"
        /\ tradeRows' = Append(tradeRows, [order |-> unrecorded, sums |-> Realized(unrecorded)])
    BY <1>3 DEF RecordTrade
  <2>2. Realized(unrecorded) = Pending
    BY <1>1, <2>1 DEF Realized, Pending, RealizedBy
  <2>3. /\ Pending \in SumRecords
        /\ Pending.qty \in Nat /\ Pending.fees \in Nat /\ Pending.net \in Int
        /\ Units(Lots) \in Int /\ FeesLeft(Lots) \in Int /\ BookValue(Lots) \in Int
        /\ Earned \in Int /\ Charged \in Int /\ Recorded \in Int
    BY <1>1, PendingType
  <2>4. tradeRows' = Append(tradeRows, row) /\ row \in Rows
    BY <1>1, <2>1, <2>2, <2>3 DEF Rows
  <2>5. /\ All' = All /\ Lots' = Lots
        /\ Bought(All)' = Bought(All) /\ Sold(All)' = Sold(All)
        /\ Moved(All)' = Moved(All) /\ Spent(All)' = Spent(All)
        /\ Executions("sell")' = Executions("sell") /\ Covered' = Covered
    BY <1>1, SameTable
  <2>6. Pending' = Sums /\ Sums.qty = 0 /\ Sums.fees = 0 /\ Sums.net = 0
    BY <1>1 DEF Pending, Sums
  <2>7. /\ Recorded' = Recorded + Pending.qty /\ Charged' = Charged + Pending.fees
        /\ Earned' = Earned + Pending.net
    <3>1. /\ Earned = EarnedIn(tradeRows) /\ Charged = ChargedIn(tradeRows)
          /\ Recorded = RecordedIn(tradeRows)
      BY DEF Earned, Charged, Recorded, EarnedIn, ChargedIn, RecordedIn
    <3>2. /\ Earned' = EarnedIn(tradeRows') /\ Charged' = ChargedIn(tradeRows')
          /\ Recorded' = RecordedIn(tradeRows')
      BY DEF Earned, Charged, Recorded, EarnedIn, ChargedIn, RecordedIn
    <3>3. /\ EarnedIn(Append(tradeRows, row)) = EarnedIn(tradeRows) + Pending.net
          /\ ChargedIn(Append(tradeRows, row)) = ChargedIn(tradeRows) + Pending.fees
          /\ RecordedIn(Append(tradeRows, row)) = RecordedIn(tradeRows) + Pending.qty
      <4>1. row.sums = Pending
        OBVIOUS
      <4> HIDE DEF row
      <4>2. QED BY <1>1, <2>4, <4>1, AppendRow
    <3>4. QED
      <4> HIDE DEF row
      <4> QED BY <2>4, <3>1, <3>2, <3>3
  <2>8. RowOrders' = RowOrders \cup {unrecorded}
    <3>1. /\ DOMAIN tradeRows = 1..Len(tradeRows) /\ DOMAIN tradeRows' = 1..(Len(tradeRows) + 1)
          /\ Len(tradeRows) \in Nat
          /\ \A r \in 1..Len(tradeRows) : tradeRows'[r] = tradeRows[r]
          /\ tradeRows'[Len(tradeRows) + 1] = row
      BY <1>1, <2>4
    <3>2. row.order = unrecorded
      OBVIOUS
    <3> HIDE DEF row
    <3>3. QED BY <3>1, <3>2 DEF RowOrders
  <2>9. RowsInOrder'
    <3>1. tradeRows' \in Seq(Rows)
      BY <1>1, <2>4
    <3>2. \A at \in RowOrders' : at \in 1..All
      <4>1. \A at \in RowOrders : at \in 1..All
        BY <1>1 DEF RowsInOrder, RowOrders
      <4>2. unrecorded \in 1..All
        BY <1>1
      <4>3. QED BY <2>8, <4>1, <4>2
    <3>3. \A r \in DOMAIN tradeRows' : tradeRows'[r].order \in RowOrders'
      BY DEF RowOrders
    <3>4. QED BY <1>1, <2>5, <3>1, <3>2, <3>3 DEF RowsInOrder
  <2> HIDE DEF row
  <2>10. /\ Recorded + Pending.qty + Units(Lots) <= Bought(All)
         /\ Charged + Pending.fees + FeesLeft(Lots) <= Spent(All)
    BY DEF BooksInv
  <2>11. /\ (Recorded + Pending.qty) + 0 = Recorded + Pending.qty
         /\ (Charged + Pending.fees) + 0 = Charged + Pending.fees
         /\ (Earned + Pending.net) + 0 = Earned + Pending.net
    BY <2>3
  <2>12. /\ Recorded' + Pending'.qty + Units(Lots') <= Bought(All)'
         /\ Charged' + Pending'.fees + FeesLeft(Lots') <= Spent(All)'
    BY <2>5, <2>6, <2>7, <2>10, <2>11
  <2>13. Covered' => Units(Lots') = Bought(All)' - Sold(All)'
    BY <2>5 DEF BooksInv
  <2>14. Covered' /\ Executions("sell")' \ {unrecorded'} \subseteq RowOrders' =>
            Earned' + Pending'.net = Moved(All)' + BookValue(Lots')
    <3>1. SUFFICES ASSUME Covered', Executions("sell")' \ {unrecorded'} \subseteq RowOrders'
                   PROVE  Earned' + Pending'.net = Moved(All)' + BookValue(Lots')
      OBVIOUS
    <3>2. \A at \in Executions("sell") : at # 0
      BY <1>1 DEF Executions
    <3>3. Covered /\ Executions("sell") \ {unrecorded} \subseteq RowOrders
      BY <1>1, <2>5, <2>8, <3>1, <3>2
    <3>4. Earned + Pending.net = Moved(All) + BookValue(Lots)
      BY <3>3 DEF BooksInv
    <3>5. QED BY <2>5, <2>6, <2>7, <2>11, <3>4
  <2>15. QED BY <2>9, <2>12, <2>13, <2>14 DEF BooksInv
<1>4. QED BY <1>2, <1>3

LEMMA SameBooks ==
    ASSUME BooksInv, UNCHANGED accountVars
    PROVE  BooksInv'
<1>1. /\ RowsInOrder /\ filled \in Seq(Orders)
      /\ filled' = filled /\ costs' = costs /\ tradeRows' = tradeRows /\ unrecorded' = unrecorded
  BY DEF BooksInv, RowsInOrder, accountVars
<1>2. /\ All' = All /\ Lots' = Lots
      /\ Bought(All)' = Bought(All) /\ Sold(All)' = Sold(All)
      /\ Moved(All)' = Moved(All) /\ Spent(All)' = Spent(All)
      /\ Executions("sell")' = Executions("sell") /\ Covered' = Covered
  BY <1>1, SameTable
<1>3. Recorded' = Recorded /\ Charged' = Charged /\ Earned' = Earned /\ RowOrders' = RowOrders
  BY <1>1 DEF Recorded, Charged, Earned, RowOrders
<1>4. RowsInOrder'
  BY <1>1, <1>2 DEF RowsInOrder
<1>5. Pending' = Pending
  <2>1. CASE unrecorded = 0
    BY <1>1, <2>1 DEF Pending, Sums
  <2>2. CASE unrecorded # 0
    <3>1. PICK n : n = unrecorded
      OBVIOUS
    <3>2. n \in 1..Len(filled) /\ n - 1 \in 0..Len(filled)
      BY <1>1, <2>2, <3>1 DEF RowsInOrder, All
    <3>3. PICK order \in Orders : order = filled[n]
      BY <1>1, <3>2
    <3>4. PICK lots \in Seq(LotRecords) : lots = OpenLots(n - 1)
      BY <1>1, <3>2, OpenNext
    <3>5. OpenLots(n - 1)' = lots
      <4>1. Grown
        BY <1>1 DEF Grown
      <4>2. PICK k : k = n - 1
        OBVIOUS
      <4>3. k \in 0..Len(filled)
        BY <3>2, <4>2
      <4>4. OpenLots(k)' = OpenLots(k)
        BY <1>1, <4>1, <4>3, OpenStable DEF Grown
      <4>5. QED BY <3>4, <4>2, <4>4
    <3>6. Pending = RealizedBy(order, lots)
      BY <2>2, <3>1, <3>3, <3>4 DEF Pending
    <3>7. Pending' = RealizedBy(order, lots)'
      BY <1>1, <2>2, <3>1, <3>3, <3>5 DEF Pending
    <3>8. QED BY <1>1, <3>6, <3>7, RealizedStable
  <2>3. QED BY <2>1, <2>2
<1>6. QED BY <1>1, <1>2, <1>3, <1>4, <1>5 DEF BooksInv

\* With the row of every sell in the table, the invariant is what BooksBalance says.
LEMMA BooksFollow == BooksInv => BooksBalance
<1> SUFFICES ASSUME BooksInv PROVE BooksBalance
  OBVIOUS
<1>1. RowsInOrder
  BY DEF BooksInv
<1>2. /\ Pending.qty \in Nat /\ Pending.fees \in Nat /\ Pending.net \in Int
      /\ Units(Lots) \in Int /\ FeesLeft(Lots) \in Int /\ BookValue(Lots) \in Int
      /\ Earned \in Int /\ Charged \in Int /\ Recorded \in Int
  BY <1>1, PendingType
<1>3. Bought(All) \in Int /\ Spent(All) \in Int
  <2>1. PICK n \in 0..Len(filled) : n = All
    BY <1>1, PendingType DEF All
  <2>2. QED BY <1>1, <2>1, TableSums DEF RowsInOrder
<1>4. Recorded + Units(Lots) <= Bought(All) /\ Charged + FeesLeft(Lots) <= Spent(All)
  <2> DEFINE u == Units(Lots)
             f == FeesLeft(Lots)
             pq == Pending.qty
             pf == Pending.fees
             b == Bought(All)
             c == Spent(All)
  <2>1. /\ u \in Int /\ f \in Int /\ pq \in Nat /\ pf \in Nat /\ b \in Int /\ c \in Int
        /\ Recorded + pq + u <= b /\ Charged + pf + f <= c
    BY <1>2, <1>3 DEF BooksInv
  <2> HIDE DEF u, f, pq, pf, b, c
  <2>2. Recorded + u <= b /\ Charged + f <= c
    BY <1>2, <2>1
  <2>3. QED BY <2>2 DEF u, f, b, c
<1>5. ASSUME Covered, Executions("sell") = RowOrders PROVE Earned = Moved(All) + BookValue(Lots)
  <2>1. Pending = Sums
    <3>1. CASE unrecorded = 0
      BY <3>1 DEF Pending
    <3>2. CASE unrecorded # 0
      <4>1. unrecorded \notin RowOrders /\ unrecorded \in DOMAIN filled
        BY <1>1, <3>2 DEF RowsInOrder, RowOrders, All
      <4>2. QED BY <1>5, <4>1 DEF Pending, Executions, RealizedBy
    <3>3. QED BY <3>1, <3>2
  <2>2. Earned + Pending.net = Moved(All) + BookValue(Lots) /\ Pending.net = 0
    BY <1>5, <2>1 DEF BooksInv, Sums
  <2>3. QED BY <1>2, <2>2
<1>6. QED BY <1>4, <1>5 DEF BooksBalance, All, Lots, RowOrders, Moved, Spent

LEMMA BooksInvNext ==
    ASSUME BooksInv, [AccountNext]_accountVars
    PROVE  BooksInv'
<1>1. CASE OrderFilled
  BY <1>1, OrderFilledBooks
<1>2. CASE RecordTrade
  BY <1>2, RecordTradeBooks
<1>3. CASE RecordFails
  <2>1. unrecorded # 0 /\ unrecorded' = 0 /\ UNCHANGED <<costs, filled, tradeRows>>
    BY <1>3 DEF RecordFails
  <2>2. QED BY <2>1, NoRowBooks
<1>4. CASE UNCHANGED accountVars
  BY <1>4, SameBooks
<1>5. QED BY <1>1, <1>2, <1>3, <1>4 DEF AccountNext

\* However orders are filled, and whichever of the sells get their row, the
\* books balance: trade_accounting.py realizes no unit and charges no fee
\* twice, and once every sell has its row, the rows have earned the money that
\* came in less the money that went out, but for what the open lots have cost.
THEOREM BooksTheorem == AccountSpec => []BooksBalance
<1>1. ASSUME BooksInv, [AccountNext]_accountVars PROVE BooksInv'
  BY <1>1, BooksInvNext
<1>2. QED BY <1>1, BooksInvFirst, BooksFollow, PTL DEF AccountSpec

\* The accounting keeps its types: a row belongs to an order of the table, and
\* only the last order can still want its row (Trader.run_once records a trade
\* before it lets the next run in).
THEOREM AccountTypes == AccountSpec => []AccountTypeOK
<1>1. BooksInv => AccountTypeOK
  <2> SUFFICES ASSUME RowsInOrder PROVE AccountTypeOK
    BY DEF BooksInv
  <2>1. filled \in Seq(Orders) /\ Len(filled) \in Nat /\ DOMAIN filled = 1..Len(filled)
    BY DEF RowsInOrder
  <2>2. unrecorded \in DOMAIN filled \cup {0}
    <3>1. unrecorded \in {0, Len(filled)}
      BY DEF RowsInOrder, All
    <3>2. Len(filled) = 0 \/ Len(filled) \in 1..Len(filled)
      BY <2>1
    <3>3. QED BY <2>1, <3>1, <3>2
  <2>3. \A r \in DOMAIN tradeRows : tradeRows[r].order \in DOMAIN filled
    BY <2>1 DEF RowsInOrder, All
  <2>4. QED BY <2>1, <2>2, <2>3 DEF AccountTypeOK, Orders
<1>2. ASSUME BooksInv, [AccountNext]_accountVars PROVE BooksInv'
  BY <1>2, BooksInvNext
<1>3. QED BY <1>1, <1>2, BooksInvFirst, PTL DEF AccountSpec

(***************************************************************************)
(* First in first out                                                      *)
(***************************************************************************)

LEMMA ExactShare ==
    ASSUME NEW qty \in Nat \ {0}, NEW each \in Nat, NEW part \in Nat
    PROVE  ((qty * each) * part) \div qty = part * each
<1> DEFINE fee == part * each
<1>1. fee \in Nat /\ (qty * each) * part = fee * qty
  OBVIOUS
<1> HIDE DEF fee
<1>2. (fee * qty) \div qty = fee
  BY <1>1
<1>3. QED BY <1>1, <1>2 DEF fee

\* What match_lots has left of the first k lots after selling q units: the
\* first c are gone, and only the next of them can be a part.
LeftOf(state, lots, each, q, k, c) ==
    /\ c \in 0..k /\ Len(state.open) = k - c
    /\ Total(Of(lots).qty, c) <= q
    /\ state.qty = IF c = k THEN q - Total(Of(lots).qty, k) ELSE 0
    /\ \A j \in 1..(k - c) : /\ state.open[j].at = lots[c + j].at
                             /\ state.open[j].fee = state.open[j].qty * each[c + j]
                             /\ j > 1 => state.open[j].qty = lots[c + j].qty
    /\ c < k => state.open[1].qty = Total(Of(lots).qty, c + 1) - q

LEMMA LeftNext ==
    ASSUME NEW sell \in Orders, NEW lots \in Seq(LotRecords), NEW k \in 1..Len(lots),
           NEW state \in Matchings, NEW each \in [1..Len(lots) -> Nat], NEW q \in Nat, NEW c,
           \A i \in 1..Len(lots) : lots[i].fee = lots[i].qty * each[i],
           LeftOf(state, lots, each, q, k - 1, c)
    PROVE  \E d : LeftOf(MatchLot(state, sell, lots[k]), lots, each, q, k, d)
<1> DEFINE lot == lots[k]
           matched == IF state.qty <= lot.qty THEN state.qty ELSE lot.qty
           next == MatchLot(state, sell, lot)
           entry == EntryFee(lot, matched)
           P(i) == Total(Of(lots).qty, i)
<1>1. /\ k \in Nat /\ k >= 1 /\ k - 1 \in Nat /\ lot \in LotRecords /\ each[k] \in Nat
      /\ lot.fee = lot.qty * each[k] /\ k - 1 \in 0..Len(lots)
  OBVIOUS
<1>2. /\ c \in 0..(k - 1) /\ Len(state.open) = (k - 1) - c
      /\ P(c) <= q
      /\ state.qty = IF c = k - 1 THEN q - P(k - 1) ELSE 0
      /\ \A j \in 1..((k - 1) - c) : /\ state.open[j].at = lots[c + j].at
                                     /\ state.open[j].fee = state.open[j].qty * each[c + j]
                                     /\ j > 1 => state.open[j].qty = lots[c + j].qty
      /\ c < k - 1 => state.open[1].qty = P(c + 1) - q
  BY DEF LeftOf
<1>3. /\ state.qty \in Nat /\ state.open \in Seq(LotRecords)
      /\ lot.qty \in Nat \ {0} /\ lot.fee \in Nat /\ lot.effective \in Int /\ lot.price \in Nat /\ lot.at \in Nat
      /\ c \in Nat /\ c <= k - 1
  <2>1. c \in Nat /\ c <= k - 1
    <3>1. c \in 0..(k - 1)
      BY <1>2
    <3>2. QED BY <1>1, <3>1
  <2>2. lot \in LotRecords
    BY <1>1
  <2> HIDE DEF lot
  <2>3. QED BY <2>1, <2>2 DEF Matchings, LotRecords
<1>4. P(k) = P(k - 1) + lot.qty /\ P(k - 1) \in Int
  BY <1>1, NextLot, LotTotalsType
<1> HIDE DEF lot
<1>5. /\ matched \in Nat
      /\ next.qty = state.qty - matched
      /\ next.open = IF matched = lot.qty THEN state.open ELSE Append(state.open, Rest(lot, matched))
      /\ matched < lot.qty => Rest(lot, matched) \in LotRecords
  BY <1>1, OneLot
<1>6. /\ Rest(lot, matched).at = lot.at
      /\ Rest(lot, matched).qty = lot.qty - matched
      /\ Rest(lot, matched).fee = lot.fee - entry
  BY <1>1 DEF Rest, LotRecords
<1>7. entry = matched * each[k]
  <2>1. entry = ((lot.qty * each[k]) * matched) \div lot.qty
    BY <1>1 DEF EntryFee
  <2> HIDE DEF entry, matched
  <2> DEFINE w == each[k]
             size == lot.qty
  <2>2. entry = ((size * w) * matched) \div size /\ size \in Nat \ {0} /\ w \in Nat /\ matched \in Nat
    BY <1>1, <1>3, <1>5, <2>1
  <2> HIDE DEF w, size
  <2>3. entry = matched * w
    BY <2>2, ExactShare
  <2>4. QED BY <2>3 DEF w
<1>8. Rest(lot, matched).fee = Rest(lot, matched).qty * each[k]
  <2>1. lot.fee - entry = lot.qty * each[k] - matched * each[k]
    BY <1>1, <1>7
  <2>2. (lot.qty - matched) * each[k] = lot.qty * each[k] - matched * each[k]
    <3>1. lot.qty \in Int /\ matched \in Int /\ each[k] \in Int
      BY <1>1, <1>3, <1>5
    <3> HIDE DEF matched
    <3>2. QED BY <3>1, Spread
  <2>3. QED BY <1>6, <2>1, <2>2
<1>9. matched = IF state.qty <= lot.qty THEN state.qty ELSE lot.qty
  OBVIOUS
<1> HIDE DEF matched, next, entry, P
\* The lot is sold with the rest.
<1>10. CASE matched = lot.qty
  <2>1. state.qty # 0 /\ c = k - 1 /\ state.qty = q - P(k - 1) /\ lot.qty <= state.qty
    BY <1>2, <1>3, <1>9, <1>10
  <2>2. next.open = state.open /\ Len(next.open) = 0 /\ next.qty = (q - P(k - 1)) - lot.qty
    BY <1>2, <1>3, <1>5, <1>10, <2>1
  <2>3. q - P(k) = (q - P(k - 1)) - lot.qty /\ P(k) <= q
    BY <1>3, <1>4, <2>1
  <2>4. /\ k \in 0..k /\ k - k = 0 /\ ~(k < k) /\ \A j \in 1..(k - k) : FALSE
    BY <1>1
  <2>5. LeftOf(next, lots, each, q, k, k)
    BY <2>2, <2>3, <2>4 DEF LeftOf, P
  <2>6. QED BY <2>5 DEF next, lot
\* A part of it stays, or all.
<1>11. CASE matched # lot.qty
  <2>1. matched = state.qty /\ matched < lot.qty
    BY <1>3, <1>9, <1>11
  <2>2. Rest(lot, matched) \in LotRecords /\ next.open = Append(state.open, Rest(lot, matched)) /\ next.qty = 0
    BY <1>3, <1>5, <1>11, <2>1
  <2> DEFINE left == Rest(lot, matched)
             size == (k - 1) - c
  <2>3. /\ size \in Nat /\ size + 1 = k - c /\ Len(next.open) = size + 1
        /\ next.open[size + 1] = left /\ \A j \in 1..size : next.open[j] = state.open[j]
        /\ c + (size + 1) = k /\ c \in 0..k /\ c # k /\ c < k
    <3>1. size \in Nat /\ size + 1 = k - c /\ c + (size + 1) = k /\ c \in 0..k /\ c # k /\ c < k
      <4>1. k \in Nat /\ c \in Nat /\ c <= k - 1
        BY <1>1, <1>3
      <4>2. QED BY <4>1
    <3>2. Len(state.open) = size /\ state.open \in Seq(LotRecords)
      BY <1>2, <1>3
    <3>3. next.open = Append(state.open, left) /\ left \in LotRecords
      BY <2>2
    <3> HIDE DEF left, size
    <3>4. QED BY <3>1, <3>2, <3>3
  <2>4. left.at = lots[k].at /\ left.fee = left.qty * each[k] /\ left.qty = lot.qty - matched
    BY <1>6, <1>8 DEF lot
  <2> HIDE DEF left
  <2>5. ASSUME NEW j \in 1..(k - c)
        PROVE  /\ next.open[j].at = lots[c + j].at
               /\ next.open[j].fee = next.open[j].qty * each[c + j]
               /\ j > 1 => next.open[j].qty = lots[c + j].qty
    <3>1. CASE j = size + 1
      <4>1. c + j = k /\ next.open[j] = left
        BY <2>3, <3>1
      <4>2. j > 1 => left.qty = lots[k].qty
        <5>1. SUFFICES ASSUME j > 1 PROVE left.qty = lots[k].qty
          OBVIOUS
        <5>2. c # k - 1
          BY <1>1, <1>3, <3>1, <5>1
        <5>3. matched = 0
          BY <1>2, <2>1, <5>2
        <5>4. QED BY <1>3, <2>4, <5>3 DEF lot
      <4>3. QED BY <2>4, <4>1, <4>2
    <3>2. CASE j # size + 1
      <4>1. j \in 1..size /\ next.open[j] = state.open[j]
        BY <2>3, <3>2
      <4>2. QED BY <1>2, <4>1
    <3>3. QED BY <3>1, <3>2
  <2>6. next.open[1].qty = P(c + 1) - q
    <3>1. CASE c = k - 1
      <4>1. size = 0 /\ next.open[1] = left /\ c + 1 = k
        BY <1>1, <1>3, <2>3, <3>1
      <4>2. left.qty = lot.qty - (q - P(k - 1))
        BY <1>2, <2>1, <2>4, <3>1
      <4>3. QED BY <1>3, <1>4, <4>1, <4>2
    <3>2. CASE c # k - 1
      <4>1. 1 \in 1..size /\ c < k - 1
        <5>1. k \in Nat /\ c \in Nat /\ c <= k - 1 /\ c # k - 1
          BY <1>1, <1>3, <3>2
        <5>2. QED BY <5>1
      <4>2. QED BY <1>2, <2>3, <4>1
    <3>3. QED BY <3>1, <3>2
  <2>7. LeftOf(next, lots, each, q, k, c)
    BY <1>2, <2>2, <2>3, <2>5, <2>6 DEF LeftOf, P
  <2>8. QED BY <2>7 DEF next, lot
<1>12. QED BY <1>10, <1>11

LEMMA LeftAfter ==
    ASSUME NEW sell \in Orders, NEW lots \in Seq(LotRecords), NEW each \in [1..Len(lots) -> Nat],
           \A i \in 1..Len(lots) : lots[i].fee = lots[i].qty * each[i]
    PROVE  \E c : LeftOf(Match(sell, lots), lots, each, sell.qty, Len(lots), c)
<1> DEFINE n == Len(lots)
           q == sell.qty
<1>1. PICK after : MatchRun(after, sell, lots)
  BY MatchRuns
<1>2. /\ n \in Nat /\ after \in [0..n -> Matchings] /\ after[0] = Unmatched(sell)
      /\ \A k \in 1..n : after[k] = MatchLot(after[k - 1], sell, lots[k])
      /\ Match(sell, lots) = after[n]
  BY <1>1 DEF MatchRun
<1>3. q \in Nat
  BY OrderCosts
<1> DEFINE T == {k \in 0..n : \E c : LeftOf(after[k], lots, each, q, k, c)}
<1>4. 0 \in T
  <2>1. Total(Of(lots).qty, 0) = 0
    BY TotalNone
  <2>2. after[0].qty = q /\ after[0].open = <<>> /\ Len(after[0].open) = 0
    BY <1>2 DEF Unmatched
  <2> HIDE DEF q
  <2>3. LeftOf(after[0], lots, each, q, 0, 0)
    BY <1>3, <2>1, <2>2 DEF LeftOf
  <2>4. 0 \in 0..n
    BY <1>2
  <2>5. QED BY <2>3, <2>4
<1>5. ASSUME NEW k \in 1..n, k - 1 \in T PROVE k \in T
  <2>1. PICK c : LeftOf(after[k - 1], lots, each, q, k - 1, c)
    BY <1>5
  <2>2. after[k - 1] \in Matchings /\ k \in 0..n
    BY <1>2
  <2>3. PICK state \in Matchings : state = after[k - 1]
    BY <2>2
  <2>4. LeftOf(state, lots, each, q, k - 1, c)
    BY <2>1, <2>3
  <2>5. \E d : LeftOf(MatchLot(state, sell, lots[k]), lots, each, q, k, d)
    <3> HIDE DEF q
    <3> QED BY <1>3, <2>4, LeftNext
  <2>6. after[k] = MatchLot(state, sell, lots[k])
    BY <1>2, <2>3
  <2>7. QED BY <2>2, <2>5, <2>6
<1>6. n \in T
  <2> HIDE DEF T, n
  <2>1. \A k \in 0..n : k \in T
    BY <1>2, <1>4, <1>5, Turns
  <2>2. QED BY <1>2, <2>1
<1>7. QED BY <1>2, <1>6

\* The shares of every fee are whole: what a lot keeps of its fee is exact.
SharesAreWhole ==
    \A qty \in Quantities :
        /\ FlatFee % qty = 0
        /\ \A price \in FillPrices : ((qty * price) \div Basis) % qty = 0

PerUnit(order) == Fee(order) \div order.qty

LEMMA FeeIsWhole ==
    ASSUME SharesAreWhole, NEW order \in Orders
    PROVE  PerUnit(order) \in Nat /\ Fee(order) = order.qty * PerUnit(order)
<1> DEFINE fee == Fee(order)
           qty == order.qty
<1>1. fee \in Nat /\ qty \in Nat \ {0}
  BY OrderCosts
<1>2. fee % qty = 0
  <2>1. order.qty \in Quantities /\ order.price \in FillPrices
    BY DEF Orders
  <2>2. QED BY <2>1 DEF SharesAreWhole, Fee
<1> HIDE DEF fee, qty
<1>3. fee \div qty \in Nat /\ fee = qty * (fee \div qty)
  BY <1>1, <1>2
<1>4. QED BY <1>3 DEF fee, qty, PerUnit

LEMMA PrefixGrows ==
    ASSUME NEW lots \in Seq(LotRecords), NEW j \in 0..Len(lots), NEW i \in 0..j
    PROVE  Total(Of(lots).qty, i) <= Total(Of(lots).qty, j)
<1> DEFINE n == Len(lots)
           P(k) == Total(Of(lots).qty, k)
           T == {k \in 0..n : \A h \in 0..k : P(h) <= P(k)}
<1>1. n \in Nat /\ \A k \in 0..n : P(k) \in Int
  BY LotTotalsType
<1>2. \A k \in 1..n : P(k) = P(k - 1) + lots[k].qty /\ lots[k].qty \in Nat
  BY NextLot, LotNumbers
<1> HIDE DEF P, n
<1>3. 0 \in T
  BY <1>1
<1>4. ASSUME NEW k \in 1..n, k - 1 \in T PROVE k \in T
  <2>1. k - 1 \in 0..n /\ k \in 0..n /\ \A h \in 0..(k - 1) : P(h) <= P(k - 1)
    BY <1>1, <1>4
  <2>2. P(k - 1) <= P(k)
    BY <1>1, <1>2, <2>1
  <2>3. ASSUME NEW h \in 0..k PROVE P(h) <= P(k)
    <3>1. CASE h = k
      BY <1>1, <2>1, <3>1
    <3>2. CASE h # k
      <4>1. h \in 0..(k - 1) /\ h \in 0..n
        BY <1>1, <3>2
      <4>2. P(h) <= P(k - 1) /\ P(h) \in Int /\ P(k - 1) \in Int /\ P(k) \in Int
        BY <1>1, <2>1, <4>1
      <4>3. QED BY <2>2, <4>2
    <3>3. QED BY <3>1, <3>2
  <2>4. QED BY <2>1, <2>3
<1>5. j \in T
  <2> HIDE DEF T
  <2>1. \A k \in 0..n : k \in T
    BY <1>1, <1>3, <1>4, Turns
  <2>2. QED BY <2>1 DEF n
<1>6. QED BY <1>5 DEF P

\* After n orders the open lots are what is left of the units bought last: the
\* lots up to each of them hold what was bought by then and is not sold.
HeldLot(lots, n, i) ==
    LET buy == filled[lots[i].at]
    IN  /\ lots[i].at \in Executions("buy") /\ lots[i].at <= n
        /\ Total(Of(lots).qty, i) = Bought(lots[i].at) - Sold(n)
        /\ lots[i].qty <= buy.qty
        /\ i > 1 => lots[i].qty = buy.qty
        /\ lots[i].fee = lots[i].qty * PerUnit(buy)

HeldAt(lots, n) ==
    /\ lots \in Seq(LotRecords)
    /\ Units(lots) = Bought(n) - Sold(n)
    /\ \A i \in 1..Len(lots) : HeldLot(lots, n, i)
    /\ \A i, j \in 1..Len(lots) : i < j => lots[i].at < lots[j].at
    /\ \A at \in Executions("buy") :
            at <= n /\ Bought(at) > Sold(n) => \E i \in 1..Len(lots) : lots[i].at = at

LEMMA HeldAtFirst ==
    ASSUME filled \in Seq(Orders)
    PROVE  HeldAt(<<>>, 0)
<1>1. 0 \in 0..Len(filled)
  OBVIOUS
<1>2. Bought(0) = 0 /\ Sold(0) = 0
  BY <1>1, TableSums
<1>3. \A at \in Executions("buy") : ~(at <= 0)
  BY DEF Executions
<1>4. QED BY <1>2, <1>3, NoLots DEF HeldAt

\* An order that is not executed changes nothing.
LEMMA HeldIfIdle ==
    ASSUME filled \in Seq(Orders), NEW n \in 1..Len(filled), ~Executed(filled[n]),
           NEW lots, HeldAt(lots, n - 1)
    PROVE  HeldAt(lots, n)
<1>1. n \in Nat /\ n > 0 /\ n \in 0..Len(filled) /\ n - 1 \in 0..Len(filled)
  OBVIOUS
<1>2. BoughtBy(filled[n]) = 0 /\ SoldBy(filled[n]) = 0
  BY DEF BoughtBy, SoldBy
<1>3. Bought(n) = Bought(n - 1) /\ Sold(n) = Sold(n - 1)
  <2>1. Bought(n) = Bought(n - 1) + 0 /\ Sold(n) = Sold(n - 1) + 0
    BY <1>1, <1>2, TableSums
  <2>2. Bought(n - 1) \in Int /\ Sold(n - 1) \in Int
    BY <1>1, TableSums
  <2>3. QED BY <2>1, <2>2
<1>4. \A at \in Executions("buy") : at \in Nat /\ at # n
  BY DEF Executions
<1>5. \A at \in Executions("buy") : at <= n <=> at <= n - 1
  BY <1>1, <1>4
<1>6. \A i \in 1..Len(lots) : HeldLot(lots, n, i)
  <2>1. SUFFICES ASSUME NEW i \in 1..Len(lots) PROVE HeldLot(lots, n, i)
    OBVIOUS
  <2>2. HeldLot(lots, n - 1, i)
    BY DEF HeldAt
  <2>3. QED BY <1>3, <1>5, <2>2 DEF HeldLot
<1>7. QED BY <1>3, <1>5, <1>6 DEF HeldAt

LEMMA HeldIfBought ==
    ASSUME SharesAreWhole, filled \in Seq(Orders), NEW n \in 1..Len(filled),
           Executed(filled[n]), filled[n].side = "buy", NEW lots, HeldAt(lots, n - 1)
    PROVE  HeldAt(Append(lots, Lot(filled[n], n)), n)
<1>0. PICK order \in Orders : order = filled[n]
  OBVIOUS
<1> DEFINE lot == Lot(order, n)
           more == Append(lots, lot)
           size == Len(lots)
<1>1. n \in Nat /\ n > 0 /\ n \in 0..Len(filled) /\ n - 1 \in 0..Len(filled)
  OBVIOUS
<1>2. BoughtBy(order) = order.qty /\ SoldBy(order) = 0 /\ order.qty \in Nat \ {0}
  BY <1>0, OrderCosts DEF BoughtBy, SoldBy
<1>3. /\ Bought(n) = Bought(n - 1) + order.qty /\ Sold(n) = Sold(n - 1)
      /\ Bought(n - 1) \in Int /\ Sold(n - 1) \in Int
  BY <1>0, <1>1, <1>2, TableSums
<1>4. n \in Executions("buy") /\ \A at \in Executions("buy") : at \in Nat
  BY <1>1 DEF Executions
<1>5. /\ lots \in Seq(LotRecords) /\ Units(lots) = Bought(n - 1) - Sold(n - 1)
      /\ \A i \in 1..size : HeldLot(lots, n - 1, i)
      /\ \A i, j \in 1..size : i < j => lots[i].at < lots[j].at
      /\ \A at \in Executions("buy") :
            at <= n - 1 /\ Bought(at) > Sold(n - 1) => \E i \in 1..size : lots[i].at = at
  BY DEF HeldAt
<1>6. /\ lot \in LotRecords /\ lot.at = n /\ lot.qty = order.qty /\ lot.fee = Fee(order)
  BY <1>1, LotIsRecord DEF Lot
<1> HIDE DEF lot
<1>7. /\ more \in Seq(LotRecords) /\ size \in Nat /\ Len(more) = size + 1 /\ more[size + 1] = lot
      /\ \A i \in 1..size : more[i] = lots[i]
  BY <1>5, <1>6
<1>8. Units(more) = Units(lots) + order.qty
  BY <1>5, <1>6, AppendLot
<1> HIDE DEF more, size
<1>9. ASSUME NEW i \in 1..size PROVE Total(Of(more).qty, i) = Total(Of(lots).qty, i)
  <2>1. ASSUME NEW h \in 1..i PROVE Of(lots).qty[h] \in Int /\ Of(more).qty[h] = Of(lots).qty[h]
    <3>1. h \in 1..Len(lots) /\ h \in 1..Len(more) /\ more[h] = lots[h]
      BY <1>7 DEF size
    <3>2. Of(lots).qty[h] = lots[h].qty /\ lots[h].qty \in Nat
      BY <1>5, <3>1, LotNumbers
    <3>3. Of(more).qty[h] = more[h].qty
      BY <1>7, <3>1, LotNumbers
    <3>4. QED BY <3>1, <3>2, <3>3
  <2>2. i \in Nat
    BY <1>7
  <2>3. QED BY <2>1, <2>2, TotalsAgree
<1>10. ASSUME NEW i \in 1..Len(more) PROVE HeldLot(more, n, i) /\ (i <= size => more[i].at < n)
  <2>1. CASE i = size + 1
    <3>1. Total(Of(more).qty, i) = Units(more)
      BY <1>7, <2>1, LotTotals
    <3>2. Total(Of(more).qty, i) = Bought(n) - Sold(n)
      <4>1. /\ Total(Of(more).qty, i) = (Bought(n - 1) - Sold(n - 1)) + order.qty
            /\ Bought(n) = Bought(n - 1) + order.qty /\ Sold(n) = Sold(n - 1)
        BY <1>3, <1>5, <1>8, <3>1
      <4>2. Bought(n - 1) \in Int /\ Sold(n - 1) \in Int /\ order.qty \in Int
        BY <1>2, <1>3
      <4>3. QED BY <4>1, <4>2
    <3>3. more[i] = lot /\ filled[lot.at] = order
      BY <1>0, <1>6, <1>7, <2>1
    <3>4. lot.fee = lot.qty * PerUnit(order)
      BY <1>6, FeeIsWhole
    <3>5. ~(i <= size)
      BY <1>7, <2>1
    <3>6. lot.at <= n /\ lot.qty <= order.qty
      BY <1>1, <1>2, <1>6
    <3>7. QED BY <1>4, <1>6, <3>2, <3>3, <3>4, <3>5, <3>6 DEF HeldLot
  <2>2. CASE i # size + 1
    <3>1. i \in 1..size /\ more[i] = lots[i] /\ Total(Of(more).qty, i) = Total(Of(lots).qty, i)
      BY <1>7, <1>9, <2>2
    <3>2. HeldLot(lots, n - 1, i)
      BY <1>5, <3>1
    <3>3. lots[i].at \in Executions("buy") /\ lots[i].at <= n - 1
      BY <3>2 DEF HeldLot
    <3>4. lots[i].at <= n /\ lots[i].at < n
      <4>1. PICK at : at = lots[i].at
        OBVIOUS
      <4>2. at \in Nat /\ at <= n - 1
        BY <1>4, <3>3, <4>1
      <4>3. at <= n /\ at < n
        BY <1>1, <4>2
      <4>4. QED BY <4>1, <4>3
    <3>5. QED BY <1>3, <3>1, <3>2, <3>4 DEF HeldLot
  <2>3. QED BY <2>1, <2>2
<1>11. ASSUME NEW i \in 1..Len(more), NEW j \in 1..Len(more), i < j PROVE more[i].at < more[j].at
  <2>1. i \in 1..size /\ more[i] = lots[i]
    BY <1>7, <1>11
  <2>2. CASE j = size + 1
    <3>1. more[j].at = n /\ more[i].at < n
      BY <1>6, <1>7, <1>10, <2>1, <2>2
    <3>2. QED BY <3>1
  <2>3. CASE j # size + 1
    <3>1. j \in 1..size /\ more[j] = lots[j]
      BY <1>7, <2>3
    <3>2. QED BY <1>5, <1>11, <2>1, <3>1
  <2>4. QED BY <2>2, <2>3
<1>12. ASSUME NEW at \in Executions("buy"), at <= n, Bought(at) > Sold(n)
       PROVE  \E i \in 1..Len(more) : more[i].at = at
  <2>1. CASE at = n
    <3>1. size + 1 \in 1..Len(more) /\ more[size + 1].at = n
      BY <1>6, <1>7
    <3>2. QED BY <2>1, <3>1
  <2>2. CASE at # n
    <3>1. at <= n - 1
      BY <1>1, <1>4, <1>12, <2>2
    <3>2. PICK i \in 1..size : lots[i].at = at
      BY <1>3, <1>5, <1>12, <3>1
    <3>3. i \in 1..Len(more) /\ more[i] = lots[i]
      BY <1>7
    <3>4. QED BY <3>2, <3>3
  <2>3. QED BY <2>1, <2>2
<1>13. Units(more) = Bought(n) - Sold(n)
  BY <1>2, <1>3, <1>5, <1>8
<1>14. HeldAt(more, n)
  BY <1>7, <1>10, <1>11, <1>12, <1>13 DEF HeldAt
<1>15. QED BY <1>0, <1>14 DEF more, lot

LEMMA HeldIfSold ==
    ASSUME SharesAreWhole, Covered, filled \in Seq(Orders), NEW n \in 1..Len(filled),
           Executed(filled[n]), filled[n].side = "sell", NEW lots, HeldAt(lots, n - 1)
    PROVE  HeldAt(Match(filled[n], lots).open, n)
<1>0. PICK order \in Orders : order = filled[n]
  OBVIOUS
<1> DEFINE next == Match(order, lots).open
           q == order.qty
           each == [i \in 1..Len(lots) |-> PerUnit(filled[lots[i].at])]
           P(i) == Total(Of(lots).qty, i)
<1>1. n \in Nat /\ n > 0 /\ n \in 0..Len(filled) /\ n - 1 \in 0..Len(filled)
  OBVIOUS
<1>2. BoughtBy(order) = 0 /\ SoldBy(order) = q /\ q \in Nat \ {0}
  BY <1>0, OrderCosts DEF BoughtBy, SoldBy
<1>3. /\ Bought(n) = Bought(n - 1) /\ Sold(n) = Sold(n - 1) + q
      /\ Bought(n - 1) \in Int /\ Sold(n - 1) \in Int
  <2>1. /\ Bought(n) = Bought(n - 1) + 0 /\ Sold(n) = Sold(n - 1) + q
    BY <1>0, <1>1, <1>2, TableSums
  <2>2. Bought(n - 1) \in Int /\ Sold(n - 1) \in Int
    BY <1>1, TableSums
  <2>3. QED BY <2>1, <2>2
<1>4. /\ lots \in Seq(LotRecords) /\ Units(lots) = Bought(n - 1) - Sold(n - 1)
      /\ \A i \in 1..Len(lots) : HeldLot(lots, n - 1, i)
      /\ \A i, j \in 1..Len(lots) : i < j => lots[i].at < lots[j].at
      /\ \A at \in Executions("buy") :
            at <= n - 1 /\ Bought(at) > Sold(n - 1) => \E i \in 1..Len(lots) : lots[i].at = at
  BY DEF HeldAt
\* An order that is both is neither.
<1>5. \A at \in Executions("buy") : at \in 1..Len(filled) /\ (at <= n => at <= n - 1) /\ Bought(at) \in Int
  <2>1. SUFFICES ASSUME NEW at \in Executions("buy")
                 PROVE  at \in 1..Len(filled) /\ (at <= n => at <= n - 1) /\ Bought(at) \in Int
    OBVIOUS
  <2>2. at \in 1..Len(filled) /\ at \in 0..Len(filled) /\ at # n
    BY DEF Executions
  <2>3. QED BY <1>1, <2>2, TableSums
<1>6. q <= Units(lots)
  <2>1. n \in Executions("sell")
    BY <1>1 DEF Executions
  <2>2. Sold(n) <= Bought(n)
    BY <2>1 DEF Covered
  <2>3. Sold(n - 1) + q <= Bought(n - 1)
    BY <1>3, <2>2
  <2>4. QED BY <1>2, <1>3, <1>4, <2>3
<1>7. each \in [1..Len(lots) -> Nat] /\ \A i \in 1..Len(lots) : lots[i].fee = lots[i].qty * each[i]
  <2>1. ASSUME NEW i \in 1..Len(lots)
        PROVE  PerUnit(filled[lots[i].at]) \in Nat /\ lots[i].fee = lots[i].qty * PerUnit(filled[lots[i].at])
    <3>1. HeldLot(lots, n - 1, i)
      BY <1>4
    <3>2. lots[i].at \in 1..Len(filled)
      BY <1>5, <3>1 DEF HeldLot
    <3>3. PICK buy \in Orders : buy = filled[lots[i].at]
      BY <3>2
    <3>4. PerUnit(buy) \in Nat
      BY FeeIsWhole
    <3>5. QED BY <3>1, <3>3, <3>4 DEF HeldLot
  <2>2. QED BY <2>1
<1>8. PICK c : LeftOf(Match(order, lots), lots, each, q, Len(lots), c)
  <2> HIDE DEF each
  <2> QED BY <1>4, <1>7, LeftAfter
<1> DEFINE size == Len(lots)
           rest == size - c
<1>9. /\ c \in 0..size /\ Len(next) = rest /\ P(c) <= q
      /\ \A j \in 1..rest : /\ next[j].at = lots[c + j].at
                            /\ next[j].fee = next[j].qty * each[c + j]
                            /\ j > 1 => next[j].qty = lots[c + j].qty
      /\ c < size => next[1].qty = P(c + 1) - q
  BY <1>8 DEF LeftOf
<1>10. next \in Seq(LotRecords) /\ Units(next) = Bought(n) - Sold(n)
  <2>1. /\ Match(order, lots) \in Matchings
        /\ Match(order, lots).sums.qty = q
        /\ Units(next) + Match(order, lots).sums.qty = Units(lots)
    BY <1>4, <1>6, Matched
  <2>2. next \in Seq(LotRecords)
    BY <2>1 DEF Matchings
  <2> HIDE DEF next
  <2>3. Units(next) \in Int /\ Units(next) + q = Bought(n - 1) - Sold(n - 1)
    BY <1>4, <2>1, <2>2, LotTotalsAll
  <2> DEFINE u == Units(next)
  <2>4. /\ u \in Int /\ q \in Nat /\ u + q = Bought(n - 1) - Sold(n - 1)
        /\ Bought(n) = Bought(n - 1) /\ Sold(n) = Sold(n - 1) + q
        /\ Bought(n - 1) \in Int /\ Sold(n - 1) \in Int
    BY <1>2, <1>3, <2>3
  <2> HIDE DEF u, q
  <2>5. u = Bought(n) - Sold(n)
    BY <2>4
  <2>6. QED BY <2>2, <2>5 DEF u
<1>11. size \in Nat /\ rest \in Nat /\ c \in Nat /\ c <= size /\ c + rest = size
  <2>1. size \in Nat
    BY <1>4
  <2> HIDE DEF size
  <2>2. c \in 0..size
    BY <1>9
  <2>3. QED BY <2>1, <2>2
<1>12. \A i \in 0..size : P(i) \in Int
  BY <1>4, LotTotalsType
<1>13. \A i \in 1..size : /\ P(i) = P(i - 1) + lots[i].qty /\ lots[i].qty \in Nat
                          /\ P(i) = Bought(lots[i].at) - Sold(n - 1)
  BY <1>4, NextLot, LotNumbers DEF HeldLot
<1> DEFINE P1(j) == Total(Of(next).qty, j)
<1>14. P1(0) = 0 /\ \A j \in 1..rest : P1(j) = P1(j - 1) + next[j].qty /\ next[j].qty \in Nat
  BY <1>9, <1>10, NextLot, LotNumbers, TotalNone
<1>a. q \in Nat
  BY <1>2
<1> HIDE DEF next, each, P, P1, size, rest, q
\* The lots up to each of those left hold what they held, less what was sold.
<1>15. \A j \in 0..rest : j > 0 => P1(j) = P(c + j) - q
  <2> DEFINE T == {j \in 0..rest : j > 0 => P1(j) = P(c + j) - q}
  <2>1. 0 \in T
    BY <1>11
  <2>2. ASSUME NEW j \in 1..rest, j - 1 \in T PROVE j \in T
    <3>1. /\ j \in 0..rest /\ j > 0 /\ j \in Nat /\ c + j \in 1..size /\ c + j \in 0..size
          /\ (c + j) - 1 = c + (j - 1) /\ c + (j - 1) \in 0..size
      BY <1>11
    <3>2. CASE j = 1
      <4>1. c < size /\ c + 1 = c + j
        BY <1>11, <3>1, <3>2
      <4>2. next[1].qty = P(c + j) - q /\ P1(1) = P1(0) + next[1].qty
        BY <1>9, <1>14, <3>2, <4>1
      <4>3. P1(1) = P(c + j) - q
        BY <1>a, <1>12, <1>14, <3>1, <4>2
      <4>4. QED BY <3>1, <3>2, <4>3
    <3>3. CASE j # 1
      <4>1. j - 1 > 0 /\ j > 1
        BY <3>1, <3>3
      <4>2. P1(j - 1) = P(c + (j - 1)) - q
        BY <2>2, <4>1
      <4>3. /\ P1(j) = P1(j - 1) + next[j].qty /\ next[j].qty = lots[c + j].qty
            /\ P(c + j) = P(c + (j - 1)) + lots[c + j].qty /\ lots[c + j].qty \in Nat
        BY <1>9, <1>13, <1>14, <3>1, <4>1
      <4>4. P(c + (j - 1)) \in Int
        BY <1>12, <3>1
      <4> DEFINE before == P(c + (j - 1))
                 more == lots[c + j].qty
      <4>5. before \in Int /\ more \in Nat /\ P1(j) = (before - q) + more /\ P(c + j) = before + more
        BY <4>2, <4>3, <4>4
      <4> HIDE DEF before, more
      <4>6. P1(j) = P(c + j) - q
        BY <1>a, <4>5
      <4>7. QED BY <3>1, <4>6
    <3>4. QED BY <3>2, <3>3
  <2>3. \A j \in 0..rest : j \in T
    <3> HIDE DEF T
    <3> QED BY <1>11, <2>1, <2>2, Turns
  <2>4. QED BY <2>3
<1>16. ASSUME NEW j \in 1..Len(next) PROVE HeldLot(next, n, j)
  <2>1. PICK i : i = c + j
    OBVIOUS
  <2>2. /\ j \in 1..rest /\ j \in 0..rest /\ j > 0 /\ i \in 1..size /\ i \in 0..size /\ c + j = i
    BY <1>9, <1>11, <2>1
  <2>3. /\ next[j].at = lots[i].at /\ next[j].fee = next[j].qty * each[i]
        /\ j > 1 => next[j].qty = lots[i].qty
    BY <1>9, <2>2
  <2>4. /\ lots[i].at \in Executions("buy") /\ lots[i].at <= n - 1
        /\ lots[i].qty <= filled[lots[i].at].qty
        /\ i > 1 => lots[i].qty = filled[lots[i].at].qty
    BY <1>4, <2>2 DEF HeldLot, size
  <2>5. each[i] = PerUnit(filled[lots[i].at])
    BY <2>2 DEF each, size
  <2>6. PICK at \in Nat : at = lots[i].at
    BY <1>5, <2>4
  <2>7. at <= n /\ at \in 0..Len(filled)
    BY <1>1, <1>5, <2>4, <2>6
  <2>8. P1(j) = Bought(at) - Sold(n)
    <3>1. P1(j) = P(i) - q /\ P(i) = Bought(at) - Sold(n - 1) /\ Bought(at) \in Int
      BY <1>5, <1>13, <1>15, <2>2, <2>4, <2>6
    <3>2. QED BY <1>a, <1>3, <3>1
  <2>9. next[j].qty <= lots[i].qty
    <3>1. CASE j = 1
      <4>1. c < size /\ i = c + 1 /\ i - 1 = c /\ c \in 0..size
        BY <1>11, <2>1, <2>2, <3>1
      <4>2. next[j].qty = P(i) - q /\ P(i) = P(c) + lots[i].qty /\ P(c) <= q /\ P(c) \in Int /\ lots[i].qty \in Nat
        BY <1>9, <1>12, <1>13, <2>2, <3>1, <4>1
      <4> DEFINE have == lots[i].qty
      <4>3. next[j].qty = (P(c) + have) - q /\ have \in Nat
        BY <4>2
      <4> HIDE DEF have
      <4>4. next[j].qty <= have
        BY <1>a, <4>2, <4>3
      <4>5. QED BY <4>4 DEF have
    <3>2. CASE j # 1
      <4>1. next[j].qty = lots[i].qty /\ lots[i].qty \in Nat
        BY <1>13, <2>2, <2>3, <3>2
      <4>2. QED BY <4>1
    <3>3. QED BY <3>1, <3>2
  <2>10. next[j].qty <= filled[lots[i].at].qty
    <3>1. PICK buy \in Orders : buy = filled[lots[i].at]
      BY <2>6, <2>7, <1>5, <2>4
    <3>2. buy.qty \in Nat /\ lots[i].qty \in Nat /\ next[j].qty \in Nat /\ lots[i].qty <= buy.qty
      BY <1>13, <1>14, <2>2, <2>4, <3>1, OrderCosts
    <3>3. QED BY <2>9, <3>1, <3>2
  <2>11. j > 1 => next[j].qty = filled[lots[i].at].qty
    BY <1>11, <2>1, <2>2, <2>3, <2>4
  <2>12. QED BY <2>3, <2>4, <2>5, <2>6, <2>7, <2>8, <2>10, <2>11 DEF HeldLot, P1
<1>17. ASSUME NEW i \in 1..Len(next), NEW j \in 1..Len(next), i < j PROVE next[i].at < next[j].at
  <2>1. i \in 1..rest /\ j \in 1..rest
    BY <1>9
  <2>2. c + i \in 1..size /\ c + j \in 1..size /\ c + i < c + j
    BY <1>11, <1>17, <2>1
  <2>3. lots[c + i].at < lots[c + j].at
    BY <1>4, <2>2 DEF size
  <2>4. QED BY <1>9, <2>1, <2>3
<1>18. ASSUME NEW at \in Executions("buy"), at <= n, Bought(at) > Sold(n)
       PROVE  \E j \in 1..Len(next) : next[j].at = at
  <2>1. Bought(at) \in Int /\ at <= n - 1
    BY <1>5, <1>18
  <2>2. Bought(at) > Sold(n - 1) /\ Bought(at) - Sold(n - 1) > q
    BY <1>a, <1>3, <1>18, <2>1
  <2>3. PICK i \in 1..size : lots[i].at = at
    BY <1>4, <2>1, <2>2 DEF size
  <2>4. P(i) > q /\ P(i) \in Int /\ i \in 0..size /\ i \in Nat
    BY <1>11, <1>12, <1>13, <2>2, <2>3
  <2>5. c < i
    <3>1. SUFFICES ASSUME i <= c PROVE FALSE
      BY <1>11, <2>4
    <3>2. i \in 0..c /\ c \in 0..Len(lots)
      BY <1>11, <2>4, <3>1 DEF size
    <3>3. P(i) <= P(c)
      BY <1>4, <3>2, PrefixGrows DEF P
    <3>4. P(c) \in Int /\ P(c) <= q
      BY <1>9, <1>12
    <3>5. QED BY <1>a, <2>4, <3>3, <3>4
  <2>6. i - c \in 1..rest /\ c + (i - c) = i
    BY <1>11, <2>3, <2>4, <2>5
  <2>7. next[i - c].at = at /\ i - c \in 1..Len(next)
    BY <1>9, <2>3, <2>6
  <2>8. QED BY <2>7
<1>19. HeldAt(next, n)
  BY <1>10, <1>16, <1>17, <1>18 DEF HeldAt
<1>20. QED BY <1>0, <1>19 DEF next

LEMMA HeldAlways ==
    ASSUME SharesAreWhole, Covered, filled \in Seq(Orders), NEW n \in 0..Len(filled)
    PROVE  HeldAt(OpenLots(n), n)
<1> DEFINE T == {k \in 0..Len(filled) : HeldAt(OpenLots(k), k)}
<1>1. Len(filled) \in Nat
  OBVIOUS
<1>2. 0 \in T
  <2>1. 0 \in 0..Len(filled)
    BY <1>1
  <2>2. OpenLots(0) = <<>>
    BY <2>1, OpenNext
  <2>3. QED BY <2>1, <2>2, HeldAtFirst
<1>3. ASSUME NEW k \in 1..Len(filled), k - 1 \in T PROVE k \in T
  <2>1. k \in 0..Len(filled) /\ k > 0
    OBVIOUS
  <2> DEFINE lots == OpenLots(k - 1)
  <2>2. HeldAt(lots, k - 1)
    BY <1>3
  <2>3. OpenLots(k) = Processed(lots, filled[k], k)
    BY <2>1, OpenNext
  <2> HIDE DEF lots
  <2>4. CASE ~Executed(filled[k])
    <3>1. Processed(lots, filled[k], k) = lots
      BY <2>4 DEF Processed
    <3>2. HeldAt(lots, k)
      BY <2>2, <2>4, HeldIfIdle
    <3>3. QED BY <2>1, <2>3, <3>1, <3>2
  <2>5. CASE Executed(filled[k]) /\ filled[k].side = "buy"
    <3>1. Processed(lots, filled[k], k) = Append(lots, Lot(filled[k], k))
      BY <2>5 DEF Processed
    <3>2. HeldAt(Append(lots, Lot(filled[k], k)), k)
      BY <2>2, <2>5, HeldIfBought
    <3>3. QED BY <2>1, <2>3, <3>1, <3>2
  <2>6. CASE Executed(filled[k]) /\ filled[k].side # "buy"
    <3>1. filled[k].side = "sell"
      <4>1. filled[k] \in Orders
        OBVIOUS
      <4>2. QED BY <2>6, <4>1 DEF Orders
    <3>2. Processed(lots, filled[k], k) = Match(filled[k], lots).open
      BY <2>6 DEF Processed
    <3>3. HeldAt(Match(filled[k], lots).open, k)
      BY <2>2, <2>6, <3>1, HeldIfSold
    <3>4. QED BY <2>1, <2>3, <3>2, <3>3
  <2>7. QED BY <2>4, <2>5, <2>6
<1>4. n \in T
  <2> HIDE DEF T
  <2>1. \A k \in 0..Len(filled) : k \in T
    BY <1>1, <1>2, <1>3, Turns
  <2>2. QED BY <2>1
<1>5. QED BY <1>4

LEMMA UnsoldIs ==
    ASSUME NEW at, filled[at].qty \in Nat, Bought(at) - Sold(Len(filled)) \in Int
    PROVE  Unsold(at) = LET left == Bought(at) - Sold(Len(filled))
                        IN  IF left <= 0 THEN 0
                            ELSE IF filled[at].qty <= left THEN filled[at].qty ELSE left
<1> DEFINE left == Bought(at) - Sold(Len(filled))
           qty == filled[at].qty
           least == Min({qty, left})
<1>1. left \in Int /\ qty \in Int /\ qty >= 0
  OBVIOUS
<1>2. Unsold(at) = Max({0, least})
  BY DEF Unsold
<1> HIDE DEF left, qty
<1>3. least = IF qty <= left THEN qty ELSE left
  BY <1>1, MaxOfTwo
<1> HIDE DEF least
<1>4. least \in Int
  BY <1>1, <1>3
<1>5. Max({0, least}) = IF 0 >= least THEN 0 ELSE least
  <2>1. 0 \in Int
    OBVIOUS
  <2>2. QED BY <1>4, <2>1, MaxOfTwo
<1>6. Unsold(at) = IF left <= 0 THEN 0 ELSE IF qty <= left THEN qty ELSE left
  BY <1>1, <1>2, <1>3, <1>5
<1>7. QED BY <1>6 DEF left, qty

LEMMA LotsFollow ==
    ASSUME SharesAreWhole, filled \in Seq(Orders)
    PROVE  LastBoughtIsHeld
<1> SUFFICES ASSUME Covered
             PROVE  LET lots == OpenLots(Len(filled))
                    IN  /\ \A at \in Executions("buy") :
                                Unsold(at) > 0 => \E i \in DOMAIN lots : lots[i].at = at
                        /\ \A i \in DOMAIN lots :
                                LET buy == filled[lots[i].at]
                                IN  /\ lots[i].at \in Executions("buy")
                                    /\ lots[i].qty = Unsold(lots[i].at)
                                    /\ lots[i].fee * buy.qty = Fee(buy) * lots[i].qty
                        /\ \A i, j \in DOMAIN lots : i < j => lots[i].at < lots[j].at
  BY DEF LastBoughtIsHeld
<1>1. PICK n \in Nat : n = Len(filled)
  OBVIOUS
<1>2. n \in 0..Len(filled)
  BY <1>1
<1>3. PICK lots : lots = OpenLots(n)
  OBVIOUS
<1>4. HeldAt(lots, n)
  BY <1>2, <1>3, HeldAlways
<1>5. lots \in Seq(LotRecords) /\ DOMAIN lots = 1..Len(lots) /\ Sold(n) \in Int
  BY <1>2, <1>4, TableSums DEF HeldAt
<1>6. ASSUME NEW at \in Executions("buy")
      PROVE  /\ at \in 1..n /\ at <= n /\ filled[at] \in Orders /\ filled[at].qty \in Nat /\ Bought(at) \in Int
             /\ Unsold(at) = IF Bought(at) - Sold(n) <= 0 THEN 0
                             ELSE IF filled[at].qty <= Bought(at) - Sold(n) THEN filled[at].qty
                             ELSE Bought(at) - Sold(n)
  <2>1. at \in 1..n /\ at <= n /\ at \in 0..Len(filled) /\ filled[at] \in Orders
    BY <1>1 DEF Executions
  <2>2. filled[at].qty \in Nat
    BY <2>1, OrderCosts
  <2>3. Bought(at) \in Int
    BY <2>1, TableSums
  <2>4. Bought(at) - Sold(n) \in Int
    BY <1>5, <2>3
  <2>5. QED BY <1>1, <2>1, <2>2, <2>3, <2>4, UnsoldIs
<1>7. ASSUME NEW at \in Executions("buy"), Unsold(at) > 0
      PROVE  \E i \in DOMAIN lots : lots[i].at = at
  <2>1. ~(Bought(at) - Sold(n) <= 0)
    BY <1>6, <1>7
  <2>2. Bought(at) > Sold(n)
    BY <1>5, <1>6, <2>1
  <2>3. QED BY <1>4, <1>5, <1>6, <2>2 DEF HeldAt
<1>8. ASSUME NEW i \in DOMAIN lots
      PROVE  LET buy == filled[lots[i].at]
             IN  /\ lots[i].at \in Executions("buy")
                 /\ lots[i].qty = Unsold(lots[i].at)
                 /\ lots[i].fee * buy.qty = Fee(buy) * lots[i].qty
  <2>1. i \in 1..Len(lots) /\ HeldLot(lots, n, i)
    BY <1>4, <1>5 DEF HeldAt
  <2>2. PICK at \in Executions("buy") : at = lots[i].at
    BY <2>1 DEF HeldLot
  <2>3. PICK buy \in Orders : buy = filled[at]
    BY <1>6
  <2> DEFINE P(k) == Total(Of(lots).qty, k)
             left == Bought(at) - Sold(n)
             each == PerUnit(buy)
             qty == lots[i].qty
             all == buy.qty
  <2>4. /\ P(i) = left /\ qty <= all /\ (i > 1 => qty = all) /\ lots[i].fee = qty * each
    BY <2>1, <2>2, <2>3 DEF HeldLot
  <2>5. /\ P(i) = P(i - 1) + qty /\ P(i - 1) \in Int /\ P(0) = 0 /\ qty \in Nat \ {0} /\ all \in Nat
        /\ left \in Int /\ each \in Nat /\ Fee(buy) = all * each
    <3>1. P(i) = P(i - 1) + qty
      BY <1>5, <2>1, NextLot
    <3>2. P(i - 1) \in Int
      <4>1. i - 1 \in 0..Len(lots)
        BY <1>5, <2>1
      <4>2. QED BY <1>5, <4>1, LotTotalsType
    <3>3. P(0) = 0
      BY TotalNone
    <3>4. qty \in Nat \ {0}
      BY <1>5, <2>1, LotNumbers
    <3>5. all \in Nat /\ each \in Nat /\ Fee(buy) = all * each
      BY FeeIsWhole, OrderCosts
    <3>6. left \in Int
      BY <1>5, <1>6
    <3>7. QED BY <3>1, <3>2, <3>3, <3>4, <3>5, <3>6
  <2>6. P(i - 1) >= 0
    <3>1. 0 \in 0..(i - 1) /\ i - 1 \in 0..Len(lots)
      BY <1>5, <2>1
    <3>2. P(0) <= P(i - 1)
      BY <1>5, <3>1, PrefixGrows
    <3>3. QED BY <2>5, <3>2
  <2>7. Unsold(at) = IF left <= 0 THEN 0 ELSE IF all <= left THEN all ELSE left
    BY <1>6, <2>3
  <2>8. i = 1 \/ i > 1
    BY <1>5, <2>1
  <2> HIDE DEF P, left, each, qty, all
  <2>9. qty = Unsold(at)
    <3>1. CASE i = 1
      <4>1. left = qty
        BY <2>4, <2>5, <3>1
      <4>2. QED BY <2>4, <2>5, <2>7, <4>1
    <3>2. CASE i > 1
      <4>1. qty = all /\ left = P(i - 1) + qty
        BY <2>4, <2>5, <3>2
      <4>2. QED BY <2>5, <2>6, <2>7, <4>1
    <3>3. QED BY <2>8, <3>1, <3>2
  <2>10. (qty * each) * all = (all * each) * qty
    BY <2>5
  <2>11. lots[i].fee * all = Fee(buy) * qty
    BY <2>4, <2>5, <2>10
  <2>12. QED BY <2>2, <2>3, <2>9, <2>11 DEF qty, all
<1>9. \A i, j \in DOMAIN lots : i < j => lots[i].at < lots[j].at
  BY <1>4, <1>5 DEF HeldAt
<1>10. QED BY <1>1, <1>3, <1>7, <1>8, <1>9

\* Whatever is filled, in whatever sizes: while no more is sold than was
\* bought, the lots that trade_accounting.py leaves open are what is left of
\* the units bought last, each with its share of the fee of its buy.  A fee is
\* a real number in the code and an integer here, so its shares must be whole.
THEOREM LotsTheorem == SharesAreWhole => (AccountSpec => []LastBoughtIsHeld)
<1> SUFFICES ASSUME SharesAreWhole PROVE AccountSpec => []LastBoughtIsHeld
  OBVIOUS
<1>1. BooksInv => LastBoughtIsHeld
  BY LotsFollow DEF BooksInv, RowsInOrder
<1>2. ASSUME BooksInv, [AccountNext]_accountVars PROVE BooksInv'
  BY <1>2, BooksInvNext
<1>3. QED BY <1>1, <1>2, BooksInvFirst, PTL DEF AccountSpec

(***************************************************************************)
(* The sweep of parameters                                                 *)
(***************************************************************************)

LEMMA TotalAdds ==
    ASSUME NEW n \in Nat, NEW f, NEW g, NEW h,
           \A k \in 1..n : f[k] \in Int /\ g[k] \in Int /\ h[k] = f[k] + g[k]
    PROVE  Total(h, n) = Total(f, n) + Total(g, n)
<1>0. \A k \in 1..n : h[k] \in Int
  OBVIOUS
<1>1. PICK s \in [0..n -> Int] :
        /\ s[0] = 0 /\ \A k \in 1..n : s[k] = s[k - 1] + f[k]
        /\ Total(f, n) = s[n]
  BY TotalRuns
<1>2. PICK t \in [0..n -> Int] :
        /\ t[0] = 0 /\ \A k \in 1..n : t[k] = t[k - 1] + g[k]
        /\ Total(g, n) = t[n]
  BY TotalRuns
<1>3. PICK u \in [0..n -> Int] :
        /\ u[0] = 0 /\ \A k \in 1..n : u[k] = u[k - 1] + h[k]
        /\ Total(h, n) = u[n]
  BY <1>0, TotalRuns
<1> DEFINE T == {k \in 0..n : u[k] = s[k] + t[k]}
<1>6. 0 \in T
  BY <1>1, <1>2, <1>3
<1>4. ASSUME NEW k \in 1..n, k - 1 \in T PROVE k \in T
  <2>1. s[k] = s[k - 1] + f[k] /\ t[k] = t[k - 1] + g[k] /\ u[k] = u[k - 1] + h[k]
    BY <1>1, <1>2, <1>3
  <2>2. h[k] = f[k] + g[k] /\ f[k] \in Int /\ g[k] \in Int
    OBVIOUS
  <2>3. k - 1 \in 0..n /\ k \in 0..n
    OBVIOUS
  <2>4. u[k - 1] = s[k - 1] + t[k - 1] /\ s[k - 1] \in Int /\ t[k - 1] \in Int
    BY <1>4, <2>3
  <2>5. u[k] = s[k] + t[k]
    <3>1. PICK a \in Int, b \in Int, x \in Int, y \in Int :
            a = s[k - 1] /\ b = t[k - 1] /\ x = f[k] /\ y = g[k]
      BY <2>2, <2>4
    <3>2. u[k] = (a + b) + (x + y) /\ s[k] = a + x /\ t[k] = b + y
      BY <2>1, <2>2, <2>4, <3>1, Zenon
    <3>3. (a + b) + (x + y) = (a + x) + (b + y)
      OBVIOUS
    <3>4. QED BY <3>2, <3>3, Zenon
  <2>6. QED BY <2>3, <2>5
<1>5. n \in T
  <2> HIDE DEF T
  <2>1. \A k \in 0..n : k \in T
    BY <1>4, <1>6, Turns
  <2>2. QED BY <2>1
<1>7. QED BY <1>1, <1>2, <1>3, <1>5

\* Without a gain there is none in the sum.
LEMMA TotalOfLosses ==
    ASSUME NEW n \in Nat, NEW f, \A k \in 1..n : f[k] \in Int /\ f[k] <= 0
    PROVE  Total(f, n) <= 0
<1>1. PICK s \in [0..n -> Int] :
        /\ s[0] = 0 /\ \A k \in 1..n : s[k] = s[k - 1] + f[k]
        /\ Total(f, n) = s[n]
  BY TotalRuns
<1> DEFINE T == {k \in 0..n : s[k] <= 0}
<1>2. 0 \in T
  BY <1>1
<1>4. ASSUME NEW k \in 1..n, k - 1 \in T PROVE k \in T
  <2>1. s[k] = s[k - 1] + f[k] /\ f[k] \in Int /\ f[k] <= 0
    BY <1>1
  <2>2. k - 1 \in 0..n /\ k \in 0..n /\ s[k - 1] <= 0 /\ s[k - 1] \in Int
    BY <1>4
  <2>3. QED BY <2>1, <2>2
<1>3. n \in T
  <2> HIDE DEF T
  <2>1. \A k \in 0..n : k \in T
    BY <1>2, <1>4, Turns
  <2>2. QED BY <2>1
<1>5. QED BY <1>1, <1>3

\* A sum to which one number alone contributes, or none.
LEMMA TotalOfOne ==
    ASSUME NEW n \in Nat, NEW f, NEW at \in Nat, NEW x \in Int,
           \A k \in 1..n : f[k] = IF k = at THEN x ELSE 0
    PROVE  Total(f, n) = IF at \in 1..n THEN x ELSE 0
<1>0. \A k \in 1..n : f[k] \in Int
  OBVIOUS
<1>1. PICK s \in [0..n -> Int] :
        /\ s[0] = 0 /\ \A k \in 1..n : s[k] = s[k - 1] + f[k]
        /\ Total(f, n) = s[n]
  BY <1>0, TotalRuns
<1> DEFINE T == {k \in 0..n : s[k] = IF at \in 1..k THEN x ELSE 0}
<1>2. 0 \in T
  BY <1>1
<1>3. ASSUME NEW k \in 1..n, k - 1 \in T PROVE k \in T
  <2>1. s[k] = s[k - 1] + f[k] /\ s[k - 1] = IF at \in 1..(k - 1) THEN x ELSE 0
    BY <1>1, <1>3
  <2>2. CASE k = at
    BY <2>1, <2>2
  <2>3. CASE k # at
    BY <2>1, <2>3
  <2>4. QED BY <2>2, <2>3
<1>4. n \in T
  <2> HIDE DEF T
  <2>1. \A k \in 0..n : k \in T
    BY <1>2, <1>3, Turns
  <2>2. QED BY <2>1
<1>5. QED BY <1>1, <1>4

SweepTrades == [split : Nat \ {0}, net : Int]

\* The returns of the splits add up to those of all trades.
LEMMA SplitsAddUp ==
    ASSUME NEW trades \in Seq(SweepTrades), NEW splits \in Nat, TradedWithin(trades, splits)
    PROVE  /\ SplitReturns(trades, splits) \in Seq(Int) /\ Len(SplitReturns(trades, splits)) = splits
           /\ Returns(trades) \in Seq(Int) /\ Len(Returns(trades)) = Len(trades)
           /\ Sum(SplitReturns(trades, splits)) = Sum(Returns(trades))
<1> DEFINE size == Len(trades)
           of == [m \in 0..splits |->
                    [i \in 1..size |-> IF trades[i].split = m THEN trades[i].net ELSE 0]]
           within == [m \in 0..splits |->
                    [i \in 1..size |-> IF trades[i].split <= m THEN trades[i].net ELSE 0]]
           all == [i \in 1..size |-> trades[i].net]
           parts == SplitReturns(trades, splits)
<1>0. /\ size \in Nat /\ DOMAIN trades = 1..size
      /\ \A i \in 1..size : trades[i].split \in Nat \ {0} /\ trades[i].net \in Int
  <2>1. \A i \in 1..size : trades[i] \in SweepTrades
    OBVIOUS
  <2>2. \A t \in SweepTrades : t.split \in Nat \ {0} /\ t.net \in Int
    BY DEF SweepTrades
  <2>3. QED BY <2>1, <2>2
<1>1. /\ all \in Seq(Int) /\ Len(all) = size /\ Returns(trades) = all
  BY <1>0 DEF Returns
<1>2. \A m \in 0..splits, i \in 1..size : of[m][i] \in Int /\ within[m][i] \in Int
  BY <1>0
<1>3. parts = [k \in 1..splits |-> Total(of[k], size)]
  <2>1. parts = [k \in 1..splits |->
            Total([i \in 1..size |-> IF trades[i].split = k THEN trades[i].net ELSE 0], size)]
    BY <1>0, Zenon DEF SplitReturns
  <2>2. \A k \in 1..splits :
            of[k] = [i \in 1..size |-> IF trades[i].split = k THEN trades[i].net ELSE 0]
    OBVIOUS
  <2>3. QED
    <3> HIDE DEF of, size, parts
    <3> QED BY <2>1, <2>2
<1>4. \A k \in 1..splits : Total(of[k], size) \in Int
  <2> HIDE DEF of, size
  <2> QED BY <1>0, <1>2, TotalType
<1>5. parts \in Seq(Int) /\ Len(parts) = splits /\ \A k \in 1..splits : parts[k] = Total(of[k], size)
  <2> HIDE DEF of, size, parts
  <2> QED BY <1>3, <1>4
<1>6. PICK t \in [0..splits -> Int] :
        /\ t[0] = 0 /\ \A k \in 1..splits : t[k] = t[k - 1] + parts[k]
        /\ Total(parts, splits) = t[splits]
  <2>1. \A k \in 1..splits : parts[k] \in Int
    BY <1>4, <1>5
  <2>2. QED
    <3> HIDE DEF parts
    <3> QED BY <2>1, TotalRuns
<1> DEFINE T == {m \in 0..splits : t[m] = Total(within[m], size)}
<1>7. 0 \in T
  <2> DEFINE none == within[0]
  <2>1. \A i \in 1..size : none[i] = 0
    BY <1>0
  <2>5. \A i \in 1..size : none[i] = IF i = 0 THEN 1 ELSE 0
    BY <2>1
  <2>2. Total(none, size) = 0
    <3>1. 0 \in Nat /\ 1 \in Int /\ 0 \notin 1..size
      OBVIOUS
    <3> HIDE DEF none, size
    <3>2. Total(none, size) = IF 0 \in 1..size THEN 1 ELSE 0
      BY <1>0, <2>5, <3>1, TotalOfOne
    <3>3. QED BY <3>1, <3>2
  <2>3. QED BY <1>6, <2>2
<1>8. ASSUME NEW m \in 1..splits, m - 1 \in T PROVE m \in T
  <2> DEFINE f == within[m - 1]
             g == of[m]
             h == within[m]
  <2>1. \A i \in 1..size : f[i] \in Int /\ g[i] \in Int /\ h[i] = f[i] + g[i]
    <3>1. m - 1 \in 0..splits /\ m \in 0..splits
      OBVIOUS
    <3>2. SUFFICES ASSUME NEW i \in 1..size PROVE f[i] \in Int /\ g[i] \in Int /\ h[i] = f[i] + g[i]
      OBVIOUS
    <3>3. PICK s \in Nat \ {0}, x \in Int : s = trades[i].split /\ x = trades[i].net
      BY <1>0
    <3>4. /\ f[i] = IF s <= m - 1 THEN x ELSE 0
          /\ g[i] = IF s = m THEN x ELSE 0
          /\ h[i] = IF s <= m THEN x ELSE 0
      BY <3>1, <3>3
    <3>5. QED
      <4> HIDE DEF f, g, h
      <4> QED BY <3>4
  <2>2. Total(h, size) = Total(f, size) + Total(g, size)
    <3> HIDE DEF f, g, h, size
    <3> QED BY <1>0, <2>1, TotalAdds
  <2>3. t[m] = t[m - 1] + Total(g, size)
    <3> HIDE DEF parts, of
    <3> QED BY <1>5, <1>6
  <2>4. t[m - 1] = Total(f, size)
    BY <1>8
  <2>5. m \in 0..splits /\ t[m] = Total(h, size)
    <3> HIDE DEF f, g, h, size
    <3> QED BY <2>2, <2>3, <2>4
  <2>6. QED BY <2>5
<1>9. splits \in T
  <2> HIDE DEF T
  <2>1. \A k \in 0..splits : k \in T
    BY <1>7, <1>8, Turns
  <2>2. QED BY <2>1
<1>10. within[splits] = all
  <2>1. \A i \in 1..size : trades[i].split <= splits
    BY <1>0 DEF TradedWithin
  <2>2. splits \in 0..splits
    OBVIOUS
  <2>3. QED BY <2>1, <2>2
<1>11. Total(parts, splits) = Total(all, size)
  BY <1>6, <1>9, <1>10
<1>12. QED BY <1>1, <1>5, <1>11 DEF Sum

\* What was earned with a split that did not make most of it was earned in two.
LEMMA TwoSplitsGain ==
    ASSUME NEW trades \in Seq(SweepTrades), NEW splits \in Nat, TradedWithin(trades, splits),
           Sum(Returns(trades)) > 0, ~Dominates(SplitReturns(trades, splits))
    PROVE  ProfitableSplits(trades, splits) \in Nat /\ ProfitableSplits(trades, splits) >= 2
<1> DEFINE returns == SplitReturns(trades, splits)
           G == {k \in 1..splits : returns[k] > 0}
           gain == [i \in DOMAIN returns |-> IF returns[i] > 0 THEN returns[i] ELSE 0]
<1>1. returns \in Seq(Int) /\ Len(returns) = splits /\ Sum(returns) > 0
  BY SplitsAddUp
<1>2. ~Dominates(returns) /\ ProfitableSplits(trades, splits) = Cardinality(G)
  BY DEF ProfitableSplits
<1> HIDE DEF returns
<1>3. DOMAIN returns = 1..splits /\ \A k \in 1..splits : returns[k] \in Int
  BY <1>1
<1>4. G # {}
  <2>1. SUFFICES ASSUME G = {} PROVE FALSE
    OBVIOUS
  <2>2. \A k \in 1..splits : returns[k] \in Int /\ returns[k] <= 0
    BY <1>3, <2>1
  <2>3. Total(returns, splits) <= 0
    BY <2>2, TotalOfLosses
  <2>4. Total(returns, splits) > 0
    BY <1>1 DEF Sum
  <2>5. Total(returns, splits) \in Int
    BY <1>3, TotalType
  <2>6. QED BY <2>3, <2>4, <2>5
<1>5. PICK a \in G : TRUE
  BY <1>4
<1>6. \E b \in G : b # a
  <2>1. SUFFICES ASSUME \A b \in G : b = a PROVE FALSE
    OBVIOUS
  <2>2. PICK x \in Nat : x = returns[a] /\ x >= 1 /\ a \in 1..splits /\ a \in Nat
    BY <1>3, <1>5
  <2>3. gain \in Seq(Int) /\ Len(gain) = splits
    BY <1>3
  <2>4. \A k \in 1..splits : gain[k] = IF k = a THEN x ELSE 0
    <3>1. SUFFICES ASSUME NEW k \in 1..splits PROVE gain[k] = IF k = a THEN x ELSE 0
      OBVIOUS
    <3>2. gain[k] = IF returns[k] > 0 THEN returns[k] ELSE 0
      BY <1>3
    <3>3. returns[k] > 0 <=> k = a
      BY <2>1, <2>2
    <3>4. QED BY <2>2, <3>2, <3>3
  <2>5. Total(gain, splits) = x
    <3> HIDE DEF gain
    <3>1. x \in Int
      BY <2>2
    <3>2. Total(gain, splits) = IF a \in 1..splits THEN x ELSE 0
      BY <2>2, <2>4, <3>1, TotalOfOne
    <3>3. QED BY <2>2, <3>2
  <2>6. Gains(returns) = x
    BY <2>3, <2>5 DEF Gains, Sum
  <2>7. MaxShare * x <= 99 * x /\ MaxShare * x \in Nat
    <3>1. MaxShare \in Nat /\ 99 \in Nat /\ MaxShare <= 99
      BY SweepAssumption
    <3>2. QED BY <2>2, <3>1, TimesGrows
  <2>8. 100 * x > MaxShare * x
    BY <2>2, <2>7
  <2>9. Dominates(returns)
    <3>1. a \in DOMAIN returns /\ returns[a] > 0 /\ 100 * returns[a] > MaxShare * Gains(returns)
      BY <1>3, <2>2, <2>6, <2>8
    <3>2. QED BY <3>1 DEF Dominates
  <2>10. QED BY <1>2, <2>9
<1>7. PICK b \in G : b # a
  BY <1>6
<1>8. IsFiniteSet(G)
  <2>1. 1 \in Int /\ splits \in Int /\ G \subseteq 1..splits
    OBVIOUS
  <2>2. IsFiniteSet(1..splits)
    BY <2>1, FS_Interval
  <2>3. QED
    <3> HIDE DEF G
    <3> QED BY <2>1, <2>2, FS_Subset
<1>9. Cardinality({a, b}) = 2
  <2>1. IsFiniteSet({a}) /\ Cardinality({a}) = 1
    BY FS_Singleton
  <2>2. {a, b} = {a} \cup {b} /\ b \notin {a}
    BY <1>7
  <2>3. Cardinality({a} \cup {b}) = Cardinality({a}) + 1
    BY <2>1, <2>2, FS_AddElement
  <2>4. Cardinality({a, b}) = Cardinality({a} \cup {b})
    BY <2>2, Zenon
  <2>5. Cardinality({a, b}) = 1 + 1
    BY <2>1, <2>3, <2>4, Zenon
  <2>6. QED BY <2>5
<1>10. Cardinality({a, b}) <= Cardinality(G)
  <2> HIDE DEF G
  <2> QED BY <1>8, FS_Subset
<1>11. Cardinality(G) \in Nat
  BY <1>8, FS_CardinalityType
<1>12. QED BY <1>2, <1>9, <1>10, <1>11

LEMMA DrawdownType ==
    ASSUME NEW returns \in Seq(Int)
    PROVE  Drawdown(returns) \in Int
<1> DEFINE n == Len(returns)
           S == [sum : Int, peak : Int, worst : Int]
           base == [sum |-> 0, peak |-> 0, worst |-> 0]
           Fall(s, x) == LET sum == s.sum + x
                             peak == Max({s.peak, sum})
                         IN  [sum |-> sum, peak |-> peak, worst |-> Max({s.worst, peak - sum})]
           Turn(f, k) == IF k = 0 THEN base ELSE Fall(f[k - 1], returns[k])
           IsLoop(f) == f = [k \in 0..n |-> Turn(f, k)]
           at == CHOOSE f : IsLoop(f)
           turn == [k \in 1..n |-> [s \in S |-> Fall(s, returns[k])]]
<1>1. Drawdown(returns) = at[n].worst
  BY DEF Drawdown
<1>2. base \in S
  OBVIOUS
<1>3. ASSUME NEW s \in S, NEW x \in Int PROVE Fall(s, x) \in S
  <2>1. \A a, b \in Int : Max({a, b}) \in Int
    BY MaxOfTwo
  <2>2. s.sum \in Int /\ s.peak \in Int /\ s.worst \in Int
    OBVIOUS
  <2>3. PICK sum \in Int : sum = s.sum + x
    BY <2>2
  <2>4. PICK peak \in Int : peak = Max({s.peak, sum})
    BY <2>1, <2>2
  <2>5. peak - sum \in Int
    OBVIOUS
  <2>6. Max({s.worst, peak - sum}) \in Int
    BY <2>1, <2>2, <2>5
  <2>7. Fall(s, x) = [sum |-> sum, peak |-> peak, worst |-> Max({s.worst, peak - sum})]
    BY <2>3, <2>4
  <2>8. QED
    <3> HIDE DEF Fall
    <3> QED BY <2>6, <2>7
<1>4. n \in Nat /\ \A k \in 1..n : returns[k] \in Int
  OBVIOUS
<1>5. \E f : IsLoop(f) /\ f \in [0..n -> S]
  <2> HIDE DEF Fall, S, base, n
  <2>1. turn \in [1..n -> [S -> S]]
    BY <1>3, <1>4
  <2>2. PICK f : RunOf(f, n, S, base, turn)
    <3> HIDE DEF turn
    <3> QED BY <1>2, <1>4, <2>1, LoopRuns
  <2>3. f \in [0..n -> S] /\ f[0] = base /\ \A k \in 1..n : f[k] = turn[k][f[k - 1]]
    <3> HIDE DEF turn
    <3> QED BY <2>2 DEF RunOf
  <2>4. ASSUME NEW k \in 0..n PROVE f[k] = Turn(f, k)
    <3>1. CASE k = 0
      BY <2>3, <3>1
    <3>2. CASE k # 0
      <4>1. k \in 1..n /\ k - 1 \in 0..n
        BY <1>4, <3>2
      <4>2. turn[k][f[k - 1]] = Fall(f[k - 1], returns[k])
        BY <2>3, <4>1
      <4>3. QED
        <5> HIDE DEF turn
        <5> QED BY <2>3, <3>2, <4>1, <4>2
    <3>3. QED BY <3>1, <3>2
  <2>5. f = [k \in 0..n |-> Turn(f, k)]
    <3> HIDE DEF Turn
    <3> QED BY <2>3, <2>4
  <2>6. QED BY <2>3, <2>5
<1>6. IsLoop(at)
  <2> HIDE DEF IsLoop
  <2> QED BY <1>5, Zenon
<1>7. \A k \in 0..n : at[k] = Turn(at, k)
  <2> HIDE DEF at, Turn
  <2> QED BY <1>6
<1> DEFINE T == {k \in 0..n : at[k] \in S}
<1> HIDE DEF at, IsLoop, turn
<1>8. 0 \in T
  <2> HIDE DEF Fall, S
  <2> QED BY <1>2, <1>4, <1>7
<1>9. ASSUME NEW k \in 1..n, k - 1 \in T PROVE k \in T
  <2> HIDE DEF Fall, S, n
  <2>1. k \in 0..n /\ k # 0 /\ at[k - 1] \in S
    BY <1>4, <1>9
  <2>2. at[k] = Fall(at[k - 1], returns[k])
    BY <1>7, <2>1
  <2>3. QED BY <1>3, <1>4, <2>1, <2>2
<1>10. at[n] \in S
  <2> HIDE DEF n, S
  <2>1. \A k \in 0..n : k \in T
    <3> HIDE DEF T
    <3> QED BY <1>4, <1>8, <1>9, Turns
  <2>2. n \in 0..n
    BY <1>4
  <2>3. QED BY <2>1, <2>2
<1>11. QED BY <1>1, <1>10

\* What the gates and the score are computed from are numbers.
LEMMA SweepNumbers ==
    ASSUME NEW returns \in Seq(Int)
    PROVE  Sum(returns) \in Int /\ Gains(returns) \in Int /\ Losses(returns) \in Nat
<1> DEFINE gain == [i \in DOMAIN returns |-> IF returns[i] > 0 THEN returns[i] ELSE 0]
           loss == [i \in DOMAIN returns |-> IF returns[i] > 0 THEN 0 ELSE returns[i]]
           n == Len(returns)
<1>1. n \in Nat /\ \A i \in 1..n : returns[i] \in Int
  OBVIOUS
<1>2. gain \in Seq(Int) /\ Len(gain) = n /\ \A i \in 1..n : gain[i] \in Int
  OBVIOUS
<1>3. Sum(returns) \in Int
  BY <1>1, TotalType DEF Sum
<1>4. /\ Total(gain, n) \in Int /\ Total(loss, n) \in Int /\ Total(loss, n) <= 0
      /\ Total(returns, n) = Total(gain, n) + Total(loss, n)
  <2>1. \A i \in 1..n : /\ gain[i] \in Int /\ loss[i] \in Int /\ loss[i] <= 0
                        /\ returns[i] = gain[i] + loss[i]
    BY <1>1
  <2> HIDE DEF gain, loss, n
  <2>2. Total(gain, n) \in Int /\ Total(loss, n) \in Int
    BY <1>1, <2>1, TotalType
  <2>3. Total(loss, n) <= 0
    BY <1>1, <2>1, TotalOfLosses
  <2>4. Total(returns, n) = Total(gain, n) + Total(loss, n)
    BY <1>1, <2>1, TotalAdds
  <2>5. QED BY <2>2, <2>3, <2>4
<1>5. Gains(returns) = Total(gain, n) /\ Sum(returns) = Total(returns, n)
  BY <1>2 DEF Gains, Sum
<1>6. QED
  <2> HIDE DEF gain, loss, n
  <2> QED BY <1>3, <1>4, <1>5 DEF Losses

LEMMA ProfitableType ==
    ASSUME NEW trades, NEW splits \in Nat
    PROVE  ProfitableSplits(trades, splits) \in Nat
<1> DEFINE G == {k \in 1..splits : SplitReturns(trades, splits)[k] > 0}
<1>1. 1 \in Int /\ splits \in Int /\ G \subseteq 1..splits
  OBVIOUS
<1>2. IsFiniteSet(1..splits)
  BY <1>1, FS_Interval
<1>3. IsFiniteSet(G)
  <2> HIDE DEF G
  <2> QED BY <1>1, <1>2, FS_Subset
<1>4. QED BY <1>3, FS_CardinalityType DEF ProfitableSplits

\* Rows have numbers to be ranked by, and what is accepted has gained in two
\* splits, whatever is asked of it besides.
LEMMA RowHolds ==
    ASSUME NEW set, NEW strategy, NEW prediction, NEW result,
           result.trades \in Seq(SweepTrades), result.ambiguous \in Nat, prediction.splits \in Nat,
           prediction.splits = 0 \/ TradedWithin(result.trades, prediction.splits)
    PROVE  LET row == SweepRow(set, strategy, prediction, result)
           IN  /\ row.id = set.id /\ row.strategy = strategy /\ row.labels = prediction.labels
               /\ row.score \in Int
               /\ row.reasons = {} => row.profitable >= 2
<1> DEFINE row == SweepRow(set, strategy, prediction, result)
           trades == result.trades
           splits == prediction.splits
           returns == Returns(trades)
           rejected == RejectionReasons(result, splits)
           reasons == IF splits = 0 THEN {"no_walk_forward_validation_folds"} ELSE rejected
<1>1. row = [id |-> set.id, strategy |-> strategy, labels |-> prediction.labels,
             reasons |-> reasons,
             profitable |-> IF splits = 0 THEN 0 ELSE ProfitableSplits(trades, splits),
             score |-> IF splits = 0 THEN -1000000 ELSE RankScore(result, splits, reasons)]
  BY SMT DEF SweepRow
<1>2. returns \in Seq(Int) /\ Len(returns) = Len(trades) /\ Len(returns) \in Nat
  <2>1. \A i \in 1..Len(trades) : trades[i].net \in Int
    <3>1. \A i \in 1..Len(trades) : trades[i] \in SweepTrades
      OBVIOUS
    <3>2. \A t \in SweepTrades : t.net \in Int
      BY DEF SweepTrades
    <3>3. QED BY <3>1, <3>2
  <2>2. returns = [i \in 1..Len(trades) |-> trades[i].net]
    BY DEF Returns
  <2>3. QED BY <2>1, <2>2
<1>3. /\ Sum(returns) \in Int /\ Gains(returns) \in Int /\ Losses(returns) \in Nat
      /\ Drawdown(returns) \in Int
  <2> HIDE DEF returns
  <2> QED BY <1>2, SweepNumbers, DrawdownType
<1>4. ProfitableSplits(trades, splits) \in Nat
  BY ProfitableType
<1>5. rejected = {} => /\ Len(returns) >= MinSweepTrades /\ Sum(returns) > 0
                       /\ ~Dominates(SplitReturns(trades, splits))
  <2>1. SUFFICES ASSUME rejected = {}
                 PROVE  /\ Len(returns) >= MinSweepTrades /\ Sum(returns) > 0
                        /\ ~Dominates(SplitReturns(trades, splits))
    OBVIOUS
  <2>2. /\ "trades" \notin rejected /\ "net_return" \notin rejected /\ "one_split" \notin rejected
    BY <2>1
  <2>3. /\ ~(Len(returns) < MinSweepTrades) /\ ~(Sum(returns) <= 0)
        /\ ~Dominates(SplitReturns(trades, splits))
    BY <2>2, Zenon DEF RejectionReasons
  <2>4. QED
    <3> HIDE DEF returns, rejected
    <3> QED BY <1>2, <1>3, <2>3, SweepAssumption
<1>6. RankScore(result, splits, rejected) \in Int
  <2> DEFINE lost == Losses(returns)
             factor == IF lost = 0 THEN 500 ELSE Min({500, (100 * Gains(returns)) \div lost})
             mean == (1000 * Sum(returns)) \div Len(returns)
             profitable == ProfitableSplits(trades, splits)
  <2>1. RankScore(result, splits, rejected) =
            IF rejected # {} THEN -1000000 + Sum(returns)
            ELSE 10000 * Sum(returns) + 10 * factor + mean
                 + 10 * Len(returns) + 200 * profitable - 1000 * Drawdown(returns)
                 - 100 * result.ambiguous
    BY SMT DEF RankScore
  <2>2. factor \in Int
    <3>1. CASE lost = 0
      BY <3>1
    <3>2. CASE lost # 0
      <4>1. PICK l \in Nat, g \in Int : l = lost /\ g = 100 * Gains(returns) /\ l > 0
        BY <1>3, <3>2
      <4>2. PICK q \in Int : q = g \div l
        BY <4>1
      <4>3. PICK c \in Int : c = 500
        OBVIOUS
      <4>7. Min({c, q}) \in Int
        <5>1. Min({c, q}) = IF c <= q THEN c ELSE q
          BY MaxOfTwo
        <5>2. QED BY <5>1
      <4>4. Min({500, q}) \in Int
        BY <4>3, <4>7
      <4>5. factor = Min({500, q})
        BY <3>2, <4>1, <4>2, Zenon
      <4>6. QED BY <4>4, <4>5
    <3>3. QED BY <3>1, <3>2
  <2>3. CASE rejected # {}
    BY <1>3, <2>1, <2>3
  <2>4. CASE rejected = {}
    <3>1. PICK m \in Nat : m = Len(returns) /\ m > 0
      <4>1. Len(returns) >= MinSweepTrades
        BY <1>5, <2>4
      <4>2. QED
        <5> HIDE DEF returns
        <5> QED BY <1>2, <4>1, SweepAssumption
    <3>2. PICK s \in Int : s = Sum(returns)
      BY <1>3
    <3>3. mean \in Int
      <4>1. PICK k \in Int : k = 1000 * Sum(returns)
        BY <3>2
      <4>2. mean = k \div m
        BY <3>1, <4>1
      <4>3. k \div m \in Int
        BY <3>1
      <4>4. QED BY <4>2, <4>3
    <3>4. PICK x \in Int, y \in Int, p \in Nat, d \in Int :
            x = factor /\ y = mean /\ p = profitable /\ d = Drawdown(returns)
      <4> HIDE DEF factor, mean
      <4> QED BY <1>3, <1>4, <2>2, <3>3
    <3>5. PICK z \in Nat : z = result.ambiguous
      OBVIOUS
    <3>6. RankScore(result, splits, rejected) =
              10000 * s + 10 * x + y + 10 * m + 200 * p - 1000 * d - 100 * z
      <4> HIDE DEF factor, mean, returns, rejected
      <4> QED BY <2>1, <2>4, <3>1, <3>2, <3>4, <3>5
    <3>7. QED BY <3>6
  <2>5. QED BY <2>3, <2>4
<1>7. CASE splits = 0
  <2>1. row.reasons # {} /\ row.score \in Int
    BY <1>1, <1>7
  <2>2. row.id = set.id /\ row.strategy = strategy /\ row.labels = prediction.labels
    BY <1>1
  <2>3. QED BY <2>1, <2>2
<1>8. CASE splits # 0
  <2>1. reasons = rejected
    BY <1>8
  <2>2. /\ row.id = set.id /\ row.strategy = strategy /\ row.labels = prediction.labels
        /\ row.reasons = rejected /\ row.profitable = ProfitableSplits(trades, splits)
        /\ row.score = RankScore(result, splits, rejected)
    <3> HIDE DEF rejected
    <3> QED BY <1>1, <1>8, <2>1
  <2>3. rejected = {} => ProfitableSplits(trades, splits) >= 2
    BY <1>5, <1>8, TwoSplitsGain
  <2>4. row.score \in Int
    BY <1>6, <2>2
  <2>5. row.reasons = {} => row.profitable >= 2
    BY <2>2, <2>3
  <2>6. QED BY <2>2, <2>4, <2>5
<1>9. QED BY <1>7, <1>8

\* What is kept when nothing is unwanted.
LEMMA KeptAll ==
    ASSUME NEW S, NEW seq \in Seq(S), NEW wanted, 1..Len(seq) \subseteq wanted
    PROVE  Kept(seq, wanted) = seq
<1> DEFINE out == Kept(seq, wanted)
           m == Len(out)
           n == Len(seq)
<1>1. out \in Seq(S) /\ Selects(out, seq, wanted, n)
  BY KeptSelects
<1> HIDE DEF out
<1>2. PICK at \in [1..m -> Int] :
        /\ \A i \in 1..m : at[i] \in wanted /\ at[i] \in 1..n /\ out[i] = seq[at[i]]
        /\ \A i, j \in 1..m : i < j => at[i] < at[j]
        /\ \A k \in 1..n : k \in wanted => \E i \in 1..m : at[i] = k
  BY <1>1 DEF Selects
<1>3. m \in Nat /\ n \in Nat
  BY <1>1
<1>4. \A k \in 1..n : \E i \in 1..m : at[i] = k
  BY <1>2
<1> DEFINE T == {i \in 0..m : i = 0 \/ at[i] = i}
<1>5. 0 \in T
  BY <1>3
<1>6. ASSUME NEW i \in 1..m, i - 1 \in T PROVE i \in T
  <2>1. i \in Nat /\ i >= 1 /\ at[i] \in 1..n /\ at[i] \in Nat /\ at[i] >= 1
    BY <1>2
  <2>2. at[i] >= i
    <3>1. CASE i = 1
      BY <2>1, <3>1
    <3>2. CASE i # 1
      <4>1. i - 1 \in 1..m /\ i - 1 < i /\ at[i - 1] = i - 1
        BY <1>6, <2>1, <3>2
      <4>2. at[i - 1] < at[i]
        BY <1>2, <4>1
      <4>3. QED BY <2>1, <4>1, <4>2
    <3>3. QED BY <3>1, <3>2
  <2>3. ASSUME at[i] > i PROVE FALSE
    <3>1. i \in 1..n
      BY <2>1, <2>3
    <3>2. PICK j \in 1..m : at[j] = i
      BY <1>4, <3>1
    <3>3. j < i
      <4>1. ASSUME ~(j < i) PROVE FALSE
        <5>1. j = i \/ i < j
          BY <4>1
        <5>2. j # i
          BY <2>3, <3>2, <2>1
        <5>3. at[i] < at[j]
          BY <1>2, <5>1, <5>2
        <5>4. QED BY <2>1, <2>3, <3>2, <5>3
      <4>2. QED BY <4>1
    <3>4. j <= i - 1 /\ at[i - 1] = i - 1 /\ i - 1 \in 1..m
      BY <1>6, <2>1, <3>3
    <3>5. CASE j = i - 1
      BY <2>1, <3>2, <3>4, <3>5
    <3>6. CASE j # i - 1
      <4>1. at[j] < at[i - 1]
        BY <1>2, <3>4, <3>6
      <4>2. QED BY <2>1, <3>2, <3>4, <4>1
    <3>7. QED BY <3>5, <3>6
  <2>4. QED BY <2>1, <2>2, <2>3
<1>7. \A i \in 1..m : at[i] = i
  <2>1. \A i \in 0..m : i \in T
    <3> HIDE DEF T
    <3> QED BY <1>3, <1>5, <1>6, Turns
  <2>2. QED BY <2>1
<1>8. m = n
  <2>1. m <= n
    BY <1>2, <1>3, <1>7
  <2>2. ASSUME m < n PROVE FALSE
    <3>1. n \in 1..n
      BY <1>3, <2>2
    <3>2. PICK i \in 1..m : at[i] = n
      BY <1>4, <3>1
    <3>3. QED BY <1>3, <1>7, <2>2, <3>2
  <2>3. QED BY <1>3, <2>1, <2>2
<1>9. \A i \in 1..n : out[i] = seq[i]
  BY <1>2, <1>7, <1>8
<1>10. out = seq
  BY <1>1, <1>8, <1>9, SeqEqual
<1>11. QED BY <1>10 DEF out

InSequence(x, seq) == \E i \in 1..Len(seq) : seq[i] = x
ByScore(seq) == \A i, j \in 1..Len(seq) : i < j => seq[i].score >= seq[j].score

\* A selection has what was wanted, and rows that were in order still are.
LEMMA KeptRows ==
    ASSUME NEW S, NEW seq \in Seq(S), NEW wanted
    PROVE  /\ Kept(seq, wanted) \in Seq(S)
           /\ \A x : InSequence(x, Kept(seq, wanted)) <=>
                        \E k \in 1..Len(seq) : k \in wanted /\ seq[k] = x
           /\ ByScore(seq) => ByScore(Kept(seq, wanted))
<1> DEFINE out == Kept(seq, wanted)
           m == Len(out)
           n == Len(seq)
<1>1. out \in Seq(S) /\ Selects(out, seq, wanted, n)
  BY KeptSelects
<1> HIDE DEF out
<1>2. PICK at \in [1..m -> Int] :
        /\ \A i \in 1..m : at[i] \in wanted /\ at[i] \in 1..n /\ out[i] = seq[at[i]]
        /\ \A i, j \in 1..m : i < j => at[i] < at[j]
        /\ \A k \in 1..n : k \in wanted => \E i \in 1..m : at[i] = k
  BY <1>1 DEF Selects
<1>3. ASSUME NEW x
      PROVE  InSequence(x, out) <=> \E k \in 1..n : k \in wanted /\ seq[k] = x
  <2>1. ASSUME InSequence(x, out) PROVE \E k \in 1..n : k \in wanted /\ seq[k] = x
    BY <1>2, <2>1 DEF InSequence
  <2>2. ASSUME NEW k \in 1..n, k \in wanted, seq[k] = x PROVE InSequence(x, out)
    <3>1. PICK i \in 1..m : at[i] = k
      BY <1>2, <2>2
    <3>2. QED BY <1>2, <2>2, <3>1 DEF InSequence
  <2>3. QED BY <2>1, <2>2
<1>4. ASSUME ByScore(seq) PROVE ByScore(out)
  <2>1. SUFFICES ASSUME NEW i \in 1..m, NEW j \in 1..m, i < j
                 PROVE  out[i].score >= out[j].score
    BY DEF ByScore
  <2>2. /\ at[i] \in 1..n /\ at[j] \in 1..n /\ at[i] < at[j]
        /\ out[i] = seq[at[i]] /\ out[j] = seq[at[j]]
    BY <1>2, <2>1
  <2>3. seq[at[i]].score >= seq[at[j]].score
    BY <1>4, <2>2 DEF ByScore
  <2>4. QED BY <2>2, <2>3
<1>5. QED BY <1>1, <1>3, <1>4 DEF out

\* One row more in its place.
LEMMA PlacedHolds ==
    ASSUME NEW S, \A r \in S : r.score \in Int,
           NEW ranked \in Seq(S), ByScore(ranked), NEW row \in S
    PROVE  /\ Placed(ranked, row) \in Seq(S) /\ ByScore(Placed(ranked, row))
           /\ \A x : InSequence(x, Placed(ranked, row)) <=> (x = row \/ InSequence(x, ranked))
<1> DEFINE n == Len(ranked)
           ahead == {i \in DOMAIN ranked : ranked[i].score >= row.score}
           behind == DOMAIN ranked \ ahead
           first == Kept(ranked, ahead)
           last == Kept(ranked, behind)
           a == Len(first)
           b == Len(last)
           out == Append(first, row) \o last
<1>1. Placed(ranked, row) = out
  BY DEF Placed
<1>2. DOMAIN ranked = 1..n /\ \A i \in 1..n : ranked[i] \in S
  OBVIOUS
<1>3. /\ first \in Seq(S) /\ ByScore(first)
      /\ \A x : InSequence(x, first) <=> \E k \in 1..n : k \in ahead /\ ranked[k] = x
  <2> HIDE DEF ahead
  <2> QED BY KeptRows
<1>4. /\ last \in Seq(S) /\ ByScore(last)
      /\ \A x : InSequence(x, last) <=> \E k \in 1..n : k \in behind /\ ranked[k] = x
  <2> HIDE DEF behind
  <2> QED BY KeptRows
<1> HIDE DEF first, last
<1>5. \A i \in 1..a : first[i] \in S /\ first[i].score >= row.score
  <2>1. SUFFICES ASSUME NEW i \in 1..a PROVE first[i] \in S /\ first[i].score >= row.score
    OBVIOUS
  <2>2. InSequence(first[i], first)
    BY DEF InSequence
  <2>3. PICK k \in 1..n : k \in ahead /\ ranked[k] = first[i]
    BY <1>3, <2>2
  <2>4. QED BY <1>2, <2>3
<1>6. \A i \in 1..b : last[i] \in S /\ last[i].score <= row.score
  <2>1. SUFFICES ASSUME NEW i \in 1..b PROVE last[i] \in S /\ last[i].score <= row.score
    OBVIOUS
  <2>2. InSequence(last[i], last)
    BY DEF InSequence
  <2>3. PICK k \in 1..n : k \in behind /\ ranked[k] = last[i]
    BY <1>4, <2>2
  <2>4. ~(ranked[k].score >= row.score) /\ ranked[k].score \in Int /\ row.score \in Int
    BY <1>2, <2>3
  <2>5. QED BY <1>2, <2>3, <2>4
<1>7. /\ a \in Nat /\ b \in Nat /\ out \in Seq(S) /\ Len(out) = a + 1 + b
      /\ \A i \in 1..(a + 1 + b) : out[i] = IF i <= a THEN first[i]
                                           ELSE IF i = a + 1 THEN row ELSE last[i - a - 1]
  <2>1. PICK head \in Seq(S) : head = Append(first, row)
    <3>1. Append(first, row) \in Seq(S)
      BY <1>3, AppendProperties
    <3>2. QED BY <3>1
  <2>2. /\ a \in Nat /\ b \in Nat /\ Len(head) = a + 1 /\ head[a + 1] = row
        /\ \A i \in 1..a : head[i] = first[i]
    BY <1>3, <1>4, <2>1
  <2>3. out = head \o last /\ out \in Seq(S) /\ Len(out) = a + 1 + b
    BY <1>4, <2>1, <2>2
  <2>4. \A i \in 1..(a + 1 + b) : out[i] = IF i <= a + 1 THEN head[i] ELSE last[i - (a + 1)]
    BY <1>4, <2>2, <2>3
  <2>5. SUFFICES ASSUME NEW i \in 1..(a + 1 + b)
                 PROVE  out[i] = IF i <= a THEN first[i]
                                 ELSE IF i = a + 1 THEN row ELSE last[i - a - 1]
    BY <2>2, <2>3
  <2> HIDE DEF out
  <2>6. CASE i <= a
    <3>1. i \in 1..a /\ i <= a + 1
      BY <2>2, <2>6
    <3>2. QED BY <2>2, <2>4, <2>6, <3>1
  <2>7. CASE i = a + 1
    BY <2>2, <2>4, <2>7
  <2>8. CASE i > a + 1
    <3>1. i - (a + 1) = i - a - 1 /\ ~(i <= a + 1) /\ ~(i <= a) /\ i # a + 1
      BY <2>2, <2>8
    <3>2. out[i] = last[i - (a + 1)]
      BY <2>4, <3>1
    <3>3. QED BY <3>1, <3>2
  <2>9. QED BY <2>2, <2>6, <2>7, <2>8
<1> HIDE DEF out
<1>8. ByScore(out)
  <2>1. SUFFICES ASSUME NEW i \in 1..(a + 1 + b), NEW j \in 1..(a + 1 + b), i < j
                 PROVE  out[i].score >= out[j].score
    BY <1>7 DEF ByScore
  <2>2. row.score \in Int
    OBVIOUS
  <2>3. CASE j <= a
    <3>1. i \in 1..a /\ j \in 1..a /\ out[i] = first[i] /\ out[j] = first[j]
      BY <1>7, <2>1, <2>3
    <3>2. QED BY <1>3, <2>1, <3>1 DEF ByScore
  <2>4. CASE i > a + 1
    <3>1. /\ i - a - 1 \in 1..b /\ j - a - 1 \in 1..b /\ i - a - 1 < j - a - 1
          /\ out[i] = last[i - a - 1] /\ out[j] = last[j - a - 1]
      BY <1>7, <2>1, <2>4
    <3>2. last[i - a - 1].score >= last[j - a - 1].score
      BY <1>4, <3>1 DEF ByScore
    <3>3. QED BY <3>1, <3>2
  <2>5. CASE i <= a + 1 /\ j > a
    <3>1. out[i].score >= row.score /\ out[i].score \in Int
      <4>1. CASE i <= a
        <5>1. i \in 1..a /\ out[i] = first[i]
          BY <1>7, <4>1
        <5>2. QED BY <1>5, <5>1
      <4>2. CASE i = a + 1
        <5>1. out[i] = row
          BY <1>7, <4>2
        <5>2. QED BY <2>2, <5>1
      <4>3. QED BY <1>7, <2>5, <4>1, <4>2
    <3>2. out[j].score <= row.score /\ out[j].score \in Int
      <4>1. CASE j > a + 1
        <5>1. j - a - 1 \in 1..b /\ out[j] = last[j - a - 1]
          BY <1>7, <4>1
        <5>2. last[j - a - 1] \in S /\ last[j - a - 1].score <= row.score
          BY <1>6, <5>1
        <5>3. QED BY <5>1, <5>2
      <4>2. CASE j = a + 1
        <5>1. out[j] = row
          BY <1>7, <4>2
        <5>2. QED BY <2>2, <5>1
      <4>3. QED BY <1>7, <2>5, <4>1, <4>2
    <3>3. QED BY <2>2, <3>1, <3>2
  <2>6. QED BY <1>7, <2>3, <2>4, <2>5
<1>9. ASSUME NEW x
      PROVE  InSequence(x, out) <=> (x = row \/ InSequence(x, ranked))
  <2>1. ASSUME NEW i \in 1..(a + 1 + b), out[i] = x PROVE x = row \/ InSequence(x, ranked)
    <3>1. CASE i <= a
      <4>1. i \in 1..a /\ first[i] = x
        BY <1>7, <2>1, <3>1
      <4>2. InSequence(x, first)
        BY <4>1 DEF InSequence
      <4>3. QED BY <1>3, <4>2 DEF InSequence
    <3>2. CASE i = a + 1
      BY <1>7, <2>1, <3>2
    <3>3. CASE i > a + 1
      <4>1. i - a - 1 \in 1..b /\ last[i - a - 1] = x
        BY <1>7, <2>1, <3>3
      <4>2. InSequence(x, last)
        BY <4>1 DEF InSequence
      <4>3. QED BY <1>4, <4>2 DEF InSequence
    <3>4. QED BY <1>7, <3>1, <3>2, <3>3
  <2>2. ASSUME x = row PROVE InSequence(x, out)
    <3>1. a + 1 \in 1..Len(out) /\ out[a + 1] = x
      BY <1>7, <2>2
    <3>2. QED BY <3>1 DEF InSequence
  <2>3. ASSUME InSequence(x, ranked) PROVE InSequence(x, out)
    <3>1. PICK k \in 1..n : ranked[k] = x
      BY <2>3 DEF InSequence
    <3>2. CASE k \in ahead
      <4>1. InSequence(x, first)
        <5> HIDE DEF ahead
        <5> QED BY <1>3, <3>1, <3>2
      <4>2. PICK i \in 1..a : first[i] = x
        BY <4>1 DEF InSequence
      <4>3. i \in 1..Len(out) /\ out[i] = x
        BY <1>7, <4>2
      <4>4. QED BY <4>3 DEF InSequence
    <3>3. CASE k \notin ahead
      <4>1. k \in behind
        BY <1>2, <3>3
      <4>2. InSequence(x, last)
        <5> HIDE DEF behind
        <5> QED BY <1>4, <3>1, <4>1
      <4>3. PICK i \in 1..b : last[i] = x
        BY <4>2 DEF InSequence
      <4>4. PICK j \in Int : j = a + 1 + i
        BY <1>7
      <4>5. j \in 1..(a + 1 + b) /\ j - a - 1 = i /\ ~(j <= a) /\ j # a + 1
        BY <1>7, <4>4
      <4>6. out[j] = x
        BY <1>7, <4>3, <4>5
      <4>7. QED BY <1>7, <4>5, <4>6 DEF InSequence
    <3>4. QED BY <3>2, <3>3
  <2>4. QED BY <1>7, <2>1, <2>2, <2>3 DEF InSequence
<1>10. QED BY <1>1, <1>7, <1>8, <1>9

\* Sorting loses nothing, makes nothing up, and puts the best first.
LEMMA RankedHolds ==
    ASSUME NEW S, \A r \in S : r.score \in Int, sweepRows \in Seq(S)
    PROVE  /\ Ranked \in Seq(S) /\ ByScore(Ranked)
           /\ \A x : InSequence(x, Ranked) <=> InSequence(x, sweepRows)
<1> DEFINE n == Len(sweepRows)
           States == {s \in Seq(S) : ByScore(s)}
           base == <<>>
           Turn(f, k) == IF k = 0 THEN base ELSE Placed(f[k - 1], sweepRows[k])
           IsLoop(f) == f = [k \in 0..n |-> Turn(f, k)]
           ranked == CHOOSE f : IsLoop(f)
           turn == [k \in 1..n |-> [s \in States |-> Placed(s, sweepRows[k])]]
<1>1. Ranked = ranked[n]
  BY DEF Ranked
<1>2. base \in States /\ Len(base) = 0
  BY DEF ByScore
<1>3. n \in Nat /\ \A k \in 1..n : sweepRows[k] \in S
  OBVIOUS
<1>4. \A s \in States, k \in 1..n : Placed(s, sweepRows[k]) \in States
  BY <1>3, PlacedHolds
<1>5. \E f : IsLoop(f) /\ f \in [0..n -> States]
  <2> HIDE DEF States, base, n
  <2>1. turn \in [1..n -> [States -> States]]
    BY <1>4
  <2>2. PICK f : RunOf(f, n, States, base, turn)
    <3> HIDE DEF turn
    <3> QED BY <1>2, <1>3, <2>1, LoopRuns
  <2>3. f \in [0..n -> States] /\ f[0] = base /\ \A k \in 1..n : f[k] = turn[k][f[k - 1]]
    <3> HIDE DEF turn
    <3> QED BY <2>2 DEF RunOf
  <2>4. ASSUME NEW k \in 0..n PROVE f[k] = Turn(f, k)
    <3>1. CASE k = 0
      BY <2>3, <3>1
    <3>2. CASE k # 0
      <4>1. k \in 1..n /\ k - 1 \in 0..n
        BY <1>3, <3>2
      <4>2. turn[k][f[k - 1]] = Placed(f[k - 1], sweepRows[k])
        BY <2>3, <4>1
      <4>3. QED
        <5> HIDE DEF turn
        <5> QED BY <2>3, <3>2, <4>1, <4>2
    <3>3. QED BY <3>1, <3>2
  <2>5. f = [k \in 0..n |-> Turn(f, k)]
    <3> HIDE DEF Turn
    <3> QED BY <2>3, <2>4
  <2>6. QED BY <2>3, <2>5
<1>6. IsLoop(ranked)
  <2> HIDE DEF IsLoop
  <2> QED BY <1>5, Zenon
<1>7. \A k \in 0..n : ranked[k] = Turn(ranked, k)
  <2> HIDE DEF ranked, Turn
  <2> QED BY <1>6
<1> DEFINE Good(k) == /\ ranked[k] \in States
                      /\ \A x : InSequence(x, ranked[k]) <=> \E i \in 1..k : sweepRows[i] = x
           T == {k \in 0..n : Good(k)}
<1> HIDE DEF ranked, IsLoop, turn
<1>8. Good(0)
  <2>1. ranked[0] = base
    <3> HIDE DEF base, n
    <3> QED BY <1>3, <1>7
  <2>2. \A x : ~InSequence(x, base)
    BY <1>2 DEF InSequence
  <2>3. QED
    <3> HIDE DEF base, States
    <3> QED BY <1>2, <2>1, <2>2
<1>9. ASSUME NEW k \in 1..n, Good(k - 1) PROVE Good(k)
  <2> DEFINE before == ranked[k - 1]
             row == sweepRows[k]
  <2>1. ranked[k] = Placed(before, row)
    <3>1. k \in 0..n /\ k # 0
      BY <1>3
    <3>2. QED BY <1>7, <3>1
  <2>2. /\ before \in Seq(S) /\ ByScore(before) /\ row \in S
        /\ \A x : InSequence(x, before) <=> \E i \in 1..(k - 1) : sweepRows[i] = x
    BY <1>3, <1>9
  <2>3. /\ ranked[k] \in Seq(S) /\ ByScore(ranked[k])
        /\ \A x : InSequence(x, ranked[k]) <=> (x = row \/ InSequence(x, before))
    <3>1. PICK p \in Seq(S), r \in S : p = before /\ r = row
      BY <2>2
    <3>2. ByScore(p)
      BY <2>2, <3>1
    <3>3. /\ Placed(p, r) \in Seq(S) /\ ByScore(Placed(p, r))
          /\ \A x : InSequence(x, Placed(p, r)) <=> (x = r \/ InSequence(x, p))
      BY <3>2, PlacedHolds
    <3>4. ranked[k] = Placed(p, r)
      BY <2>1, <3>1
    <3> HIDE DEF before, row
    <3>5. QED BY <3>1, <3>3, <3>4
  <2>4. ASSUME NEW x
        PROVE  (x = row \/ \E i \in 1..(k - 1) : sweepRows[i] = x) <=> \E i \in 1..k : sweepRows[i] = x
    <3>1. \A i \in 1..k : i \in 1..(k - 1) \/ i = k
      OBVIOUS
    <3>2. k \in 1..k /\ \A i \in 1..(k - 1) : i \in 1..k
      OBVIOUS
    <3>3. QED BY <3>1, <3>2
  <2>5. \A x : InSequence(x, ranked[k]) <=> \E i \in 1..k : sweepRows[i] = x
    <3> HIDE DEF before, row
    <3> QED BY <2>2, <2>3, <2>4
  <2>6. QED BY <2>3, <2>5
<1>10. Good(n)
  <2>1. n \in 0..n /\ 0 \in 0..n /\ \A k \in 1..n : k \in 0..n /\ k - 1 \in 0..n
    BY <1>3
  <2> HIDE DEF Good, n
  <2>2. 0 \in T /\ \A k \in 1..n : k - 1 \in T => k \in T
    BY <1>8, <1>9, <2>1
  <2>3. \A k \in 0..n : k \in T
    <3> HIDE DEF T
    <3> QED BY <1>3, <2>2, Turns
  <2>4. QED BY <2>1, <2>3
<1>11. QED BY <1>1, <1>10 DEF InSequence

\* What stands first in a sequence.
LEMMA FirstHolds ==
    ASSUME NEW S, NEW seq \in Seq(S), NEW limit \in Nat
    PROVE  /\ FirstOf(seq, limit) \in Seq(S)
           /\ Len(FirstOf(seq, limit)) = IF Len(seq) < limit THEN Len(seq) ELSE limit
           /\ \A i \in 1..Len(FirstOf(seq, limit)) : FirstOf(seq, limit)[i] = seq[i]
<1> DEFINE m == IF Len(seq) < limit THEN Len(seq) ELSE limit
<1>1. m \in Nat /\ m <= Len(seq) /\ Len(seq) \in Nat
  OBVIOUS
<1>2. FirstOf(seq, limit) = SubSeq(seq, 1, m)
  BY DEF FirstOf
<1>3. /\ SubSeq(seq, 1, m) \in Seq(S) /\ Len(SubSeq(seq, 1, m)) = m
      /\ \A i \in 1..m : SubSeq(seq, 1, m)[i] = seq[i]
  <2> HIDE DEF m
  <2>1. \A i \in 1..m : seq[i] \in S
    BY <1>1
  <2>2. QED BY <1>1, <2>1
<1>4. QED BY <1>2, <1>3

LEMMA VolumeType ==
    ASSUME NEW shape \in Seq(Nat)
    PROVE  Volume(shape) \in Nat
<1> DEFINE n == Len(shape)
           Turn(f, k) == IF k = 0 THEN 1 ELSE f[k - 1] * shape[k]
           IsLoop(f) == f = [k \in 0..n |-> Turn(f, k)]
           product == CHOOSE f : IsLoop(f)
           turn == [k \in 1..n |-> [x \in Nat |-> x * shape[k]]]
<1>1. Volume(shape) = product[n]
  BY DEF Volume, Product
<1>2. n \in Nat /\ \A k \in 1..n : shape[k] \in Nat
  OBVIOUS
<1>3. \E f : IsLoop(f) /\ f \in [0..n -> Nat]
  <2> DEFINE S == Nat
             base == 1
  <2>1. turn \in [1..n -> [S -> S]] /\ base \in S
    <3>1. \A k \in 1..n, x \in Nat : x * shape[k] \in Nat
      BY <1>2
    <3>2. QED BY <3>1
  <2>2. PICK f : RunOf(f, n, S, base, turn)
    <3> HIDE DEF turn, S, base, n
    <3> QED BY <1>2, <2>1, LoopRuns
  <2>3. f \in [0..n -> Nat] /\ f[0] = 1 /\ \A k \in 1..n : f[k] = turn[k][f[k - 1]]
    <3> HIDE DEF turn, n
    <3> QED BY <2>2 DEF RunOf
  <2>4. ASSUME NEW k \in 0..n PROVE f[k] = Turn(f, k)
    <3>1. CASE k = 0
      BY <2>3, <3>1
    <3>2. CASE k # 0
      <4>1. k \in 1..n /\ k - 1 \in 0..n
        BY <1>2, <3>2
      <4>2. turn[k][f[k - 1]] = f[k - 1] * shape[k]
        BY <2>3, <4>1
      <4>3. QED
        <5> HIDE DEF turn
        <5> QED BY <2>3, <3>2, <4>1, <4>2
    <3>3. QED BY <3>1, <3>2
  <2>5. f = [k \in 0..n |-> Turn(f, k)]
    <3> HIDE DEF Turn
    <3> QED BY <2>3, <2>4
  <2>6. QED BY <2>3, <2>5
<1>4. IsLoop(product)
  <2> HIDE DEF IsLoop
  <2> QED BY <1>3, Zenon
<1>5. \A k \in 0..n : product[k] = Turn(product, k)
  <2> HIDE DEF product, Turn
  <2> QED BY <1>4
<1> DEFINE T == {k \in 0..n : product[k] \in Nat}
<1> HIDE DEF product, IsLoop, turn
<1>6. 0 \in T
  BY <1>2, <1>5
<1>7. ASSUME NEW k \in 1..n, k - 1 \in T PROVE k \in T
  <2>1. k \in 0..n /\ product[k] = product[k - 1] * shape[k]
    BY <1>2, <1>5
  <2>2. product[k - 1] \in Nat /\ shape[k] \in Nat
    BY <1>2, <1>7
  <2>3. product[k - 1] * shape[k] \in Nat
    BY <2>2
  <2>4. QED BY <2>1, <2>3
<1>8. \A k \in 0..n : k \in T
  <2> HIDE DEF T, n
  <2> QED BY <1>2, <1>6, <1>7, Turns
<1>9. QED BY <1>1, <1>2, <1>8

\* However the variants are thinned out, what is left is a list.
LEMMA VariantsList ==
    ASSUME NEW slots \in Nat
    PROVE  \E S : BoundedVariants(slots) \in Seq(S)
<1> DEFINE total == Len(Variants)
           spaced == [k \in 1..slots |-> Rounded((k - 1) * (total - 1), slots - 1)]
           topped == spaced \o InOrder(0..(total - 1) \ Range(spaced), total)
           some == [k \in 1..slots |-> Variants[topped[k] + 1]]
           V == {Variants[i] : i \in 1..Volume(Sizes)}
           W == {some[k] : k \in 1..slots}
<1>1. Volume(Sizes) \in Nat
  <2>1. Sizes \in Seq(Nat)
    <3>1. Sizes \in Seq(Nat \ {0})
      BY SweepAssumption
    <3>2. QED BY <3>1
  <2>2. QED BY <2>1, VolumeType
<1>2. Variants \in Seq(V)
  <2>1. Variants = [i \in 1..Volume(Sizes) |-> AtIndex(Sizes, i - 1)]
    BY DEF Variants
  <2>2. QED
    <3>1. \A i \in 1..Volume(Sizes) : Variants[i] \in V
      OBVIOUS
    <3> HIDE DEF V
    <3>2. QED BY <1>1, <2>1, <3>1
<1>3. FirstOf(Variants, 1) \in Seq(V)
  <2> HIDE DEF V
  <2> QED BY <1>2, FirstHolds
<1>4. some \in Seq(W)
  <2>1. \A k \in 1..slots : some[k] \in W
    OBVIOUS
  <2>2. DOMAIN some = 1..slots /\ some = [k \in 1..slots |-> some[k]]
    OBVIOUS
  <2> HIDE DEF some, W
  <2>3. QED BY <2>1, <2>2
<1>5. \/ BoundedVariants(slots) = Variants
      \/ BoundedVariants(slots) = FirstOf(Variants, 1)
      \/ BoundedVariants(slots) = some
  BY Zenon DEF BoundedVariants
<1>6. QED
  <2> HIDE DEF some, V, W
  <2> QED BY <1>2, <1>3, <1>4, <1>5

DistinctIds(sets) == \A i, j \in 1..Len(sets) : i # j => sets[i].id # sets[j].id

\* Every parameter set gets an id of its own.
LEMMA SetsHaveIds ==
    ASSUME NEW base, NEW limit \in Nat
    PROVE  /\ \E S : ParameterSets(base, limit) \in Seq(S)
           /\ DistinctIds(ParameterSets(base, limit))
<1> DEFINE slots == IF limit = 0 THEN 0 ELSE limit - 1
           ordered == BoundedVariants(slots)
           count == IF limit = 0 THEN Len(ordered) ELSE IF limit = 1 THEN 1 ELSE limit - 1
           variants == FirstOf(ordered, count)
           m == Len(variants)
           first == [id |-> <<"baseline", 0>>, values |-> base]
           rest == [i \in DOMAIN variants |-> [id |-> <<"economic", i>>, values |-> variants[i]]]
           sets == <<first>> \o rest
<1>1. ParameterSets(base, limit) = sets
  BY Zenon DEF ParameterSets
<1>2. slots \in Nat
  OBVIOUS
<1>3. PICK V : ordered \in Seq(V)
  BY <1>2, VariantsList
<1>4. count \in Nat
  BY <1>3
<1>5. variants \in Seq(V)
  <2> HIDE DEF ordered, count
  <2> QED BY <1>3, <1>4, FirstHolds
<1> HIDE DEF variants
<1>6. m \in Nat /\ DOMAIN variants = 1..m
  BY <1>5
<1> DEFINE S == {first} \cup {rest[i] : i \in 1..m}
<1>7. /\ rest \in Seq(S) /\ Len(rest) = m
      /\ \A i \in 1..m : rest[i] = [id |-> <<"economic", i>>, values |-> variants[i]]
  <2>1. \A i \in 1..m : rest[i] \in S
    OBVIOUS
  <2>2. rest = [i \in 1..m |-> [id |-> <<"economic", i>>, values |-> variants[i]]]
    BY <1>6
  <2>3. rest = [i \in 1..m |-> rest[i]]
    BY <2>2
  <2>4. rest \in Seq(S) /\ Len(rest) = m
    <3> HIDE DEF S, rest
    <3> QED BY <1>6, <2>1, <2>3
  <2>5. QED BY <2>2, <2>4
<1>8. first \in S
  OBVIOUS
<1> HIDE DEF S, rest
<1>9. <<first>> \in Seq(S) /\ Len(<<first>>) = 1 /\ <<first>>[1] = first
  <2> HIDE DEF first
  <2> QED BY <1>8
<1>10. /\ sets \in Seq(S) /\ Len(sets) = m + 1 /\ sets[1] = first
       /\ \A i \in 2..(m + 1) : sets[i] = rest[i - 1]
  <2> HIDE DEF first
  <2>1. PICK one \in Seq(S) : one = <<first>>
    BY <1>9
  <2>2. Len(one) = 1 /\ one[1] = first /\ sets = one \o rest
    BY <1>9, <2>1
  <2>3. QED BY <1>6, <1>7, <2>2, ConcatProperties
<1>11. \A i \in 1..(m + 1) : sets[i].id = IF i = 1 THEN <<"baseline", 0>> ELSE <<"economic", i - 1>>
  <2>1. SUFFICES ASSUME NEW i \in 1..(m + 1)
                 PROVE  sets[i].id = IF i = 1 THEN <<"baseline", 0>> ELSE <<"economic", i - 1>>
    OBVIOUS
  <2>2. CASE i = 1
    <3>1. sets[i] = first
      BY <1>10, <2>2
    <3> HIDE DEF sets
    <3>2. QED BY <2>2, <3>1
  <2>3. CASE i # 1
    <3>1. i \in 2..(m + 1) /\ i - 1 \in 1..m
      BY <1>6, <2>3
    <3>2. sets[i] = rest[i - 1] /\ rest[i - 1] = [id |-> <<"economic", i - 1>>, values |-> variants[i - 1]]
      BY <1>7, <1>10, <3>1
    <3> HIDE DEF sets
    <3>3. QED BY <2>3, <3>2
  <2>4. QED BY <2>2, <2>3
<1>12. DistinctIds(sets)
  <2> HIDE DEF sets
  <2>1. SUFFICES ASSUME NEW i \in 1..(m + 1), NEW j \in 1..(m + 1), i # j
                 PROVE  sets[i].id # sets[j].id
    BY <1>10 DEF DistinctIds
  <2>2. <<"economic", i - 1>> # <<"economic", j - 1>>
    <3>1. i - 1 # j - 1
      BY <1>6, <2>1
    <3>2. \A a, b : <<"economic", a>> = <<"economic", b>> => a = b
      OBVIOUS
    <3>3. QED BY <3>1, <3>2
  <2>3. \A a, b : <<"baseline", a>> # <<"economic", b>>
    <3>1. "baseline" # "economic"
      OBVIOUS
    <3>2. \A a, b, c, d : <<c, a>> = <<d, b>> => c = d
      OBVIOUS
    <3>3. QED BY <3>1, <3>2
  <2>4. QED BY <1>11, <2>1, <2>2, <2>3
<1>13. QED
  <2> HIDE DEF sets
  <2> QED BY <1>1, <1>10, <1>12

\* A row is what its id says, and if it was accepted it gained in two splits.
RowOK(row) ==
    /\ row.score \in Int
    /\ row.id \in DOMAIN configurations
    /\ row.labels = Labels(configurations[row.id])
    /\ row.reasons = {} => row.profitable >= 2

\* Rows of one id and strategy are one row.
RowsDiffer ==
    \A i, j \in 1..Len(sweepRows) :
        sweepRows[i].id = sweepRows[j].id /\ sweepRows[i].strategy = sweepRows[j].strategy => i = j

SweepInv ==
    /\ \E S : todo \in Seq(S)
    /\ DistinctIds(todo)
    /\ \A i \in 1..Len(todo) : todo[i].id \notin DOMAIN configurations
    /\ \E S : sweepRows \in Seq(S)
    /\ \A i \in 1..Len(sweepRows) : RowOK(sweepRows[i])
    /\ RowsDiffer
    /\ \A key \in DOMAIN predictions : predictions[key].labels = key /\ predictions[key].splits \in Nat
    /\ sweep = "idle" => DOMAIN configurations = {}
    /\ sweepSummary.found => sweep = "done"
    /\ RecommendedHoldsUp

LEMMA SweepInitial == SweepInit => SweepInv
<1>1. SUFFICES ASSUME SweepInit PROVE SweepInv
  OBVIOUS
<1>2. /\ todo = <<>> /\ sweepRows = <<>> /\ predictions = <<>> /\ configurations = <<>>
      /\ sweep = "idle" /\ sweepSummary = [found |-> FALSE]
  BY <1>1 DEF SweepInit, NoFile
<1>3. /\ <<>> \in Seq(Int) /\ Len(<<>>) = 0 /\ 1..0 = {} /\ DOMAIN <<>> = {}
  OBVIOUS
<1>4. ~sweepSummary.found
  BY <1>2
<1>5. RecommendedHoldsUp
  BY <1>4 DEF RecommendedHoldsUp
<1>6. DistinctIds(todo) /\ RowsDiffer
  BY <1>2, <1>3 DEF DistinctIds, RowsDiffer
<1>7. \E S : todo \in Seq(S) /\ sweepRows \in Seq(S)
  BY <1>2, <1>3
<1>8. QED BY <1>2, <1>3, <1>4, <1>5, <1>6, <1>7 DEF SweepInv

LEMMA SweepStarts == SweepInv /\ StartSweep => SweepInv'
<1>1. SUFFICES ASSUME SweepInv, StartSweep PROVE SweepInv'
  OBVIOUS
<1>2. PICK base \in Bases, limit \in SweepLimits : todo' = ParameterSets(base, limit)
  BY <1>1 DEF StartSweep
<1>3. limit \in Nat
  BY SweepAssumption
<1>4. (\E S : todo' \in Seq(S)) /\ DistinctIds(todo')
  BY <1>2, <1>3, SetsHaveIds
<1>5. /\ sweep = "idle" /\ sweep' = "running"
      /\ predictions' = predictions /\ configurations' = configurations
      /\ sweepRows' = sweepRows /\ sweepSummary' = sweepSummary
  BY <1>1 DEF StartSweep
<1>6. /\ \E S : sweepRows \in Seq(S)
      /\ \A i \in 1..Len(sweepRows) : RowOK(sweepRows[i])
      /\ RowsDiffer
      /\ \A key \in DOMAIN predictions : predictions[key].labels = key /\ predictions[key].splits \in Nat
      /\ sweep = "idle" => DOMAIN configurations = {}
      /\ sweepSummary.found => sweep = "done"
  BY <1>1 DEF SweepInv
<1>7. ~sweepSummary'.found
  BY <1>5, <1>6
<1>8. RecommendedHoldsUp'
  BY <1>7 DEF RecommendedHoldsUp
<1>9. RowsDiffer' /\ \A i \in 1..Len(sweepRows') : RowOK(sweepRows[i])'
  BY <1>5, <1>6 DEF RowsDiffer, RowOK
<1>10. DistinctIds(todo)'
  BY <1>4 DEF DistinctIds
<1>11. \A i \in 1..Len(todo') : todo'[i].id \notin DOMAIN configurations'
  BY <1>5, <1>6
<1>12. (\E S : todo' \in Seq(S)) /\ (\E S : sweepRows' \in Seq(S))
  BY <1>4, <1>5, <1>6
<1>13. /\ \A key \in DOMAIN predictions' : predictions'[key].labels = key /\ predictions'[key].splits \in Nat
       /\ sweep' # "idle" /\ (sweepSummary'.found => sweep' = "done")
  BY <1>5, <1>6, <1>7
<1>14. QED BY <1>8, <1>9, <1>10, <1>11, <1>12, <1>13 DEF SweepInv

LEMMA SweepEvaluates == SweepInv /\ EvaluateSet => SweepInv'
<1>1. SUFFICES ASSUME SweepInv, EvaluateSet PROVE SweepInv'
  OBVIOUS
<1> DEFINE set == Head(todo)
           key == CacheKey(set.values)
<1>2. /\ sweep = "running" /\ todo # <<>> /\ todo' = Tail(todo)
      /\ sweep' = sweep /\ sweepSummary' = sweepSummary
  BY <1>1 DEF EvaluateSet
<1>3. /\ \E S : todo \in Seq(S)
      /\ DistinctIds(todo)
      /\ \A i \in 1..Len(todo) : todo[i].id \notin DOMAIN configurations
      /\ \E S : sweepRows \in Seq(S)
      /\ \A i \in 1..Len(sweepRows) : RowOK(sweepRows[i])
      /\ RowsDiffer
      /\ \A k \in DOMAIN predictions : predictions[k].labels = k /\ predictions[k].splits \in Nat
      /\ sweepSummary.found => sweep = "done"
  BY <1>1 DEF SweepInv
<1>27. PICK splits \in SplitCounts, result \in Results : \E prediction :
        /\ key \in DOMAIN predictions => splits = predictions[key].splits
        /\ splits = 0 \/ \A n \in 1..StrategyCount : TradedWithin(result[n].trades, splits)
        /\ prediction = IF key \in DOMAIN predictions THEN predictions[key]
                        ELSE [labels |-> Labels(set.values), splits |-> splits]
        /\ predictions' = WithEntry(predictions, key, prediction)
        /\ sweepRows' = sweepRows \o
                [n \in 1..StrategyCount |-> SweepRow(set, n, prediction, result[n])]
        /\ configurations' = WithEntry(configurations, set.id, set.values)
  BY <1>1, Zenon DEF EvaluateSet
<1>4. PICK prediction :
        /\ key \in DOMAIN predictions => splits = predictions[key].splits
        /\ splits = 0 \/ \A n \in 1..StrategyCount : TradedWithin(result[n].trades, splits)
        /\ prediction = IF key \in DOMAIN predictions THEN predictions[key]
                        ELSE [labels |-> Labels(set.values), splits |-> splits]
        /\ predictions' = WithEntry(predictions, key, prediction)
        /\ sweepRows' = sweepRows \o
                [n \in 1..StrategyCount |-> SweepRow(set, n, prediction, result[n])]
        /\ configurations' = WithEntry(configurations, set.id, set.values)
  BY <1>27, Zenon
<1>5. splits \in Nat /\ StrategyCount \in Nat
      /\ \A n \in 1..StrategyCount :
            result[n].trades \in Seq(SweepTrades) /\ result[n].ambiguous \in Nat
  BY SweepAssumption DEF SweepTrades
<1>6. key = Labels(set.values)
  BY Zenon DEF CacheKey, Labels
<1>7. prediction.labels = Labels(set.values) /\ prediction.splits = splits
  <2>1. CASE key \in DOMAIN predictions
    <3>1. prediction = predictions[key] /\ splits = predictions[key].splits
      BY <1>4, <2>1
    <3>2. predictions[key].labels = key
      BY <1>3, <2>1
    <3>3. QED BY <1>6, <3>1, <3>2
  <2>2. CASE key \notin DOMAIN predictions
    <3>1. prediction = [labels |-> Labels(set.values), splits |-> splits]
      BY <1>4, <2>2
    <3>2. QED BY <3>1
  <2>3. QED BY <2>1, <2>2
<1>8. PICK T : todo \in Seq(T)
  BY <1>3
<1>9. /\ Len(todo) \in Nat /\ Len(todo) >= 1 /\ set = todo[1] /\ Len(Tail(todo)) = Len(todo) - 1
      /\ Tail(todo) \in Seq(T) /\ \A i \in 1..(Len(todo) - 1) : Tail(todo)[i] = todo[i + 1]
  BY <1>2, <1>8
<1>10. set.id \notin DOMAIN configurations
  BY <1>3, <1>9
<1>11. \A i \in 1..(Len(todo) - 1) : Tail(todo)[i].id # set.id
  <2>1. SUFFICES ASSUME NEW i \in 1..(Len(todo) - 1) PROVE Tail(todo)[i].id # set.id
    OBVIOUS
  <2>2. i + 1 \in 1..Len(todo) /\ 1 \in 1..Len(todo) /\ i + 1 # 1
    BY <1>9
  <2>3. todo[i + 1].id # todo[1].id
    BY <1>3, <2>2 DEF DistinctIds
  <2>4. QED BY <1>9, <2>3
<1>12. DistinctIds(todo)'
  <2>1. SUFFICES ASSUME NEW i \in 1..(Len(todo) - 1), NEW j \in 1..(Len(todo) - 1), i # j
                 PROVE  Tail(todo)[i].id # Tail(todo)[j].id
    BY <1>2, <1>9 DEF DistinctIds
  <2>2. i + 1 \in 1..Len(todo) /\ j + 1 \in 1..Len(todo) /\ i + 1 # j + 1
    <3>1. i + 1 \in 1..Len(todo) /\ j + 1 \in 1..Len(todo)
      BY <1>9
    <3>2. i \in Int /\ j \in Int
      OBVIOUS
    <3>3. i + 1 # j + 1
      BY <2>1, <3>2
    <3>4. QED BY <3>1, <3>3
  <2>3. todo[i + 1].id # todo[j + 1].id
    BY <1>3, <2>2 DEF DistinctIds
  <2>4. QED BY <1>9, <2>3
<1>13. /\ DOMAIN configurations' = DOMAIN configurations \cup {set.id}
       /\ configurations'[set.id] = set.values
       /\ \A id \in DOMAIN configurations : configurations'[id] = configurations[id]
  BY <1>4, <1>10 DEF WithEntry
<1>14. \A i \in 1..Len(todo') : todo'[i].id \notin DOMAIN configurations'
  <2>1. SUFFICES ASSUME NEW i \in 1..(Len(todo) - 1)
                 PROVE  Tail(todo)[i].id \notin DOMAIN configurations'
    BY <1>2, <1>9
  <2>2. i + 1 \in 1..Len(todo) /\ Tail(todo)[i] = todo[i + 1]
    BY <1>9
  <2>3. Tail(todo)[i].id \notin DOMAIN configurations
    BY <1>3, <2>2
  <2>4. QED BY <1>11, <1>13, <2>3
<1> DEFINE added == [n \in 1..StrategyCount |-> SweepRow(set, n, prediction, result[n])]
           m == Len(sweepRows)
           A == {added[n] : n \in 1..StrategyCount}
<1> HIDE DEF set, key
<1>15. \A n \in 1..StrategyCount :
            /\ added[n].id = set.id /\ added[n].strategy = n
            /\ added[n].labels = Labels(set.values) /\ added[n].score \in Int
            /\ added[n].reasons = {} => added[n].profitable >= 2
  <2>1. SUFFICES ASSUME NEW n \in 1..StrategyCount
                 PROVE  /\ added[n].id = set.id /\ added[n].strategy = n
                        /\ added[n].labels = Labels(set.values) /\ added[n].score \in Int
                        /\ added[n].reasons = {} => added[n].profitable >= 2
    OBVIOUS
  <2>2. PICK r : r = result[n]
    OBVIOUS
  <2>3. /\ r.trades \in Seq(SweepTrades) /\ r.ambiguous \in Nat /\ prediction.splits \in Nat
        /\ prediction.splits = 0 \/ TradedWithin(r.trades, prediction.splits)
    BY <1>4, <1>5, <1>7, <2>2
  <2>4. PICK row : row = SweepRow(set, n, prediction, r)
    OBVIOUS
  <2>5. /\ row.id = set.id /\ row.strategy = n /\ row.labels = prediction.labels
        /\ row.score \in Int /\ (row.reasons = {} => row.profitable >= 2)
    BY <2>3, <2>4, RowHolds
  <2>6. added[n] = row
    BY <2>2, <2>4
  <2> HIDE DEF added
  <2>7. QED BY <1>7, <2>5, <2>6
<1>16. added \in Seq(A) /\ Len(added) = StrategyCount
  <2>1. \A n \in 1..StrategyCount : added[n] \in A
    OBVIOUS
  <2>2. added = [n \in 1..StrategyCount |-> added[n]]
    OBVIOUS
  <2> HIDE DEF added, A
  <2>3. QED BY <1>5, <2>1, <2>2
<1> HIDE DEF added
<1>17. PICK S : sweepRows \in Seq(S)
  BY <1>3
<1>18. /\ m \in Nat /\ sweepRows' \in Seq(S \cup A) /\ Len(sweepRows') = m + StrategyCount
       /\ \A i \in 1..(m + StrategyCount) :
            sweepRows'[i] = IF i <= m THEN sweepRows[i] ELSE added[i - m]
  <2>1. sweepRows' = sweepRows \o added
    BY <1>4 DEF added
  <2>2. PICK B : B = S \cup A
    OBVIOUS
  <2>3. sweepRows \in Seq(B) /\ added \in Seq(B)
    <3> HIDE DEF A
    <3> QED BY <1>16, <1>17, <2>2
  <2>4. m \in Nat
    BY <1>17
  <2>5. /\ sweepRows' \in Seq(B) /\ Len(sweepRows') = m + StrategyCount
        /\ \A i \in 1..(m + StrategyCount) :
            sweepRows'[i] = IF i <= m THEN sweepRows[i] ELSE added[i - m]
    BY <1>16, <2>1, <2>3, ConcatProperties
  <2>6. QED
    <3> HIDE DEF A
    <3> QED BY <2>2, <2>4, <2>5
<1> HIDE DEF A
<1>19. \A i \in 1..(m + StrategyCount) :
            \/ i \in 1..m /\ sweepRows'[i] = sweepRows[i]
            \/ i - m \in 1..StrategyCount /\ sweepRows'[i] = added[i - m] /\ i > m
  BY <1>5, <1>18
<1>20. \A i \in 1..Len(sweepRows') : RowOK(sweepRows[i])'
  <2>1. SUFFICES ASSUME NEW i \in 1..(m + StrategyCount) PROVE RowOK(sweepRows[i])'
    BY <1>18
  <2>2. CASE i \in 1..m /\ sweepRows'[i] = sweepRows[i]
    <3>1. RowOK(sweepRows[i])
      BY <1>3, <2>2
    <3>2. QED BY <1>13, <2>2, <3>1 DEF RowOK
  <2>3. CASE i - m \in 1..StrategyCount /\ sweepRows'[i] = added[i - m]
    <3>1. PICK row : row = added[i - m] /\ row = sweepRows'[i]
      BY <2>3
    <3>2. /\ row.id = set.id /\ row.labels = Labels(set.values) /\ row.score \in Int
          /\ row.reasons = {} => row.profitable >= 2
      BY <1>15, <2>3, <3>1
    <3>3. set.id \in DOMAIN configurations' /\ Labels(configurations'[set.id]) = Labels(set.values)
      BY <1>13
    <3>4. Labels(configurations[sweepRows[i].id])' = Labels(configurations'[row.id])
      BY <3>1, Zenon DEF Labels
    <3>5. QED BY <3>1, <3>2, <3>3, <3>4 DEF RowOK
  <2>4. QED BY <1>19, <2>2, <2>3
<1>21. RowsDiffer'
  <2>1. SUFFICES ASSUME NEW i \in 1..(m + StrategyCount), NEW j \in 1..(m + StrategyCount),
                        sweepRows'[i].id = sweepRows'[j].id,
                        sweepRows'[i].strategy = sweepRows'[j].strategy
                 PROVE  i = j
    BY <1>18 DEF RowsDiffer
  <2>2. \A k \in 1..(m + StrategyCount) :
            \/ k \in 1..m /\ sweepRows'[k] = sweepRows[k] /\ sweepRows'[k].id # set.id
            \/ /\ k - m \in 1..StrategyCount /\ sweepRows'[k].id = set.id
               /\ sweepRows'[k].strategy = k - m
    <3>1. \A k \in 1..m : sweepRows[k].id # set.id
      BY <1>3, <1>10 DEF RowOK
    <3>2. QED BY <1>15, <1>19, <3>1
  <2>3. CASE i \in 1..m /\ j \in 1..m /\ sweepRows'[i] = sweepRows[i] /\ sweepRows'[j] = sweepRows[j]
    BY <1>3, <2>1, <2>3 DEF RowsDiffer
  <2>4. CASE i - m = j - m
    BY <1>18, <2>4
  <2>5. QED BY <2>1, <2>2, <2>3, <2>4
<1>22. \A k \in DOMAIN predictions' : predictions'[k].labels = k /\ predictions'[k].splits \in Nat
  <2>1. prediction.labels = key /\ prediction.splits \in Nat
    BY <1>5, <1>6, <1>7
  <2>2. SUFFICES ASSUME NEW k \in DOMAIN predictions \cup {key}
                 PROVE  predictions'[k].labels = k /\ predictions'[k].splits \in Nat
    BY <1>4 DEF WithEntry
  <2>3. predictions'[k] = IF k = key THEN prediction ELSE predictions[k]
    BY <1>4 DEF WithEntry
  <2>4. QED BY <1>3, <2>1, <2>3
<1>23. ~sweepSummary'.found /\ sweep' # "idle"
  BY <1>2, <1>3
<1>24. RecommendedHoldsUp'
  BY <1>23 DEF RecommendedHoldsUp
<1>25. (\E B : todo' \in Seq(B)) /\ (\E B : sweepRows' \in Seq(B))
  BY <1>2, <1>9, <1>18
<1>26. QED BY <1>12, <1>14, <1>20, <1>21, <1>22, <1>23, <1>24, <1>25 DEF SweepInv

\* What is accepted: the accepted rows and no others, the best first.
LEMMA AcceptedHolds ==
    ASSUME SweepInv
    PROVE  \E S : /\ Accepted \in Seq(S) /\ ByScore(Accepted)
                  /\ \A x : InSequence(x, Accepted) <=> InSequence(x, sweepRows) /\ x.reasons = {}
<1>1. PICK R : sweepRows \in Seq(R)
  BY DEF SweepInv
<1> DEFINE S == {r \in R : r.score \in Int}
           n == Len(sweepRows)
           wanted == {i \in DOMAIN Ranked : Ranked[i].reasons = {}}
<1>2. n \in Nat /\ \A i \in 1..n : sweepRows[i] \in S
  BY <1>1 DEF SweepInv, RowOK
<1>3. sweepRows \in Seq(S)
  <2>1. sweepRows = [i \in 1..n |-> sweepRows[i]]
    BY <1>1
  <2> HIDE DEF S
  <2>2. QED BY <1>2, <2>1
<1>4. \A r \in S : r.score \in Int
  OBVIOUS
<1> HIDE DEF S
<1>5. /\ Ranked \in Seq(S) /\ ByScore(Ranked)
      /\ \A x : InSequence(x, Ranked) <=> InSequence(x, sweepRows)
  BY <1>3, <1>4, RankedHolds
<1>6. PICK ranked \in Seq(S) : ranked = Ranked
  BY <1>5
<1>7. PICK w : w = wanted
  OBVIOUS
<1>8. Accepted = Kept(ranked, w)
  BY <1>6, <1>7, Zenon DEF Accepted
<1>9. /\ Kept(ranked, w) \in Seq(S)
      /\ \A x : InSequence(x, Kept(ranked, w)) <=> \E k \in 1..Len(ranked) : k \in w /\ ranked[k] = x
      /\ ByScore(ranked) => ByScore(Kept(ranked, w))
  BY KeptRows
<1>10. \A k \in 1..Len(ranked) : k \in w <=> ranked[k].reasons = {}
  BY <1>6, <1>7
<1>11. ASSUME NEW x
       PROVE  InSequence(x, Accepted) <=> InSequence(x, sweepRows) /\ x.reasons = {}
  <2>1. InSequence(x, Accepted) <=> \E k \in 1..Len(ranked) : ranked[k].reasons = {} /\ ranked[k] = x
    BY <1>8, <1>9, <1>10
  <2>2. InSequence(x, sweepRows) <=> \E k \in 1..Len(ranked) : ranked[k] = x
    BY <1>5, <1>6 DEF InSequence
  <2>3. QED BY <2>1, <2>2
<1>12. Accepted \in Seq(S) /\ ByScore(Accepted)
  BY <1>5, <1>6, <1>8, <1>9
<1>13. QED BY <1>11, <1>12

\* What is to hold of the ith row recommended.
Backed(recommended, best, configured, rows, i) ==
    LET row == recommended[i]
    IN  /\ row.labels = Labels(configured[row.id])
        /\ row.reasons = {} /\ row.profitable >= 2
        /\ best[i] = row
        /\ \A j \in DOMAIN rows :
            LET other == rows[j]
            IN  /\ other.id = row.id /\ other.strategy = row.strategy => other = row
                /\ other.reasons = {} /\ other.score > row.score =>
                    \E k \in 1..(i - 1) : recommended[k] = other

LEMMA SweepSums == SweepInv /\ WriteSummary => SweepInv'
<1>1. SUFFICES ASSUME SweepInv, WriteSummary PROVE SweepInv'
  OBVIOUS
<1> DEFINE chosen == IF Stable # <<>> THEN Stable ELSE Accepted
<1>2. /\ sweep' = "done" /\ todo' = todo /\ predictions' = predictions
      /\ configurations' = configurations /\ sweepRows' = sweepRows
      /\ sweepSummary' = [found |-> TRUE, configurations |-> configurations,
            best |-> FirstOf(Accepted, 10), recommended |-> FirstOf(chosen, 3)]
  BY <1>1 DEF WriteSummary
<1>3. /\ \E S : todo \in Seq(S)
      /\ DistinctIds(todo)
      /\ \A i \in 1..Len(todo) : todo[i].id \notin DOMAIN configurations
      /\ \E S : sweepRows \in Seq(S)
      /\ \A i \in 1..Len(sweepRows) : RowOK(sweepRows[i])
      /\ RowsDiffer
      /\ \A key \in DOMAIN predictions : predictions[key].labels = key /\ predictions[key].splits \in Nat
  BY <1>1 DEF SweepInv
<1>4. PICK S : /\ Accepted \in Seq(S) /\ ByScore(Accepted)
               /\ \A x : InSequence(x, Accepted) <=> InSequence(x, sweepRows) /\ x.reasons = {}
  BY <1>1, AcceptedHolds
<1>5. PICK accepted \in Seq(S) : accepted = Accepted
  BY <1>4
<1> DEFINE m == Len(accepted)
<1>6. \A i \in 1..m : /\ accepted[i].reasons = {} /\ RowOK(accepted[i])
                      /\ \E j \in 1..Len(sweepRows) : sweepRows[j] = accepted[i]
  <2>1. SUFFICES ASSUME NEW i \in 1..m
                 PROVE  /\ accepted[i].reasons = {} /\ RowOK(accepted[i])
                        /\ \E j \in 1..Len(sweepRows) : sweepRows[j] = accepted[i]
    OBVIOUS
  <2>2. PICK x : x = accepted[i]
    OBVIOUS
  <2>3. InSequence(x, Accepted)
    BY <1>5, <2>2 DEF InSequence
  <2>4. InSequence(x, sweepRows) /\ x.reasons = {}
    BY <1>4, <2>3
  <2>5. PICK j \in 1..Len(sweepRows) : sweepRows[j] = x
    BY <2>4 DEF InSequence
  <2>6. RowOK(sweepRows[j])
    BY <1>3
  <2>7. RowOK(x)
    BY <2>5, <2>6
  <2>8. QED BY <2>2, <2>4, <2>5, <2>7
<1>7. Stable = Accepted
  <2>1. PICK w : w = {i \in DOMAIN Accepted : Accepted[i].profitable >= 2}
    OBVIOUS
  <2>2. Stable = Kept(accepted, w)
    BY <1>5, <2>1, Zenon DEF Stable
  <2>3. 1..Len(accepted) \subseteq w
    <3>1. \A i \in 1..m : accepted[i].profitable >= 2
      BY <1>6 DEF RowOK
    <3>2. QED BY <1>5, <2>1, <3>1
  <2>4. Kept(accepted, w) = accepted
    BY <2>3, KeptAll
  <2>5. QED BY <1>5, <2>2, <2>4
<1>8. chosen = accepted
  BY <1>5, <1>7
<1> HIDE DEF chosen
<1>9. PICK best, recommended : best = FirstOf(accepted, 10) /\ recommended = FirstOf(accepted, 3)
  OBVIOUS
<1>10. /\ best \in Seq(S) /\ Len(best) = (IF m < 10 THEN m ELSE 10)
       /\ \A i \in 1..Len(best) : best[i] = accepted[i]
  <2>1. PICK ten \in Nat : ten = 10
    OBVIOUS
  <2>2. /\ FirstOf(accepted, ten) \in Seq(S)
        /\ Len(FirstOf(accepted, ten)) = IF m < ten THEN m ELSE ten
        /\ \A i \in 1..Len(FirstOf(accepted, ten)) : FirstOf(accepted, ten)[i] = accepted[i]
    BY FirstHolds
  <2>3. best = FirstOf(accepted, ten)
    BY <1>9, <2>1
  <2>4. QED BY <2>1, <2>2, <2>3
<1>11. /\ recommended \in Seq(S) /\ Len(recommended) = (IF m < 3 THEN m ELSE 3)
       /\ \A i \in 1..Len(recommended) : recommended[i] = accepted[i]
  <2>1. PICK three \in Nat : three = 3
    OBVIOUS
  <2>2. /\ FirstOf(accepted, three) \in Seq(S)
        /\ Len(FirstOf(accepted, three)) = IF m < three THEN m ELSE three
        /\ \A i \in 1..Len(FirstOf(accepted, three)) : FirstOf(accepted, three)[i] = accepted[i]
    BY FirstHolds
  <2>3. recommended = FirstOf(accepted, three)
    BY <1>9, <2>1
  <2>4. QED BY <2>1, <2>2, <2>3
<1>12. m \in Nat
  OBVIOUS
<1>13. /\ sweepSummary'.found /\ sweepSummary'.best = best
       /\ sweepSummary'.recommended = recommended /\ sweepSummary'.configurations = configurations
  <2>1. best = FirstOf(Accepted, 10) /\ recommended = FirstOf(chosen, 3)
    BY <1>5, <1>8, <1>9
  <2>2. sweepSummary' = [found |-> TRUE, configurations |-> configurations,
            best |-> best, recommended |-> recommended]
    BY <1>2, <2>1
  <2>3. QED BY <2>2
<1>14. ASSUME NEW i \in 1..Len(recommended)
       PROVE  Backed(recommended, best, configurations, sweepRows, i)
  <2>1. i \in 1..m /\ i \in 1..Len(best) /\ i \in 1..3 /\ i \in Nat
    BY <1>10, <1>11, <1>12
  <2>2. PICK row : row = recommended[i]
    OBVIOUS
  <2>3. row = accepted[i] /\ best[i] = row
    BY <1>10, <1>11, <2>1, <2>2
  <2>4. RowOK(row) /\ row.reasons = {} /\ \E j \in 1..Len(sweepRows) : sweepRows[j] = row
    BY <1>6, <2>1, <2>3
  <2>5. ASSUME NEW j \in DOMAIN sweepRows
        PROVE  LET other == sweepRows[j]
               IN  /\ other.id = row.id /\ other.strategy = row.strategy => other = row
                   /\ other.reasons = {} /\ other.score > row.score =>
                        \E k \in 1..(i - 1) : recommended[k] = other
    <3>1. j \in 1..Len(sweepRows)
      BY <1>3
    <3>2. PICK other : other = sweepRows[j]
      OBVIOUS
    <3>3. ASSUME other.id = row.id, other.strategy = row.strategy PROVE other = row
      <4>1. PICK k \in 1..Len(sweepRows) : sweepRows[k] = row
        BY <2>4
      <4>2. j = k
        BY <1>3, <3>1, <3>2, <3>3, <4>1 DEF RowsDiffer
      <4>3. QED BY <3>2, <4>1, <4>2
    <3>4. ASSUME other.reasons = {}, other.score > row.score
          PROVE  \E k \in 1..(i - 1) : recommended[k] = other
      <4>1. InSequence(other, Accepted)
        BY <1>4, <3>1, <3>2, <3>4 DEF InSequence
      <4>2. PICK k \in 1..m : accepted[k] = other
        BY <1>5, <4>1 DEF InSequence
      <4>3. other.score \in Int /\ row.score \in Int
        BY <1>6, <2>4, <4>2 DEF RowOK
      <4>4. ASSUME ~(k < i) PROVE FALSE
        <5>1. k # i
          BY <2>3, <3>4, <4>2, <4>3
        <5>2. i < k
          BY <2>1, <4>4, <5>1
        <5>3. accepted[i].score >= accepted[k].score
          BY <1>4, <1>5, <2>1, <5>2 DEF ByScore
        <5>4. QED BY <2>3, <3>4, <4>2, <4>3, <5>3
      <4>5. k \in 1..(i - 1) /\ k \in 1..Len(recommended)
        BY <1>11, <1>12, <2>1, <4>4
      <4>6. recommended[k] = other
        BY <1>11, <4>2, <4>5
      <4>7. QED BY <4>5, <4>6
    <3>5. QED BY <3>2, <3>3, <3>4
  <2>6. row.labels = Labels(configurations[row.id]) /\ row.profitable >= 2
    BY <2>4 DEF RowOK
  <2>7. QED BY <2>2, <2>3, <2>4, <2>5, <2>6 DEF Backed
<1>15. RecommendedHoldsUp'
  <2>1. recommended \in Seq(S)
    BY <1>11
  <2>2. DOMAIN recommended = 1..Len(recommended)
    BY <2>1
  <2>3. RecommendedHoldsUp' <=>
            (sweepSummary'.found =>
                \A i \in DOMAIN sweepSummary'.recommended :
                    Backed(sweepSummary'.recommended, sweepSummary'.best,
                           sweepSummary'.configurations, sweepRows', i))
    BY DEF RecommendedHoldsUp, Backed
  <2>4. QED BY <1>2, <1>13, <1>14, <2>2, <2>3
<1>16. /\ \A i \in 1..Len(sweepRows') : RowOK(sweepRows[i])'
       /\ RowsDiffer' /\ DistinctIds(todo)'
  BY <1>2, <1>3 DEF RowOK, RowsDiffer, DistinctIds
<1>17. /\ \E T : todo' \in Seq(T)
       /\ \E T : sweepRows' \in Seq(T)
       /\ \A i \in 1..Len(todo') : todo'[i].id \notin DOMAIN configurations'
       /\ \A key \in DOMAIN predictions' : predictions'[key].labels = key /\ predictions'[key].splits \in Nat
       /\ sweep' = "done"
  BY <1>2, <1>3
<1>18. QED BY <1>15, <1>16, <1>17 DEF SweepInv

\* Writing a candidate, and steps that are not the sweep's, change nothing else.
LEMMA SweepRests ==
    SweepInv /\ UNCHANGED <<sweep, todo, predictions, configurations, sweepRows, sweepSummary>>
        => SweepInv'
<1>1. SUFFICES ASSUME SweepInv,
                      UNCHANGED <<sweep, todo, predictions, configurations, sweepRows, sweepSummary>>
               PROVE  SweepInv'
  OBVIOUS
<1>2. /\ sweep' = sweep /\ todo' = todo /\ predictions' = predictions
      /\ configurations' = configurations /\ sweepRows' = sweepRows /\ sweepSummary' = sweepSummary
  BY <1>1
<1>3. DistinctIds(todo)' /\ RowsDiffer' /\ RecommendedHoldsUp'
  BY <1>1, <1>2 DEF SweepInv, DistinctIds, RowsDiffer, RecommendedHoldsUp
<1>4. \A i \in 1..Len(sweepRows') : RowOK(sweepRows[i])'
  BY <1>1, <1>2 DEF SweepInv, RowOK
<1>5. QED BY <1>1, <1>2, <1>3, <1>4 DEF SweepInv

LEMMA SweepStep == SweepInv /\ [SweepNext]_sweepVars => SweepInv'
<1>1. SUFFICES ASSUME SweepInv, [SweepNext]_sweepVars PROVE SweepInv'
  OBVIOUS
<1>2. CASE StartSweep
  BY <1>1, <1>2, SweepStarts
<1>3. CASE EvaluateSet
  BY <1>1, <1>3, SweepEvaluates
<1>4. CASE WriteSummary
  BY <1>1, <1>4, SweepSums
<1>5. CASE WriteCandidate
  BY <1>1, <1>5, SweepRests DEF WriteCandidate
<1>6. CASE UNCHANGED sweepVars
  BY <1>1, <1>6, SweepRests DEF sweepVars
<1>7. QED BY <1>1, <1>2, <1>3, <1>4, <1>5, <1>6 DEF SweepNext

\* What the summary of a sweep recommends holds up, for every number of values,
\* variants, trades and splits, as long as no split may make all of the profit.
THEOREM SweepTheorem == SweepSpec => []RecommendedHoldsUp
<1>1. SweepInv => RecommendedHoldsUp
  BY DEF SweepInv
<1>2. QED BY <1>1, SweepInitial, SweepStep, PTL DEF SweepSpec

=============================================================================
