------------------------- MODULE RateLimiterProofs -------------------------
(***************************************************************************)
(* For every number of callers, budget and window: RateLimiter never       *)
(* admits more than MaxCalls calls in a window.                            *)
(*                                                                         *)
(* WindowBudget alone is not inductive: Admit compares the budget with the *)
(* deque, not with the history.  DequeIsWindow is what links the two, and  *)
(* the length of the deque is bounded through it.                          *)
(***************************************************************************)
EXTENDS RateLimiter, TLAPS

IInv == LimiterTypeOK /\ DequeIsWindow /\ WindowBudget

\* The place where the live calls begin is the only place _drop_expired can
\* stop at, so dropping leaves exactly the calls of the current window.
LEMMA DropExpiredIsLive ==
    ASSUME NEW s \in Seq(Ages), NEW n \in 0..Len(s), LiveAfter(s, n)
    PROVE  DropExpired(s) = SubSeq(s, n + 1, Len(s))
<1>1. /\ \A i \in 1..n : s[i] = Window
      /\ n < Len(s) => s[n + 1] # Window
  BY DEF LiveAfter
<1>2. \A m \in 0..Len(s) :
        ((\A i \in 1..m : s[i] = Window) /\ (m < Len(s) => s[m + 1] # Window)) => m = n
  <2>1. SUFFICES ASSUME NEW m \in 0..Len(s),
                        \A i \in 1..m : s[i] = Window,
                        m < Len(s) => s[m + 1] # Window
                 PROVE  m = n
    OBVIOUS
  <2>2. ~(m < n)
    BY <1>1, <2>1
  <2>3. ~(n < m)
    BY <1>1, <2>1
  <2>4. QED
    BY <2>2, <2>3
<1>3. DropCount(s) = n
  BY <1>1, <1>2 DEF DropCount
<1>4. QED
  BY <1>3 DEF DropExpired

\* Under the invariant, what the code sees after dropping is the history.
LEMMA DropExpiredIsRecent ==
    ASSUME LimiterTypeOK, DequeIsWindow
    PROVE  DropExpired(calls) = recent
<1>1. PICK n \in 0..Len(calls) :
        /\ LiveAfter(calls, n)
        /\ recent = SubSeq(calls, n + 1, Len(calls))
  BY DEF DequeIsWindow
<1>2. QED
  BY <1>1, DropExpiredIsLive DEF LimiterTypeOK

\* Nothing in the history has reached the end of the window.
LEMMA RecentIsLive ==
    ASSUME LimiterTypeOK, DequeIsWindow
    PROVE  \A i \in 1..Len(recent) : recent[i] # Window
<1>1. PICK n \in 0..Len(calls) :
        /\ LiveAfter(calls, n)
        /\ recent = SubSeq(calls, n + 1, Len(calls))
  BY DEF DequeIsWindow
<1>2. /\ Len(recent) = Len(calls) - n
      /\ \A i \in 1..Len(recent) : recent[i] = calls[n + i]
  BY <1>1 DEF LimiterTypeOK
<1>3. QED
  BY <1>1, <1>2 DEF LiveAfter, LimiterTypeOK

\* A deque that equals the history is its own window.
LEMMA AllLive ==
    ASSUME NEW s \in Seq(Ages), \A i \in 1..Len(s) : s[i] # Window
    PROVE  LiveAfter(s, 0) /\ s = SubSeq(s, 1, Len(s))
BY DEF LiveAfter

\* Ageing keeps a sequence of ages one, of the same length.
LEMMA AgedType ==
    ASSUME NEW s \in Seq(Ages)
    PROVE  /\ Aged(s) \in Seq(Ages)
           /\ Len(Aged(s)) = Len(s)
           /\ \A i \in 1..Len(s) : Aged(s)[i] = Older(s[i])
<1>1. \A a \in Ages : Older(a) \in Ages
  BY WindowAssumption DEF Ages, Older
<1>2. QED
  BY <1>1 DEF Aged

LEMMA InitIInv == Init => IInv
  BY WindowAssumption, MaxCallsAssumption
  DEF Init, IInv, LimiterTypeOK, DequeIsWindow, WindowBudget, LiveAfter, Ages

LEMMA AdmitIInv ==
    ASSUME IInv, NEW c \in Callers, Admit(c)
    PROVE  IInv'
<1>1. calls' = Append(recent, 0) /\ recent' = Append(recent, 0)
  BY DropExpiredIsRecent DEF Admit, IInv
<1>2. Len(recent) < MaxCalls
  BY DropExpiredIsRecent DEF Admit, IInv
<1>3. LimiterTypeOK'
  <2>1. recent \in Seq(Ages) /\ 0 \in Ages
    BY WindowAssumption DEF IInv, LimiterTypeOK, Ages
  <2>2. calls' \in Seq(Ages) /\ recent' \in Seq(Ages)
    BY <1>1, <2>1
  <2>3. QED
    BY <2>2 DEF Admit, IInv, LimiterTypeOK
<1>4. \A i \in 1..Len(calls') : calls'[i] # Window
  <2>1. \A i \in 1..Len(recent) : recent[i] # Window
    BY RecentIsLive DEF IInv
  <2>2. recent \in Seq(Ages)
    BY DEF IInv, LimiterTypeOK
  <2>3. QED
    BY <1>1, <2>1, <2>2, WindowAssumption
<1>5. DequeIsWindow'
  <2>1. calls' \in Seq(Ages)
    BY <1>3 DEF LimiterTypeOK
  <2>2. LiveAfter(calls', 0) /\ calls' = SubSeq(calls', 1, Len(calls'))
    BY <1>4, <2>1, AllLive
  <2>3. 0 \in 0..Len(calls')
    BY <2>1
  <2>4. LiveAfter(calls, 0)'
    BY <2>2 DEF LiveAfter
  <2>5. recent' = SubSeq(calls', 0 + 1, Len(calls'))
    BY <1>1, <2>2
  <2>6. QED
    BY <2>3, <2>4, <2>5 DEF DequeIsWindow
<1>6. WindowBudget'
  BY <1>1, <1>2, MaxCallsAssumption DEF WindowBudget, IInv, LimiterTypeOK
<1>7. QED
  BY <1>3, <1>5, <1>6 DEF IInv

\* Dropping the expired prefix and nothing else (Wait, Inspect).
LEMMA DropOnlyIInv ==
    ASSUME IInv, calls' = DropExpired(calls), recent' = recent, LimiterTypeOK'
    PROVE  IInv'
<1>1. calls' = recent
  BY DropExpiredIsRecent DEF IInv
<1>2. \A i \in 1..Len(calls') : calls'[i] # Window
  BY <1>1, RecentIsLive DEF IInv
<1>3. calls' \in Seq(Ages)
  BY DEF LimiterTypeOK
<1>4. LiveAfter(calls', 0) /\ calls' = SubSeq(calls', 1, Len(calls'))
  BY <1>2, <1>3, AllLive
<1>5. LiveAfter(calls, 0)' /\ recent' = SubSeq(calls', 0 + 1, Len(calls')) /\ 0 \in 0..Len(calls')
  BY <1>1, <1>3, <1>4 DEF LiveAfter
<1>6. DequeIsWindow'
  BY <1>5 DEF DequeIsWindow
<1>7. QED
  BY <1>6 DEF IInv, WindowBudget

LEMMA WaitIInv ==
    ASSUME IInv, NEW c \in Callers, Wait(c)
    PROVE  IInv'
<1>1. DropExpired(calls) = recent /\ Len(recent) >= MaxCalls
  BY DropExpiredIsRecent DEF IInv, Wait
<1>2. recent[1] \in Ages
  BY <1>1, MaxCallsAssumption DEF IInv, LimiterTypeOK
<1>3. Window - recent[1] \in Ages
  BY <1>2, WindowAssumption DEF Ages
<1>4. calls' \in Seq(Ages) /\ recent' \in Seq(Ages)
  BY <1>1 DEF Wait, IInv, LimiterTypeOK
<1>5. remaining' \in [Callers -> Ages]
  BY <1>1, <1>3 DEF Wait, IInv, LimiterTypeOK
<1>6. pc' \in [Callers -> {"idle", "alerting", "sleeping"}]
  BY DEF Wait, IInv, LimiterTypeOK
<1>7. LimiterTypeOK'
  BY <1>4, <1>5, <1>6 DEF LimiterTypeOK
<1>8. QED
  BY <1>7, DropOnlyIInv DEF Wait

LEMMA InspectIInv ==
    ASSUME IInv, Inspect
    PROVE  IInv'
<1>1. LimiterTypeOK'
  BY DropExpiredIsRecent DEF IInv, Inspect, LimiterTypeOK
<1>2. QED
  BY <1>1, DropOnlyIInv DEF Inspect

LEMMA TickIInv ==
    ASSUME IInv, Tick
    PROVE  IInv'
<1> USE DEF IInv
<1>1. PICK n \in 0..Len(calls) :
        /\ LiveAfter(calls, n)
        /\ recent = SubSeq(calls, n + 1, Len(calls))
  BY DEF DequeIsWindow
<1>2. PICK m \in 0..Len(recent) :
        /\ LiveAfter(Aged(recent), m)
        /\ recent' = SubSeq(Aged(recent), m + 1, Len(recent))
  BY DEF Tick
<1>3. calls \in Seq(Ages) /\ recent \in Seq(Ages)
  BY DEF LimiterTypeOK
<1>4. /\ Aged(calls) \in Seq(Ages) /\ Len(Aged(calls)) = Len(calls)
      /\ \A i \in 1..Len(calls) : Aged(calls)[i] = Older(calls[i])
  BY <1>3, AgedType
<1>5. /\ Aged(recent) \in Seq(Ages) /\ Len(Aged(recent)) = Len(recent)
      /\ \A i \in 1..Len(recent) : Aged(recent)[i] = Older(recent[i])
  BY <1>3, AgedType
<1>6. /\ Len(recent) = Len(calls) - n
      /\ \A i \in 1..Len(recent) : recent[i] = calls[n + i]
  BY <1>1, <1>3
<1>7. calls' = Aged(calls)
  BY DEF Tick
<1>8. /\ recent' \in Seq(Ages)
      /\ Len(recent') = Len(recent) - m
      /\ \A i \in 1..Len(recent') : recent'[i] = Aged(recent)[m + i]
  BY <1>2, <1>5
<1>9. LimiterTypeOK'
  <2>1. remaining' \in [Callers -> Ages]
    BY WindowAssumption DEF Tick, LimiterTypeOK, Ages
  <2>2. QED
    BY <1>4, <1>7, <1>8, <2>1 DEF Tick, LimiterTypeOK
<1>10. n + m \in 0..Len(calls')
  BY <1>3, <1>4, <1>6, <1>7
<1>11. \A i \in 1..(n + m) : calls'[i] = Window
  <2>1. SUFFICES ASSUME NEW i \in 1..(n + m) PROVE calls'[i] = Window
    OBVIOUS
  <2>2. i \in 1..Len(calls) /\ calls'[i] = Older(calls[i])
    BY <1>3, <1>4, <1>6, <1>7
  <2>3. CASE i <= n
    BY <1>1, <2>2, <2>3, WindowAssumption DEF LiveAfter, Older
  <2>4. CASE i > n
    <3>1. i - n \in 1..m /\ i - n \in 1..Len(recent)
      BY <1>3, <2>4
    <3>2. Aged(recent)[i - n] = Window
      BY <1>2, <3>1 DEF LiveAfter
    <3>3. recent[i - n] = calls[i]
      BY <1>6, <2>2, <3>1
    <3>4. QED
      BY <1>5, <2>2, <3>1, <3>2, <3>3
  <2>5. QED
    BY <2>3, <2>4
<1>12. \A i \in (n + m + 1)..Len(calls') : calls'[i] # Window
  <2>1. SUFFICES ASSUME NEW i \in (n + m + 1)..Len(calls') PROVE calls'[i] # Window
    OBVIOUS
  <2>2. i \in 1..Len(calls) /\ calls'[i] = Older(calls[i])
    BY <1>3, <1>4, <1>7
  <2>3. i - n \in (m + 1)..Len(recent) /\ i - n \in 1..Len(recent)
    BY <1>3, <1>4, <1>6, <1>7
  <2>4. Aged(recent)[i - n] # Window
    BY <1>2, <1>5, <2>3 DEF LiveAfter
  <2>5. recent[i - n] = calls[i]
    BY <1>6, <2>2, <2>3
  <2>6. QED
    BY <1>5, <2>2, <2>3, <2>4, <2>5
<1>13. recent' = SubSeq(calls', n + m + 1, Len(calls'))
  <2>1. \A i \in 1..Len(recent') : recent'[i] = calls'[n + m + i]
    <3>1. SUFFICES ASSUME NEW i \in 1..Len(recent') PROVE recent'[i] = calls'[n + m + i]
      OBVIOUS
    <3>2. m + i \in 1..Len(recent) /\ n + m + i \in 1..Len(calls)
      BY <1>3, <1>6, <1>8
    <3>3. recent'[i] = Older(recent[m + i])
      BY <1>5, <1>8, <3>2
    <3>4. recent[m + i] = calls[n + m + i]
      BY <1>6, <3>2
    <3>5. QED
      BY <1>4, <1>7, <3>2, <3>3, <3>4
  <2>2. Len(recent') = Len(calls') - (n + m)
    BY <1>3, <1>4, <1>6, <1>7, <1>8
  <2>3. calls' \in Seq(Ages)
    BY <1>4, <1>7
  <2>4. QED
    BY <1>8, <1>10, <2>1, <2>2, <2>3
<1>14. DequeIsWindow'
  <2>1. LiveAfter(calls, n + m)'
    BY <1>11, <1>12 DEF LiveAfter
  <2>2. QED
    BY <1>10, <1>13, <2>1 DEF DequeIsWindow
<1>15. WindowBudget'
  BY <1>3, <1>8, MaxCallsAssumption DEF WindowBudget
<1>16. QED
  BY <1>9, <1>14, <1>15

LEMMA StepIInv == IInv /\ [Next]_vars => IInv'
<1>1. SUFFICES ASSUME IInv, [Next]_vars PROVE IInv'
  OBVIOUS
<1>2. CASE Tick
  BY <1>1, <1>2, TickIInv
<1>3. CASE Inspect
  BY <1>1, <1>3, InspectIInv
<1>4. ASSUME NEW c \in Callers, CallerStep(c) PROVE IInv'
  <2>1. CASE Admit(c)
    BY <1>1, <2>1, AdmitIInv
  <2>2. CASE Wait(c)
    BY <1>1, <2>2, WaitIInv
  <2>3. CASE AlertDone(c)
    BY <1>1, <2>3 DEF AlertDone, IInv, LimiterTypeOK, DequeIsWindow, LiveAfter, WindowBudget
  <2>4. QED
    BY <1>4, <2>1, <2>2, <2>3 DEF CallerStep
<1>5. CASE UNCHANGED vars
  BY <1>1, <1>5 DEF vars, IInv, LimiterTypeOK, DequeIsWindow, LiveAfter, WindowBudget
<1>6. QED
  BY <1>1, <1>2, <1>3, <1>4, <1>5 DEF Next

\* Every behaviour of the limiter keeps its deque equal to the calls of the
\* current window and that window within the budget.
THEOREM InvariantHolds == Spec => []IInv
  BY InitIInv, StepIInv, PTL DEF Spec

\* The hard stop: no window of Window ticks holds more than MaxCalls calls.
THEOREM BudgetTheorem == Spec => []WindowBudget
<1>1. IInv => WindowBudget
  BY DEF IInv
<1>2. QED
  BY <1>1, InvariantHolds, PTL

\* The lazily trimmed deque never forgets a call of the current window.
THEOREM DequeTheorem == Spec => []DequeIsWindow
<1>1. IInv => DequeIsWindow
  BY DEF IInv
<1>2. QED
  BY <1>1, InvariantHolds, PTL

\* A caller that finds the window full really found MaxCalls recent calls.
THEOREM WaitTheorem == Spec => NeverWaitsBelowBudget
<1>1. IInv /\ [Next]_vars =>
        [\A c \in Callers :
            (Attempting(c) /\ remaining'[c] > remaining[c]) => Len(recent) = MaxCalls]_vars
  <2>1. SUFFICES ASSUME IInv, Next, NEW c \in Callers,
                        Attempting(c), remaining'[c] > remaining[c]
                 PROVE  Len(recent) = MaxCalls
    BY DEF vars
  <2>2. \A d \in Callers : remaining[d] \in Nat
    BY <2>1, WindowAssumption DEF IInv, LimiterTypeOK, Ages
  <2>3. ~Tick
    BY <2>1, <2>2 DEF Tick
  <2>4. ~UNCHANGED remaining
    BY <2>1, <2>2
  <2>5. PICK d \in Callers : Wait(d)
    BY <2>1, <2>3, <2>4 DEF Next, Inspect, CallerStep, Admit, AlertDone
  <2>6. Len(recent) >= MaxCalls
    BY <2>1, <2>5, DropExpiredIsRecent DEF Wait, IInv
  <2>7. QED
    BY <2>1, <2>6, MaxCallsAssumption DEF IInv, LimiterTypeOK, WindowBudget
<1>2. QED
  BY <1>1, InvariantHolds, PTL DEF Spec, NeverWaitsBelowBudget
=============================================================================
