---------------------------- MODULE RateLimiter ----------------------------
(***************************************************************************)
(* The sliding-window budget every Alpaca REST call passes through:        *)
(* AsyncRateLimiter of app/utils/rate_limiter.py.                          *)
(*                                                                         *)
(* The code keeps a deque of monotonic timestamps.  Only differences of    *)
(* timestamps are ever used, so the model keeps the AGE of each call in    *)
(* ticks, saturated at Window: a call of age Window is exactly one whose   *)
(* timestamp is at or below the cutoff `now - window_seconds`.  Time then  *)
(* needs no horizon and the state space is finite.                         *)
(*                                                                         *)
(* Nothing inside `async with self._lock` awaits, so a caller's critical   *)
(* section is one atomic action and the asyncio lock is never contended.   *)
(***************************************************************************)
EXTENDS Naturals, Sequences

CONSTANTS
    Callers,        \* the coroutines that call acquire
    MaxCalls,       \* max_calls: the hard stop of the window
    Window,         \* window_seconds, in ticks
    AlertThreshold  \* wait_alert_threshold_seconds, in ticks

ASSUME MaxCallsAssumption == MaxCalls \in Nat \ {0}
ASSUME WindowAssumption == Window \in Nat \ {0}
ASSUME AlertThresholdAssumption == AlertThreshold \in Nat

VARIABLES
    calls,      \* _calls: ages of the remembered calls, oldest first
    pc,         \* where each caller stands in acquire
    remaining,  \* ticks of asyncio.sleep a waiting caller still has to serve
    recent      \* history: ages of every admitted call younger than Window

vars == <<calls, pc, remaining, recent>>

Ages == 0..Window

Older(age) == IF age < Window THEN age + 1 ELSE Window

DropCountNever(s) == 0

\* _drop_expired: pop from the left while the head is at or past the cutoff.
DropCount(s) ==
    CHOOSE n \in 0..Len(s) :
        /\ \A i \in 1..n : s[i] = Window
        /\ n < Len(s) => s[n + 1] # Window

DropExpired(s) == SubSeq(s, DropCount(s) + 1, Len(s))

\* The first n entries of s have left the window and the others have not.
\* This is how the history below is kept, independently of _drop_expired.
LiveAfter(s, n) ==
    /\ \A i \in 1..n : s[i] = Window
    /\ \A i \in (n + 1)..Len(s) : s[i] # Window

Init ==
    /\ calls = <<>>
    /\ pc = [c \in Callers |-> "idle"]
    /\ remaining = [c \in Callers |-> 0]
    /\ recent = <<>>

(***************************************************************************)
(* One pass of the while loop: a fresh call, or one whose sleep is over.   *)
(***************************************************************************)
Attempting(c) ==
    \/ pc[c] = "idle"
    \/ pc[c] = "sleeping" /\ remaining[c] = 0

\* Deviation: the test `<=` in place of `<`.
AdmitOneTooMany(c) ==
    /\ Attempting(c)
    /\ Len(DropExpired(calls)) <= MaxCalls
    /\ calls' = Append(DropExpired(calls), 0)
    /\ recent' = Append(recent, 0)
    /\ pc' = [pc EXCEPT ![c] = "idle"]
    /\ UNCHANGED remaining

\* There is room: the call is remembered and acquire returns.
Admit(c) ==
    /\ Attempting(c)
    /\ Len(DropExpired(calls)) < MaxCalls
    /\ calls' = Append(DropExpired(calls), 0)
    /\ recent' = Append(recent, 0)
    /\ pc' = [pc EXCEPT ![c] = "idle"]
    /\ UNCHANGED remaining

\* The window is full: wait until the oldest remembered call expires.  A long
\* wait may first send a Discord alert (at most one a minute: the 60 s alert
\* cooldown is left to choice); the sleep only starts once it is delivered.
Wait(c) ==
    /\ Attempting(c)
    /\ Len(DropExpired(calls)) >= MaxCalls
    /\ calls' = DropExpired(calls)
    /\ \E wait \in {Window - DropExpired(calls)[1]} :
        /\ remaining' = [remaining EXCEPT ![c] = wait]
        /\ \/ pc' = [pc EXCEPT ![c] = "sleeping"]
           \/ wait >= AlertThreshold /\ pc' = [pc EXCEPT ![c] = "alerting"]
    /\ UNCHANGED recent

AlertDone(c) ==
    /\ pc[c] = "alerting"
    /\ pc' = [pc EXCEPT ![c] = "sleeping"]
    /\ UNCHANGED <<calls, remaining, recent>>

\* snapshot and the two budget questions drop expired calls as a side effect.
Inspect ==
    /\ calls' = DropExpired(calls)
    /\ UNCHANGED <<pc, remaining, recent>>

Aged(s) == [i \in 1..Len(s) |-> Older(s[i])]

\* One tick of the monotonic clock.  A history entry leaves at age Window.
Tick ==
    /\ calls' = Aged(calls)
    /\ remaining' = [c \in Callers |->
                        IF pc[c] = "sleeping" /\ remaining[c] > 0
                        THEN remaining[c] - 1 ELSE remaining[c]]
    /\ \E n \in 0..Len(recent) :
        /\ LiveAfter(Aged(recent), n)
        /\ recent' = SubSeq(Aged(recent), n + 1, Len(recent))
    /\ UNCHANGED pc

CallerStep(c) == Admit(c) \/ Wait(c) \/ AlertDone(c)

Next == Tick \/ Inspect \/ \E c \in Callers : CallerStep(c)

Spec == Init /\ [][Next]_vars

(***************************************************************************)
(* Fairness: the clock advances, the event loop resumes a coroutine whose  *)
(* sleep or alert is over (Discord calls have a timeout).  Nothing obliges *)
(* an idle caller to make a request.                                       *)
(***************************************************************************)
Resume(c) == pc[c] # "idle" /\ CallerStep(c)

FairSpec == Spec /\ WF_vars(Tick) /\ \A c \in Callers : WF_vars(Resume(c))

(***************************************************************************)
(* Properties                                                              *)
(***************************************************************************)

LimiterTypeOK ==
    /\ calls \in Seq(Ages)
    /\ pc \in [Callers -> {"idle", "alerting", "sleeping"}]
    /\ remaining \in [Callers -> Ages]
    /\ recent \in Seq(Ages)

\* However callers, sleeps, alerts and inspections interleave, no window of
\* Window ticks ever holds more than MaxCalls admitted calls.
WindowBudget == Len(recent) <= MaxCalls

\* The deque is the admitted calls of the current window behind a prefix of
\* expired ones: lazily dropping from the head never forgets a live call and
\* never leaves an expired one behind a live one.
DequeIsWindow ==
    \E n \in 0..Len(calls) :
        /\ LiveAfter(calls, n)
        /\ recent = SubSeq(calls, n + 1, Len(calls))

\* A caller is only ever sent to sleep while the window really is full: the
\* limiter delays no call the budget had room for.
NeverWaitsBelowBudget ==
    [][\A c \in Callers :
          (Attempting(c) /\ remaining'[c] > remaining[c]) => Len(recent) = MaxCalls]_vars

\* While anyone waits, calls keep being admitted (or the waiting ends): the
\* sleeps are long enough and short enough for the system to make progress.
\* It is progress of the system only: the code has no queue, and a sleeper
\* may be overtaken by fresh callers.
WaitersProgress ==
    \/ []<>(\A c \in Callers : pc[c] = "idle")
    \/ []<><<\E c \in Callers : Admit(c)>>_vars

=============================================================================
