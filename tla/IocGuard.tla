------------------------------ MODULE IocGuard ------------------------------
(***************************************************************************)
(* What canceled limit/IOC orders do to later buys: the timed guard of     *)
(* Trader._ioc_cancel_state with its escalation, and the streak that is    *)
(* part of Trader._scalping_kill_switch_reason, run after run, in scalping *)
(* mode (app/services/trader.py, app/db/repository.py,                     *)
(* app/strategy/scalping_decision_engine.py).                              *)
(*                                                                         *)
(* One run is one action, as the order lock lets only one reach the guard. *)
(* A row's time is its age in ticks, which stops at Beyond, where no       *)
(* question tells older rows apart.  Whether a run wants to buy or sell,   *)
(* and what the exchange makes of it, is a choice.                         *)
(***************************************************************************)
EXTENDS Naturals, Sequences, FiniteSets

CONSTANTS
    Lookback,       \* ioc_cancel_lookback_seconds, in ticks
    MaxRecent,      \* max_recent_ioc_cancels
    Cooldown,       \* ioc_cancel_cooldown_seconds, in ticks
    Escalation,     \* ioc_cancel_escalation_cooldown_seconds, in ticks
    KillSwitch,     \* scalping_kill_switch_enabled
    MaxStreak,      \* max_consecutive_ioc_cancels
    Crashes,        \* whether the process may die and be restarted
    MaxCancels      \* bound: canceled buys in the table

ASSUME TicksAssumption == {Lookback, Cooldown, Escalation} \subseteq Nat
ASSUME LimitsAssumption == {MaxRecent, MaxStreak, MaxCancels} \subseteq Nat \ {0}
ASSUME SwitchesAssumption == {KillSwitch, Crashes} \subseteq BOOLEAN

VARIABLES
    cancels,    \* ages of the canceled limit/IOC buys, newest first
    streak,     \* canceled limit/IOC orders since any other order, up to MaxStreak
    escalated,  \* ticks until _ioc_cancel_escalated_until; 0 once past, or if None
    holding,       \* whether there is a position
    noticed     \* history: what became of an escalation a run has noticed

iocVars == <<cancels, streak, escalated, holding, noticed>>

\* Beyond every duration.
Beyond == Lookback + Cooldown + Escalation + 1
CancelAges == 0..Beyond

IocInit ==
    /\ cancels = <<>>
    /\ streak = 0
    /\ escalated = 0
    /\ holding = FALSE
    /\ noticed = "none"

(***************************************************************************)
(* _ioc_cancel_state, part of every run                                    *)
(***************************************************************************)

\* The lookback includes the row that is exactly as old.
RecentCount == Cardinality({i \in DOMAIN cancels : cancels[i] <= Lookback})
TooMany == RecentCount >= MaxRecent

\* What is left of the escalation that the newest canceled buy began.
Escalated ==
    IF Escalation > cancels[1] THEN Escalation - cancels[1] ELSE 0

\* Deviation: an escalation that is in force counts as a new reason for one.
LookRenewing ==
    /\ escalated' = IF TooMany THEN Escalated ELSE IF escalated > 0 THEN Escalation ELSE 0
    /\ noticed' = IF TooMany /\ Escalated > 0 THEN "running" ELSE noticed

\* Deviation: without too many recent cancels, there is no escalation.
LookForgetting ==
    /\ escalated' = IF TooMany THEN Escalated ELSE 0
    /\ noticed' = IF TooMany /\ Escalated > 0 THEN "running" ELSE noticed

\* While there are too many, the escalation is measured anew, from the newest
\* of them; after that, memory keeps what is left.
Look ==
    /\ escalated' = IF TooMany THEN Escalated ELSE escalated
    /\ noticed' = IF TooMany /\ Escalated > 0 THEN "running" ELSE noticed

\* recent_ioc_cancels_too_high, or ioc_cancel_cooldown_active
InCooldown == cancels # <<>> /\ cancels[1] < Cooldown
TimedBarred == TooMany \/ escalated > 0 \/ InCooldown

\* scalping_kill_switch:ioc_cancel_streak
StreakBarred == KillSwitch /\ streak >= MaxStreak

Barred == TimedBarred \/ StreakBarred

(***************************************************************************)
(* Runs                                                                    *)
(***************************************************************************)

Another == IF streak < MaxStreak THEN streak + 1 ELSE MaxStreak

\* A run without an order row: a hold, or a failure before the row.
RunWithoutOrder ==
    /\ Look
    /\ UNCHANGED <<cancels, streak, holding>>

BuyCanceled ==
    /\ ~holding /\ ~Barred
    /\ Len(cancels) < MaxCancels
    /\ Look
    /\ cancels' = <<0>> \o cancels
    /\ streak' = Another
    /\ UNCHANGED holding

\* The order is filled, at least in part, or has a status that is neither.
BuyGoesThrough ==
    /\ ~holding /\ ~Barred
    /\ Look
    /\ holding' \in BOOLEAN
    /\ streak' = 0
    /\ UNCHANGED cancels

\* Canceled sells count for the streak, but not for the guard.
SellCanceled ==
    /\ holding
    /\ Look
    /\ streak' = Another
    /\ UNCHANGED <<cancels, holding>>

SellGoesThrough ==
    /\ holding
    /\ Look
    /\ holding' \in BOOLEAN
    /\ streak' = 0
    /\ UNCHANGED cancels

(***************************************************************************)
(* Time and restarts                                                       *)
(***************************************************************************)

OlderCancel(age) == IF age < Beyond THEN age + 1 ELSE Beyond

\* Time passes; an escalation that was noticed is over when its time is.
IocTick ==
    /\ cancels' = [i \in DOMAIN cancels |-> OlderCancel(cancels[i])]
    /\ escalated' = IF escalated > 0 THEN escalated - 1 ELSE 0
    /\ noticed' = IF cancels = <<>> \/ cancels'[1] >= Escalation THEN "none" ELSE noticed
    /\ UNCHANGED <<streak, holding>>

\* Only the table survives.
IocRestart ==
    /\ Crashes
    /\ escalated' = 0
    /\ noticed' = IF noticed = "running" THEN "forgotten" ELSE noticed
    /\ UNCHANGED <<cancels, streak, holding>>

IocRun ==
    \/ RunWithoutOrder
    \/ BuyCanceled \/ BuyGoesThrough
    \/ SellCanceled \/ SellGoesThrough

IocNext == IocRun \/ IocTick \/ IocRestart

IocSpec == IocInit /\ [][IocNext]_iocVars

\* Time passes, and runs go on.
FairIocSpec == IocSpec /\ WF_iocVars(IocTick) /\ WF_iocVars(RunWithoutOrder)

(***************************************************************************)
(* Properties                                                              *)
(***************************************************************************)

IocTypeOK ==
    /\ cancels \in Seq(CancelAges) /\ Len(cancels) <= MaxCancels
    /\ streak \in 0..MaxStreak
    /\ escalated \in 0..Escalation
    /\ holding \in BOOLEAN
    /\ noticed \in {"none", "running", "forgotten"}

\* Once a run has seen too many canceled buys, there is no buy until the
\* escalation cooldown has passed since the newest of them, even when all of
\* them have left the lookback meanwhile.  (A restart shortens it to the
\* lookback.)
EscalationHolds == noticed = "running" => TimedBarred

\* "Older canceled orders age out of the guard": the timed guard always lets go,
\* however runs and cancels follow each other.
TimedGuardEnds == TimedBarred ~> ~TimedBarred

\* The same for all that canceled orders do to buys.  While a position is held,
\* sells are still placed and may end the streak; without one, nothing but
\* time is left to end it.
CancelsAgeOut == Barred /\ ~holding ~> ~Barred \/ holding

=============================================================================
