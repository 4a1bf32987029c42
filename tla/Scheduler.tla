----------------------------- MODULE Scheduler -----------------------------
(***************************************************************************)
(* The trading scheduler: TradingScheduler of app/services/scheduler.py,   *)
(* the endpoints of app/main.py that start, stop, pause and resume it, and *)
(* the scheduler row and risk events it keeps in the database.             *)
(*                                                                         *)
(* All of it runs on one asyncio loop, so a method without an await that   *)
(* suspends is one atomic action.  `loops` holds every coroutine _loop has *)
(* ever been started as, `_task` only the one the scheduler knows of.      *)
(* The configuration is AUTO_TRADE_ENABLED=true with the circuit breaker   *)
(* on; what a run of the trader returns is left open.                      *)
(***************************************************************************)
EXTENDS Naturals, FiniteSets

CONSTANTS
    Admins,         \* callers of the admin endpoints
    RiskReasons,    \* KILL_SWITCH_REASONS: reasons of a hold that are counted
    KillSwitch,     \* scalping mode with its kill switch enabled
    Faults,         \* which database calls may raise, see below
    Crashes,        \* whether the process may die and be restarted
    MaxBlocks,      \* max_same_risk_blocks_before_pause
    MaxErrors,      \* max_runtime_errors_before_pause
    MaxLoops        \* bound: loops that are alive or being awaited at once

\* "state": writing the scheduler row.  "event": writing a risk event.
\* "restore": reading them back.
FaultKinds == {"state", "event", "restore"}

\* The reasons of KILL_SWITCH_REASONS are what a pause may be for; they are not
\* what this module says where there is no reason.
ASSUME RiskReasonsAssumption == RiskReasons \cap {"none", "absent", "unset"} = {}
ASSUME SwitchesAssumption == {KillSwitch, Crashes} \subseteq BOOLEAN
ASSUME FaultsAssumption == Faults \subseteq FaultKinds
ASSUME LimitsAssumption == {MaxBlocks, MaxErrors} \subseteq Nat \ {0} /\ MaxLoops \in Nat

VARIABLES
    up,             \* the process runs and startup is over
    pause_reason,   \* _pause_reason, "none" if not _paused
    blocks,         \* _risk_block_events: how many of a reason in the window
    errors,         \* _runtime_error_events: how many in the window
    stop_set,       \* _stop.is_set()
    task,           \* _task: the loop it stands for; 0 is None
    loops,          \* the await each loop is suspended in
    stopping,       \* the loop a stop() of an admin awaits; 0 if in none
    state,          \* paused and pause_reason of the scheduler row
    event           \* the newest scalping_kill_switch event

memory == <<pause_reason, blocks, errors>>
control == <<stop_set, task, loops, stopping>>
database == <<state, event>>
vars == <<up, memory, control, database>>

Loops == 1..MaxLoops

\* "scanning": in trader.run_once.   "erring": in the runtime error alert.
\* "recording": in the pause alert that precedes _record_successful_run.
LoopStages == {"none", "waiting", "scanning", "erring", "recording"}
InRun == {"scanning", "erring", "recording"}

\* The reasons of a pause.  "kill_switch" stands for all scalping_kill_switch
\* reasons; a reason in RiskReasons for "repeated_risk_block:" of it.
Reasons == RiskReasons \cup {"manual_pause", "repeated_runtime_errors", "kill_switch"}

\* The row may be missing, or say that trading is not paused.
States == Reasons \cup {"absent", "none"}

\* An expired pause is one its reason's duration has passed for.
Events == {"none", "pause", "expired_pause", "resume"}

running == task # 0 /\ loops[task] # "none"

\* The database may have been left by a version that kept no scheduler row.
Init ==
    /\ up = FALSE
    /\ pause_reason = "none"
    /\ blocks = [r \in RiskReasons |-> 0]
    /\ errors = 0
    /\ stop_set = FALSE
    /\ task = 0
    /\ loops = [l \in Loops |-> "none"]
    /\ stopping = [a \in Admins |-> 0]
    /\ state = "absent"
    /\ event \in {"none", "pause", "resume"}

(***************************************************************************)
(* The database.  Every failure to write or read is logged and swallowed.  *)
(***************************************************************************)

\* Deviation: every update of the row writes all of its columns.
StateAfterUnpausing(row, reason) ==
    {IF reason = "unset" THEN "none" ELSE reason} \cup (IF "state" \in Faults THEN {row} ELSE {})

\* update_scheduler_state: the row is made if it is missing; "unset" updates
\* other columns than paused.
StateAfter(row, reason) ==
    {IF reason # "unset" THEN reason ELSE IF row = "absent" THEN "none" ELSE row}
        \cup (IF "state" \in Faults THEN {row} ELSE {})

EventAfter(newest, kind) == {kind} \cup (IF "event" \in Faults THEN {newest} ELSE {})

\* restore_pause_state when the database can be read: what it makes of the
\* pause in memory, the row and the newest event.
Restored(known, row, newest) ==
    IF row # "absent" THEN {[reason |-> row, row |-> row, newest |-> newest]}
    ELSE IF KillSwitch /\ newest = "pause"
    THEN {[reason |-> "kill_switch", row |-> r, newest |-> newest] : r \in StateAfter(row, "kill_switch")}
    ELSE IF KillSwitch /\ newest = "expired_pause"
    THEN {[reason |-> known, row |-> row, newest |-> e] : e \in EventAfter(newest, "resume")}
    ELSE {[reason |-> known, row |-> row, newest |-> newest]}

\* restore_pause_state
Restore(known, row, newest) ==
    Restored(known, row, newest)
        \cup (IF "restore" \in Faults THEN {[reason |-> known, row |-> row, newest |-> newest]} ELSE {})

(***************************************************************************)
(* Pausing and resuming                                                    *)
(***************************************************************************)

\* Deviation: a later pause takes the place of an earlier one.
PauseAgain(reason, row) ==
    /\ pause_reason' = reason
    /\ state' \in StateAfter(row, reason)
    /\ event' \in IF reason = "kill_switch" THEN EventAfter(event, "pause") ELSE {event}

\* pause(), which finds the scheduler row as `row`: ignored if paused already.
PauseFor(reason, row) ==
    IF pause_reason # "none" THEN state' = row /\ UNCHANGED <<pause_reason, event>>
    ELSE /\ pause_reason' = reason
         /\ state' \in StateAfter(row, reason)
         /\ event' \in IF reason = "kill_switch" THEN EventAfter(event, "pause") ELSE {event}

\* An operator gives one command after the other.
Ready(a) == up /\ stopping[a] = 0

\* POST /admin/pause
Pause(a) ==
    /\ Ready(a)
    /\ PauseFor("manual_pause", state)
    /\ UNCHANGED <<up, blocks, errors, control>>

\* Deviation: resuming leaves the counted events as they are.
ResumeKeepingCounts(a) ==
    /\ Ready(a)
    /\ pause_reason' = "none"
    /\ state' \in StateAfter(state, "none")
    /\ event' \in IF pause_reason = "kill_switch" THEN EventAfter(event, "resume") ELSE {event}
    /\ UNCHANGED <<up, blocks, errors, control>>

\* POST /admin/resume
Resume(a) ==
    /\ Ready(a)
    /\ pause_reason' = "none"
    /\ blocks' = [r \in RiskReasons |-> 0]
    /\ errors' = 0
    /\ state' \in StateAfter(state, "none")
    /\ event' \in IF pause_reason = "kill_switch" THEN EventAfter(event, "resume") ELSE {event}
    /\ UNCHANGED <<up, control>>

(***************************************************************************)
(* Starting and stopping                                                   *)
(***************************************************************************)

\* A loop that is over and that nobody awaits: its number can be used again.
Unused(l) == loops[l] = "none" /\ \A a \in Admins : stopping[a] # l

\* The end of start(): the pause is restored and the loop created.
Launch(restored) ==
    /\ pause_reason' = restored.reason
    /\ state' = restored.row
    /\ event' = restored.newest
    /\ stop_set' = FALSE
    /\ LET free == {l \in Loops : Unused(l)}
       IN  /\ free # {}
           /\ task' = CHOOSE l \in free : \A k \in free : l <= k
    /\ loops' = [loops EXCEPT ![task'] = "waiting"]
    /\ UNCHANGED <<blocks, errors, stopping>>

\* startup(): restore_pause_state, and start, which restores once more.
Boot ==
    /\ ~up
    /\ up' = TRUE
    /\ \E first \in Restore(pause_reason, state, event) :
       \E second \in Restore(first.reason, first.row, first.newest) : Launch(second)

\* Deviation: a loop is started whether there is one or not.
StartAnother(a) ==
    /\ Ready(a)
    /\ \E restored \in Restore(pause_reason, state, event) : Launch(restored)
    /\ UNCHANGED up

\* POST /auto/start
Start(a) ==
    /\ Ready(a)
    /\ ~running
    /\ \E restored \in Restore(pause_reason, state, event) : Launch(restored)
    /\ UNCHANGED up

\* POST /auto/stop, up to the await of the task.
Stop(a) ==
    /\ Ready(a)
    /\ running
    /\ stop_set' = TRUE
    /\ stopping' = [stopping EXCEPT ![a] = task]
    /\ UNCHANGED <<up, memory, task, loops, database>>

\* The task is done and stop() goes on.  It forgets whatever _task is now.
StopReturns(a) ==
    /\ stopping[a] # 0
    /\ loops[stopping[a]] = "none"
    /\ task' = 0
    /\ stopping' = [stopping EXCEPT ![a] = 0]
    /\ UNCHANGED <<up, memory, stop_set, loops, database>>

(***************************************************************************)
(* The loop                                                                *)
(***************************************************************************)

\* Deviation: a paused loop goes straight back to waiting for its interval.
IterateDeaf(l) ==
    /\ loops[l] = "waiting"
    /\ \/ stop_set /\ pause_reason = "none" /\ loops' = [loops EXCEPT ![l] = "none"]
       \/ ~stop_set /\ pause_reason = "none" /\ loops' = [loops EXCEPT ![l] = "scanning"]
    /\ UNCHANGED <<up, memory, stop_set, task, stopping, database>>

\* The interval is over or _stop is set: the loop ends, or runs the trader.
\* While paused it keeps waiting, which is no step.
Iterate(l) ==
    /\ loops[l] = "waiting"
    /\ \/ stop_set /\ loops' = [loops EXCEPT ![l] = "none"]
       \/ ~stop_set /\ pause_reason = "none" /\ loops' = [loops EXCEPT ![l] = "scanning"]
    /\ UNCHANGED <<up, memory, stop_set, task, stopping, database>>

\* Counts saturate at the limit: ageing later is how a larger count ages.
Counted(count, limit) == IF count < limit THEN count + 1 ELSE limit

Goto(l, stage) ==
    /\ loops' = [loops EXCEPT ![l] = stage]
    /\ UNCHANGED <<up, stop_set, task, stopping>>

\* The run returns something that pauses nothing.
ScanReturns(l) ==
    /\ loops[l] = "scanning"
    /\ Goto(l, "waiting")
    /\ state' \in StateAfter(state, "unset")
    /\ UNCHANGED <<memory, event>>

\* record_run_result pauses, after _record_stale_data if the run found stale
\* data.  The alert of a pause that was not ignored is awaited before the
\* success is recorded.
ScanPauses(l, reason) ==
    \E row \in {state} \cup StateAfter(state, "unset") :
        IF pause_reason = "none"
        THEN PauseFor(reason, row) /\ Goto(l, "recording")
        ELSE /\ Goto(l, "waiting")
             /\ state' \in StateAfter(row, "unset")
             /\ UNCHANGED <<pause_reason, event>>

\* The run returns a scalping_kill_switch reason, or too many losses.
ScanTripsKillSwitch(l) ==
    /\ KillSwitch
    /\ loops[l] = "scanning"
    /\ ScanPauses(l, "kill_switch")
    /\ UNCHANGED <<blocks, errors>>

\* record_risk_block
ScanBlocked(l, r) ==
    /\ loops[l] = "scanning"
    /\ blocks' = [blocks EXCEPT ![r] = Counted(@, MaxBlocks)]
    /\ UNCHANGED errors
    /\ IF blocks'[r] >= MaxBlocks THEN ScanPauses(l, r)
       ELSE /\ Goto(l, "waiting")
            /\ state' \in StateAfter(state, "unset")
            /\ UNCHANGED <<pause_reason, event>>

\* _record_successful_run, after the pause alert.
RecordSuccess(l) ==
    /\ loops[l] = "recording"
    /\ Goto(l, "waiting")
    /\ state' \in StateAfter(state, "unset")
    /\ UNCHANGED <<memory, event>>

\* The run raises: _record_runtime_error_state, then the alert is awaited.
ScanRaises(l) ==
    /\ loops[l] = "scanning"
    /\ Goto(l, "erring")
    /\ state' \in StateAfter(state, "unset")
    /\ UNCHANGED <<memory, event>>

\* record_runtime_error; the pause alert leaves nothing to be done after it.
RecordError(l) ==
    /\ loops[l] = "erring"
    /\ Goto(l, "waiting")
    /\ errors' = Counted(errors, MaxErrors)
    /\ UNCHANGED blocks
    /\ IF errors' >= MaxErrors
       THEN PauseFor(IF KillSwitch THEN "kill_switch" ELSE "repeated_runtime_errors", state)
       ELSE UNCHANGED <<pause_reason, database>>

(***************************************************************************)
(* Time and crashes                                                        *)
(***************************************************************************)

\* circuit_breaker_window_seconds pass since the oldest event of a kind.
BlockAges(r) ==
    /\ blocks[r] > 0
    /\ blocks' = [blocks EXCEPT ![r] = @ - 1]
    /\ UNCHANGED <<up, pause_reason, errors, control, database>>

ErrorAges ==
    /\ errors > 0
    /\ errors' = errors - 1
    /\ UNCHANGED <<up, pause_reason, blocks, control, database>>

PauseExpires ==
    /\ event = "pause"
    /\ event' = "expired_pause"
    /\ UNCHANGED <<up, memory, control, state>>

\* Only the database is left.
Crash ==
    /\ Crashes /\ up
    /\ up' = FALSE
    /\ pause_reason' = "none"
    /\ blocks' = [r \in RiskReasons |-> 0]
    /\ errors' = 0
    /\ stop_set' = FALSE
    /\ task' = 0
    /\ loops' = [l \in Loops |-> "none"]
    /\ stopping' = [a \in Admins |-> 0]
    /\ UNCHANGED database

LoopStep(l) ==
    \/ Iterate(l) \/ ScanReturns(l) \/ ScanTripsKillSwitch(l)
    \/ (\E r \in RiskReasons : ScanBlocked(l, r))
    \/ RecordSuccess(l) \/ ScanRaises(l) \/ RecordError(l)

AdminStep(a) == Pause(a) \/ Resume(a) \/ Start(a) \/ Stop(a) \/ StopReturns(a)

TimeStep == (\E r \in RiskReasons : BlockAges(r)) \/ ErrorAges \/ PauseExpires

Next ==
    \/ \E l \in Loops : LoopStep(l)
    \/ \E a \in Admins : AdminStep(a)
    \/ Boot \/ TimeStep \/ Crash

Spec == Init /\ [][Next]_vars

(***************************************************************************)
(* Fairness: the interval of a loop passes, a run of the trader ends (its  *)
(* requests have timeouts) and a coroutine whose await is over is resumed. *)
(***************************************************************************)
FairSpec ==
    /\ Spec
    /\ \A l \in Loops : WF_vars(LoopStep(l))
    /\ \A a \in Admins : WF_vars(StopReturns(a))

(***************************************************************************)
(* Properties                                                              *)
(***************************************************************************)

TypeOK ==
    /\ up \in BOOLEAN
    /\ pause_reason \in Reasons \cup {"none"}
    /\ blocks \in [RiskReasons -> 0..MaxBlocks]
    /\ errors \in 0..MaxErrors
    /\ stop_set \in BOOLEAN
    /\ task \in 0..MaxLoops
    /\ loops \in [Loops -> LoopStages]
    /\ stopping \in [Admins -> 0..MaxLoops]
    /\ state \in States
    /\ event \in Events

\* What the next start of the process would make of the database.
DurableReason ==
    IF state # "absent" THEN state
    ELSE IF KillSwitch /\ event = "pause" THEN "kill_switch" ELSE "none"

\* While the database works, memory and database never disagree about the
\* pause or its reason: dying at any moment neither lifts nor makes one.
PauseIsDurable == up => pause_reason = DurableReason

\* The breaker has tripped whenever a window holds as many events as it may:
\* nothing unpauses without forgetting what led to the pause.
BreakerTrips ==
    pause_reason = "none" =>
        /\ \A r \in RiskReasons : blocks[r] < MaxBlocks
        /\ errors < MaxErrors

Gate == INSTANCE TradingGate WITH
    Lapsing <- {"kill_switch"},
    reason <- IF up THEN pause_reason ELSE DurableReason,
    scans <- Cardinality({l \in Loops : loops[l] = "scanning"})

\* Restarts, restores, races of operators and the loop: all of it is a pause
\* that holds until somebody resumes.
GateImplemented == Gate!GateSpec

\* Whatever database calls fail: a row that says paused says so until somebody
\* resumes, although every run writes the row.
OnlyResumeUnpausesRow ==
    [][(state \in Reasons /\ state' \notin Reasons) => \E a \in Admins : Resume(a)]_vars


\* Whatever operators, loops and crashes do, that is the only way to lose sight of
\* a living loop: a stop() returns that has awaited another one.
LoopsAreForgottenByStops ==
    [][\A l \in Loops :
          task = l /\ loops[l] # "none" /\ task' # l /\ loops'[l] # "none"
              => \E a \in Admins : StopReturns(a) /\ stopping[a] # l]_vars

\* A persisted pause is in force in every process that has started since.
PersistedPauseIsInForce == up /\ state \in Reasons => pause_reason # "none"

\* A stop() ends, paused or not, and whatever run it has to wait for.
StopsEnd == \A a \in Admins : stopping[a] # 0 ~> stopping[a] = 0

=============================================================================
