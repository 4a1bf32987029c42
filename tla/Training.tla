------------------------------ MODULE Training ------------------------------
(***************************************************************************)
(* How a model is trained, saved and made the active one.  A training is   *)
(* started by the loop or the run-now endpoint of TrainingScheduler        *)
(* (app/services/training_scheduler.py) or by POST /train (app/main.py);   *)
(* both end in train_model_from_bars (app/ml/train.py), which writes a     *)
(* model file and the registry that the predictor reads                    *)
(* (app/ml/registry.py).                                                   *)
(*                                                                         *)
(* The scheduler's trainings run in a worker thread, under its lock; those *)
(* of POST /train run on the event loop, which stands still meanwhile, and *)
(* under no lock.  A file that is being written, or whose writer died, is  *)
(* "torn".  Metrics are kept as far as the registry compares them.         *)
(***************************************************************************)
EXTENDS Naturals

CONSTANTS
    Operators,      \* callers of the admin endpoints, one request at a time
    MaxLoops,       \* bound: loops that are alive or being awaited at once
    Posting,        \* whether operators use POST /train
    SameSecond,     \* whether two trainings may take their version in the
                    \* same second
    Crashes,        \* whether the process may die and be restarted
    MaxSecond,      \* bound: seconds on the clock
    MaxTrainings    \* bound: trainings that come to be evaluated

ASSUME SwitchesAssumption == {Posting, SameSecond, Crashes} \subseteq BOOLEAN
ASSUME BoundsAssumption == {MaxSecond, MaxTrainings, MaxLoops} \subseteq Nat \ {0}
ASSUME OperatorsAssumption == Operators \cap Nat = {}

Loops == 1..MaxLoops
Actors == Loops \cup Operators

VARIABLES
    second,         \* the clock, to the resolution of a version
    stamped,        \* the second of the latest version
    evaluated,      \* history: trainings evaluated so far
    files,          \* the model file of each version
    registry,       \* registry.json
    stage,          \* where each actor is
    draft,          \* version and metrics in the locals of train_model_from_bars
    posted,         \* the operators whose training is a POST /train
    lock,           \* _lock.locked()
    last_status,    \* _last_status
    stop_set,       \* _stop.is_set()
    task,           \* _task: the loop it stands for; 0 is None
    stopping        \* the loop a stop() awaits; 0 if in none

clock == <<second, stamped, evaluated>>
models == <<files, registry>>
running_vars == <<stage, draft, posted>>
scheduler == <<lock, last_status, stop_set, task, stopping>>
vars == <<clock, models, running_vars, scheduler>>

\* In train_model_from_bars, and before and after it.
Drafted == {"fitting", "saving", "saved", "promoting"}
Training == Drafted \cup {"evaluating"}
InJob == Training \cup {"fetching", "trained", "alerting"}

\* An actor that is in none of them: a loop may be over or asleep.
Resting(a) == stage[a] \in {"none", "sleeping"}

Versions == 0..MaxSecond

\* Version 0 is what an earlier version of the program left behind.
\* class_counts is a dictionary with whole numbers for keys.
Metrics == [id : 0..MaxTrainings, accepted : BOOLEAN, keys : {"int", "text"}]
Legacy == [id |-> 0, accepted |-> FALSE, keys |-> "text"]

\* "mixed": written by two at once, and still open.
WriteStates == {"absent", "torn", "mixed", "complete"}
Files == [state : WriteStates, metrics : Metrics]
Entries == [state : WriteStates, version : Versions, metrics : Metrics]
Absent == [state |-> "absent", metrics |-> Legacy]
Drafts == [version : Versions, metrics : Metrics]
NoDraft == [version |-> 0, metrics |-> Legacy]

\* The registry of the repository names a file that is not part of it.
Init ==
    /\ second = 1 /\ stamped = 0 /\ evaluated = 0
    /\ files = [v \in Versions |-> Absent]
    /\ registry \in {[state |-> "absent", version |-> 0, metrics |-> Legacy],
                     [state |-> "complete", version |-> 0, metrics |-> Legacy]}
    /\ stage = [a \in Actors |-> "none"]
    /\ draft = [a \in Actors |-> NoDraft]
    /\ posted = {}
    /\ lock = FALSE
    /\ last_status = "none"
    /\ stop_set = FALSE
    /\ task = 0
    /\ stopping = [o \in Operators |-> 0]

Goto(a, next) == stage' = [stage EXCEPT ![a] = next]

\* The coroutine of an actor can go on: no POST /train holds up the event loop.
Scheduled(a) == \A o \in posted \ {a} : stage[o] \notin Training

(***************************************************************************)
(* A training begins                                                       *)
(***************************************************************************)

\* A loop trains when its delay or interval has passed, an operator on request.
Due(a) ==
    /\ Scheduled(a)
    /\ IF a \in Loops THEN stage[a] = "sleeping" /\ ~stop_set
       ELSE stage[a] = "none" /\ stopping[a] = 0

\* Deviation: nobody looks at the lock.
RunOnceUnlocked(a) ==
    /\ Due(a)
    /\ lock' = TRUE
    /\ last_status' = "running"
    /\ Goto(a, "fetching")
    /\ UNCHANGED <<clock, models, draft, posted, stop_set, task, stopping>>

\* run_once, up to the request for bars; while the lock is taken it answers
\* "busy", which is no step.
RunOnce(a) ==
    /\ Due(a)
    /\ ~lock
    /\ lock' = TRUE
    /\ last_status' = "running"
    /\ Goto(a, "fetching")
    /\ UNCHANGED <<clock, models, draft, posted, stop_set, task, stopping>>

\* POST /train
PostTrain(o) ==
    /\ Posting
    /\ Scheduled(o) /\ stage[o] = "none" /\ stopping[o] = 0
    /\ posted' = posted \cup {o}
    /\ Goto(o, "fetching")
    /\ UNCHANGED <<clock, models, draft, scheduler>>

\* The bars and the account arrive; an account that does not is done without.
Fetched(a) ==
    /\ stage[a] = "fetching" /\ Scheduled(a)
    /\ Goto(a, "evaluating")
    /\ UNCHANGED <<clock, models, draft, posted, scheduler>>

(***************************************************************************)
(* train_model_from_bars                                                   *)
(***************************************************************************)

\* It returns: a POST is answered, the scheduler has yet to notice.
Return(a, result) ==
    /\ Goto(a, IF a \in posted THEN "none" ELSE "trained")
    /\ draft' = [draft EXCEPT ![a] = IF a \in posted THEN NoDraft ELSE result]
    /\ posted' = posted \ {a}

\* Labels or folds are too few: the result is a rejection without a model.
Refuse(a) ==
    /\ stage[a] = "evaluating"
    /\ Return(a, NoDraft)
    /\ UNCHANGED <<clock, models, scheduler>>

\* The metrics of a training: Python's int keys are what train.py puts there.
Measured(accepted) == [id |-> evaluated + 1, accepted |-> accepted, keys |-> "int"]

\* Deviation: every model goes to a file of the same name.
EvaluateReusingName(a) ==
    /\ stage[a] = "evaluating"
    /\ evaluated < MaxTrainings
    /\ SameSecond \/ stamped < second
    /\ \E accepted \in BOOLEAN :
          draft' = [draft EXCEPT ![a] = [version |-> 1, metrics |-> Measured(accepted)]]
    /\ stamped' = second
    /\ evaluated' = evaluated + 1
    /\ Goto(a, "fitting")
    /\ UNCHANGED <<second, models, posted, scheduler>>

\* Validation and backtest; promotion_decision accepts or rejects; the version
\* is the time of the decision, long before anything is written.
Evaluate(a) ==
    /\ stage[a] = "evaluating"
    /\ evaluated < MaxTrainings
    /\ SameSecond \/ stamped < second
    /\ \E accepted \in BOOLEAN :
          draft' = [draft EXCEPT ![a] = [version |-> second, metrics |-> Measured(accepted)]]
    /\ stamped' = second
    /\ evaluated' = evaluated + 1
    /\ Goto(a, "fitting")
    /\ UNCHANGED <<second, models, posted, scheduler>>

\* Opening a file empties it.  Two writers leave what either wrote, or neither.
Opened(written, others) == [written EXCEPT !.state = IF others THEN "mixed" ELSE "torn"]
Closed(content, written, others) ==
    IF content.state # "mixed" THEN {written}
    ELSE IF others THEN {[written EXCEPT !.state = "mixed"]}
    ELSE {written, [written EXCEPT !.state = "torn"], [content EXCEPT !.state = "complete"]}

ModelFile(a) == [state |-> "complete", metrics |-> draft[a].metrics]

OthersSaving(a) ==
    \E b \in Actors \ {a} : stage[b] = "saving" /\ draft[b].version = draft[a].version

\* MLSignalModel.save: joblib.dump to the name itself.
BeginSave(a) ==
    /\ stage[a] = "fitting"
    /\ Goto(a, "saving")
    /\ files' = [files EXCEPT ![draft[a].version] = Opened(ModelFile(a), OthersSaving(a))]
    /\ UNCHANGED <<clock, registry, draft, posted, scheduler>>

\* Only an accepted model goes on to be promoted.
EndSave(a) ==
    /\ stage[a] = "saving"
    /\ \E file \in Closed(files[draft[a].version], ModelFile(a), OthersSaving(a)) :
          files' = [files EXCEPT ![draft[a].version] = file]
    /\ IF draft[a].metrics.accepted THEN Goto(a, "saved") /\ UNCHANGED <<draft, posted>>
       ELSE Return(a, draft[a])
    /\ UNCHANGED <<clock, registry, scheduler>>

\* What JSON makes of metrics: the keys of its objects are always text.
ViaJson(metrics) == [metrics EXCEPT !.keys = "text"]

RegistryEntry(a) ==
    [state |-> "complete", version |-> draft[a].version, metrics |-> ViaJson(draft[a].metrics)]

OthersPromoting(a) == \E b \in Actors \ {a} : stage[b] = "promoting"

\* ModelRegistry.promote: write_text to registry.json itself.
BeginPromote(a) ==
    /\ stage[a] = "saved"
    /\ Goto(a, "promoting")
    /\ registry' = Opened(RegistryEntry(a), OthersPromoting(a))
    /\ UNCHANGED <<clock, files, draft, posted, scheduler>>

EndPromote(a) ==
    /\ stage[a] = "promoting"
    /\ registry' \in Closed(registry, RegistryEntry(a), OthersPromoting(a))
    /\ Return(a, draft[a])
    /\ UNCHANGED <<clock, files, scheduler>>

(***************************************************************************)
(* A training ends                                                         *)
(***************************************************************************)

\* Any step of a training may raise.
Fails(a) ==
    /\ stage[a] \in Training \cup {"fetching"} /\ Scheduled(a)
    /\ IF a \in posted THEN Goto(a, "none") /\ UNCHANGED last_status
       ELSE Goto(a, "alerting") /\ last_status' = "failed"
    /\ posted' = posted \ {a}
    /\ draft' = [draft EXCEPT ![a] = NoDraft]
    /\ UNCHANGED <<clock, models, lock, stop_set, task, stopping>>

\* The thread is done: _record_finished, up to the alert.
Record(a) ==
    /\ stage[a] = "trained" /\ Scheduled(a)
    /\ last_status' = IF draft[a].metrics.accepted THEN "accepted" ELSE "rejected"
    /\ Goto(a, "alerting")
    /\ draft' = [draft EXCEPT ![a] = NoDraft]
    /\ UNCHANGED <<clock, models, posted, lock, stop_set, task, stopping>>

\* The alert is sent or has failed, and the lock is left.
AlertSent(a) ==
    /\ stage[a] = "alerting" /\ Scheduled(a)
    /\ lock' = FALSE
    /\ Goto(a, IF a \in Loops THEN "sleeping" ELSE "none")
    /\ UNCHANGED <<clock, models, draft, posted, last_status, stop_set, task, stopping>>

(***************************************************************************)
(* The loop                                                                *)
(***************************************************************************)

running == task # 0 /\ stage[task] # "none"

\* The number of a loop that is over and that nobody awaits can be used again.
Unused(l) == stage[l] = "none" /\ \A o \in Operators : stopping[o] # l

\* Deviation: the stop signal is withdrawn before it is known whether to start.
StartWithdrawing(o) ==
    /\ Scheduled(o) /\ stage[o] = "none" /\ stopping[o] = 0
    /\ stop_set' = FALSE
    /\ IF running THEN UNCHANGED <<task, stage>>
       ELSE \E l \in Loops :
                /\ Unused(l) /\ \A k \in Loops : Unused(k) => l <= k
                /\ task' = l
                /\ Goto(l, "sleeping")
    /\ UNCHANGED <<clock, models, draft, posted, lock, last_status, stopping>>

\* POST /admin/training/start
Start(o) ==
    /\ Scheduled(o) /\ stage[o] = "none" /\ stopping[o] = 0
    /\ ~running
    /\ stop_set' = FALSE
    /\ \E l \in Loops :
          /\ Unused(l) /\ \A k \in Loops : Unused(k) => l <= k
          /\ task' = l
          /\ Goto(l, "sleeping")
    /\ UNCHANGED <<clock, models, draft, posted, lock, last_status, stopping>>

\* POST /admin/training/stop, up to the await of the task.
Stop(o) ==
    /\ Scheduled(o) /\ stage[o] = "none" /\ stopping[o] = 0
    /\ running
    /\ stop_set' = TRUE
    /\ stopping' = [stopping EXCEPT ![o] = task]
    /\ UNCHANGED <<clock, models, running_vars, lock, last_status, task>>

\* Deviation: like TradingScheduler.stop, it forgets whatever _task is now.
StopReturnsForgetting(o) ==
    /\ Scheduled(o)
    /\ stopping[o] # 0 /\ stage[stopping[o]] = "none"
    /\ task' = 0
    /\ stopping' = [stopping EXCEPT ![o] = 0]
    /\ UNCHANGED <<clock, models, running_vars, lock, last_status, stop_set>>

StopReturns(o) ==
    /\ Scheduled(o)
    /\ stopping[o] # 0 /\ stage[stopping[o]] = "none"
    /\ stopping' = [stopping EXCEPT ![o] = 0]
    /\ UNCHANGED <<clock, models, running_vars, lock, last_status, stop_set, task>>

\* _stop is noticed, asleep or between two sleeps.
LoopEnds(l) ==
    /\ stage[l] = "sleeping" /\ stop_set /\ Scheduled(l)
    /\ Goto(l, "none")
    /\ UNCHANGED <<clock, models, draft, posted, scheduler>>

(***************************************************************************)
(* Time and crashes                                                        *)
(***************************************************************************)

Tick ==
    /\ second < MaxSecond
    /\ second' = second + 1
    /\ UNCHANGED <<stamped, evaluated, models, running_vars, scheduler>>

\* The process dies, with its threads, and the next one starts the loop.
Restart ==
    /\ Crashes
    /\ stage' = [a \in Actors |-> IF a = 1 THEN "sleeping" ELSE "none"]
    /\ draft' = [a \in Actors |-> NoDraft]
    /\ posted' = {}
    /\ lock' = FALSE
    /\ last_status' = "none"
    /\ stop_set' = FALSE
    /\ task' = 1
    /\ stopping' = [o \in Operators |-> 0]
    /\ UNCHANGED <<clock, models>>

TrainerStep(a) ==
    \/ Refuse(a) \/ Evaluate(a) \/ BeginSave(a) \/ EndSave(a)
    \/ BeginPromote(a) \/ EndPromote(a) \/ Fails(a)

JobStep(a) == Fetched(a) \/ TrainerStep(a) \/ Record(a) \/ AlertSent(a)

OperatorStep(o) == PostTrain(o) \/ Start(o) \/ Stop(o) \/ StopReturns(o)

Next ==
    \/ \E a \in Actors : RunOnce(a) \/ JobStep(a)
    \/ \E l \in Loops : LoopEnds(l)
    \/ \E o \in Operators : OperatorStep(o)
    \/ Tick \/ Restart

Spec == Init /\ [][Next]_vars

(***************************************************************************)
(* Fairness: a training that has begun goes on (requests have timeouts and *)
(* a training is a computation that ends), and a coroutine whose await is  *)
(* over is resumed.  It is strong fairness because POST /train after POST  *)
(* /train may hold up the event loop, whose queue is in order of arrival:  *)
(* what is ready has its turn between two of them.                         *)
(***************************************************************************)
FairSpec ==
    /\ Spec
    /\ \A o \in Operators : WF_vars(JobStep(o))
    /\ \A l \in Loops : SF_vars(JobStep(l) \/ LoopEnds(l))
    /\ \A o \in Operators : SF_vars(StopReturns(o))

(***************************************************************************)
(* Properties                                                              *)
(***************************************************************************)

TypeOK ==
    /\ second \in 1..MaxSecond
    /\ stamped \in 0..MaxSecond
    /\ evaluated \in 0..MaxTrainings
    /\ files \in [Versions -> Files]
    /\ registry \in Entries
    /\ stage \in [Actors -> InJob \cup {"none", "sleeping"}]
    /\ draft \in [Actors -> Drafts]
    /\ \A a \in Actors : stage[a] \in Drafted => draft[a].metrics.id # 0
    /\ posted \subseteq Operators
    /\ lock \in BOOLEAN
    /\ last_status \in {"none", "running", "failed", "rejected", "accepted"}
    /\ stop_set \in BOOLEAN
    /\ task \in 0..MaxLoops
    /\ stopping \in [Operators -> 0..MaxLoops]

InProgress(a) == a \notin posted /\ stage[a] \in InJob

\* The loop and run-now never train at the same time, and in_progress says so,
\* whatever is started, stopped or restarted meanwhile and whatever fails.
OneJobAtATime ==
    /\ \A a \in Actors : InProgress(a) => lock
    /\ \A a, b \in Actors : InProgress(a) /\ InProgress(b) => a = b

\* The status an operator sees says "running" as long as a training of the
\* scheduler runs, and no longer: however it ends, it is recorded first.
RunningIsReported ==
    last_status = "running" <=>
        \E a \in Actors : InProgress(a) /\ stage[a] # "alerting"

\* The registry can only ever be read as naming a model file that was written
\* to its end, by a training that was accepted, with the metrics recorded for
\* it: a crash or failure anywhere, and a later training, leave it so.
RegistryNamesSavedModel ==
    registry.state = "complete" /\ registry.version # 0 =>
        LET file == files[registry.version]
        IN  /\ file.state = "complete"
            /\ file.metrics.accepted
            /\ file.metrics.id = registry.metrics.id

\* _load_active_model: the registry and the file can be read, their metrics
\* are equal, key by key, and promotion was accepted under the same thresholds.
ActiveModelValid ==
    /\ registry.state = "complete"
    /\ LET file == files[registry.version]
       IN  /\ file.state = "complete"
           /\ file.metrics = registry.metrics
           /\ file.metrics.accepted

\* A training reported as accepted has left a valid active model, at the
\* latest when nothing is being trained any more.
AcceptedModelIsActive ==
    last_status = "accepted" /\ (\A a \in Actors : Resting(a)) => ActiveModelValid

\* At most one loop is alive, and it is the one start() and stop() know of.
OneTrainingLoop == \A l \in Loops : stage[l] # "none" => l = task

\* stop() waits for a training, but it ends.
StopsEnd == \A o \in Operators : stopping[o] # 0 ~> stopping[o] = 0

=============================================================================
