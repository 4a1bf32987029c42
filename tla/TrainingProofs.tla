--------------------------- MODULE TrainingProofs ---------------------------
(***************************************************************************)
(* What holds of trainings for every number of operators and loops, every  *)
(* bound, with or without crashes.                                         *)
(***************************************************************************)
EXTENDS Training, TLAPS

Stages == InJob \cup {"none", "sleeping"}

(***************************************************************************)
(* Types                                                                   *)
(***************************************************************************)

\* Values of the types that the actions build.
LEMMA ContentTypes ==
    ASSUME TypeOK, NEW a \in Actors
    PROVE  /\ ModelFile(a) \in Files
           /\ ViaJson(draft[a].metrics) \in Metrics
           /\ RegistryEntry(a) \in Entries
           /\ draft[a].version \in Versions
<1>1. draft[a] \in Drafts
  BY DEF TypeOK
<1>2. draft[a].version \in Versions /\ draft[a].metrics \in Metrics
  BY <1>1 DEF Drafts
<1>3. ViaJson(draft[a].metrics) \in Metrics
  BY <1>2 DEF ViaJson, Metrics
<1>4. QED BY <1>2, <1>3 DEF ModelFile, RegistryEntry, Files, Entries, WriteStates

LEMMA WrittenTypes ==
    ASSUME NEW T, T = Files \/ T = Entries,
           NEW content \in T, NEW written \in T, NEW others \in BOOLEAN
    PROVE  Opened(written, others) \in T /\ Closed(content, written, others) \subseteq T
BY DEF Opened, Closed, Files, Entries, WriteStates

LEMMA LegacyTypes == Legacy \in Metrics /\ NoDraft \in Drafts /\ Absent \in Files
BY BoundsAssumption DEF Legacy, NoDraft, Absent, Metrics, Drafts, Files, Versions, WriteStates

LEMMA TypeInit == Init => TypeOK
<1> SUFFICES ASSUME Init PROVE TypeOK
  OBVIOUS
<1> USE LegacyTypes, BoundsAssumption DEF Init
<1>1. files \in [Versions -> Files] /\ draft \in [Actors -> Drafts]
  OBVIOUS
<1>2. registry \in Entries
  BY DEF Entries, WriteStates, Versions
<1>3. \A a \in Actors : stage[a] = "none"
  OBVIOUS
<1>4. stage \in [Actors -> Stages]
  BY DEF Stages
<1>5. lock \in BOOLEAN /\ stop_set \in BOOLEAN
  OBVIOUS
<1>6. second \in 1..MaxSecond /\ stamped \in 0..MaxSecond /\ evaluated \in 0..MaxTrainings
  OBVIOUS
<1>7. task \in 0..MaxLoops /\ stopping \in [Operators -> 0..MaxLoops]
  OBVIOUS
<1>8. posted \subseteq Operators
  OBVIOUS
<1>9. last_status \in {"none", "running", "failed", "rejected", "accepted"}
  OBVIOUS
<1>10. \A a \in Actors : stage[a] \in Drafted => draft[a].metrics.id # 0
  BY <1>3 DEF Drafted
<1>11. QED BY <1>1, <1>2, <1>4, <1>5, <1>6, <1>7, <1>8, <1>9, <1>10, Zenon DEF TypeOK, Stages

\* A step that ends with no draft, or with the one it had, for actor a.
LEMMA ReturnTypes ==
    ASSUME TypeOK, NEW a \in Actors, NEW result \in Drafts, Return(a, result)
    PROVE  /\ stage' \in [Actors -> Stages]
           /\ draft' \in [Actors -> Drafts]
           /\ \A b \in Actors : stage'[b] \in Drafted => draft'[b].metrics.id # 0
           /\ posted' \subseteq Operators
<1>1. stage \in [Actors -> Stages] /\ draft \in [Actors -> Drafts]
  BY DEF TypeOK, Stages
<1>2. stage' \in [Actors -> Stages] /\ draft' \in [Actors -> Drafts]
  BY <1>1, LegacyTypes DEF Return, Goto, Stages, InJob
<1>3. ASSUME NEW b \in Actors, stage'[b] \in Drafted
      PROVE  draft'[b].metrics.id # 0
  BY <1>1, <1>3 DEF Return, Goto, TypeOK, Drafted
<1>4. QED BY <1>2, <1>3 DEF Return, TypeOK

\* One that only moves actor a to a stage without a draft, or one after another.
LEMMA GotoTypes ==
    ASSUME TypeOK, NEW a \in Actors, NEW next \in Stages, Goto(a, next),
           UNCHANGED draft, next \in Drafted => stage[a] \in Drafted
    PROVE  /\ stage' \in [Actors -> Stages]
           /\ draft' \in [Actors -> Drafts]
           /\ \A b \in Actors : stage'[b] \in Drafted => draft'[b].metrics.id # 0
<1>1. stage \in [Actors -> Stages] /\ draft \in [Actors -> Drafts]
  BY DEF TypeOK, Stages
<1>2. QED BY <1>1 DEF Goto, TypeOK

LEMMA TypeStep == TypeOK /\ [Next]_vars => TypeOK'
<1> SUFFICES ASSUME TypeOK, [Next]_vars PROVE TypeOK'
  OBVIOUS
<1> DEFINE ActorsTyped ==
      /\ stage \in [Actors -> Stages]
      /\ draft \in [Actors -> Drafts]
      /\ \A b \in Actors : stage[b] \in Drafted => draft[b].metrics.id # 0
      /\ posted \subseteq Operators
    ModelsTyped == files \in [Versions -> Files] /\ registry \in Entries
    ClockTyped ==
      /\ second \in 1..MaxSecond /\ stamped \in 0..MaxSecond
      /\ evaluated \in 0..MaxTrainings
    LoopTyped == task \in 0..MaxLoops /\ stopping \in [Operators -> 0..MaxLoops]
    FlagsTyped ==
      /\ lock \in BOOLEAN /\ stop_set \in BOOLEAN
      /\ last_status \in {"none", "running", "failed", "rejected", "accepted"}
<1>0. ActorsTyped /\ ModelsTyped /\ ClockTyped /\ LoopTyped /\ FlagsTyped
  BY Zenon DEF TypeOK, Stages
<1> SUFFICES ActorsTyped' /\ ModelsTyped' /\ ClockTyped' /\ LoopTyped' /\ FlagsTyped'
  BY Zenon DEF TypeOK, Stages
<1> USE <1>0
<1>1. CASE UNCHANGED vars
  BY <1>1 DEF vars, clock, models, running_vars, scheduler
<1>2. ASSUME NEW a \in Actors, RunOnce(a)
      PROVE  ActorsTyped' /\ ModelsTyped' /\ ClockTyped' /\ LoopTyped' /\ FlagsTyped'
  <2>1. ActorsTyped'
    BY <1>2, GotoTypes DEF RunOnce, Stages, InJob, Drafted
  <2>2. QED BY <1>2, <2>1 DEF RunOnce, clock, models
<1>3. ASSUME NEW a \in Actors, Fetched(a)
      PROVE  ActorsTyped' /\ ModelsTyped' /\ ClockTyped' /\ LoopTyped' /\ FlagsTyped'
  <2>1. ActorsTyped'
    BY <1>3, GotoTypes DEF Fetched, Stages, InJob, Training, Drafted
  <2>2. QED BY <1>3, <2>1 DEF Fetched, clock, models, scheduler
<1>4. ASSUME NEW a \in Actors, Refuse(a)
      PROVE  ActorsTyped' /\ ModelsTyped' /\ ClockTyped' /\ LoopTyped' /\ FlagsTyped'
  <2>1. ActorsTyped'
    BY <1>4, ReturnTypes, LegacyTypes DEF Refuse
  <2>2. QED BY <1>4, <2>1 DEF Refuse, clock, models, scheduler
<1>5. ASSUME NEW a \in Actors, Evaluate(a)
      PROVE  ActorsTyped' /\ ModelsTyped' /\ ClockTyped' /\ LoopTyped' /\ FlagsTyped'
  <2>1. evaluated + 1 \in 0..MaxTrainings /\ evaluated + 1 # 0 /\ second \in Versions
    BY <1>5, BoundsAssumption DEF Evaluate, Versions
  <2>2. PICK accepted \in BOOLEAN :
          draft' = [draft EXCEPT ![a] = [version |-> second, metrics |-> Measured(accepted)]]
    BY <1>5 DEF Evaluate
  <2>3. Measured(accepted) \in Metrics /\ Measured(accepted).id # 0
    BY <2>1 DEF Measured, Metrics
  <2>4. [version |-> second, metrics |-> Measured(accepted)] \in Drafts
    BY <2>1, <2>3 DEF Drafts
  <2>5. stage' \in [Actors -> Stages] /\ draft' \in [Actors -> Drafts]
    BY <1>5, <2>2, <2>4 DEF Evaluate, Goto, Stages, InJob, Training, Drafted
  <2>6. \A b \in Actors : stage'[b] \in Drafted => draft'[b].metrics.id # 0
    BY <1>5, <2>2, <2>3 DEF Evaluate, Goto
  <2>7. ClockTyped'
    BY <1>5, <2>1 DEF Evaluate
  <2>8. QED BY <1>5, <2>5, <2>6, <2>7 DEF Evaluate, models, scheduler
<1>6. ASSUME NEW a \in Actors, BeginSave(a)
      PROVE  ActorsTyped' /\ ModelsTyped' /\ ClockTyped' /\ LoopTyped' /\ FlagsTyped'
  <2>1. ActorsTyped'
    BY <1>6, GotoTypes DEF BeginSave, Stages, InJob, Training, Drafted
  <2>2. OthersSaving(a) \in BOOLEAN
    BY DEF OthersSaving
  <2>3. Opened(ModelFile(a), OthersSaving(a)) \in Files
    BY <2>2, ContentTypes, WrittenTypes
  <2>4. ModelsTyped'
    BY <1>6, <2>3 DEF BeginSave
  <2>5. QED BY <1>6, <2>1, <2>4 DEF BeginSave, clock, scheduler
<1>7. ASSUME NEW a \in Actors, EndSave(a)
      PROVE  ActorsTyped' /\ ModelsTyped' /\ ClockTyped' /\ LoopTyped' /\ FlagsTyped'
  <2>1. ActorsTyped'
    <3>1. CASE draft[a].metrics.accepted
      <4>1. Goto(a, "saved") /\ UNCHANGED <<draft, posted>> /\ stage[a] = "saving"
        BY <1>7, <3>1 DEF EndSave
      <4>2. QED BY <4>1, GotoTypes DEF Stages, InJob, Training, Drafted
    <3>2. CASE ~draft[a].metrics.accepted
      <4>1. Return(a, draft[a])
        BY <1>7, <3>2 DEF EndSave
      <4>2. QED BY <4>1, ReturnTypes
    <3>3. QED BY <3>1, <3>2
  <2>2. OthersSaving(a) \in BOOLEAN /\ files[draft[a].version] \in Files
    BY ContentTypes DEF OthersSaving
  <2>3. Closed(files[draft[a].version], ModelFile(a), OthersSaving(a)) \subseteq Files
    BY <2>2, ContentTypes, WrittenTypes
  <2>4. ModelsTyped'
    BY <1>7, <2>3 DEF EndSave
  <2>5. QED BY <1>7, <2>1, <2>4 DEF EndSave, clock, scheduler
<1>8. ASSUME NEW a \in Actors, BeginPromote(a)
      PROVE  ActorsTyped' /\ ModelsTyped' /\ ClockTyped' /\ LoopTyped' /\ FlagsTyped'
  <2>1. ActorsTyped'
    BY <1>8, GotoTypes DEF BeginPromote, Stages, InJob, Training, Drafted
  <2>2. OthersPromoting(a) \in BOOLEAN
    BY DEF OthersPromoting
  <2>3. Opened(RegistryEntry(a), OthersPromoting(a)) \in Entries
    BY <2>2, ContentTypes, WrittenTypes
  <2>4. QED BY <1>8, <2>1, <2>3 DEF BeginPromote, clock, scheduler
<1>9. ASSUME NEW a \in Actors, EndPromote(a)
      PROVE  ActorsTyped' /\ ModelsTyped' /\ ClockTyped' /\ LoopTyped' /\ FlagsTyped'
  <2>1. ActorsTyped'
    BY <1>9, ReturnTypes DEF EndPromote
  <2>2. OthersPromoting(a) \in BOOLEAN
    BY DEF OthersPromoting
  <2>3. Closed(registry, RegistryEntry(a), OthersPromoting(a)) \subseteq Entries
    BY <2>2, ContentTypes, WrittenTypes
  <2>4. QED BY <1>9, <2>1, <2>3 DEF EndPromote, clock, scheduler
<1>10. ASSUME NEW a \in Actors, Fails(a)
       PROVE  ActorsTyped' /\ ModelsTyped' /\ ClockTyped' /\ LoopTyped' /\ FlagsTyped'
  <2>1. \E next \in {"none", "alerting"} : Goto(a, next)
    BY <1>10 DEF Fails
  <2>2. ActorsTyped'
    BY <1>10, <2>1, LegacyTypes DEF Fails, Goto, Stages, InJob, Drafted
  <2>3. last_status' \in {"none", "running", "failed", "rejected", "accepted"}
    BY <1>10 DEF Fails
  <2>4. QED BY <1>10, <2>2, <2>3 DEF Fails, clock, models
<1>11. ASSUME NEW a \in Actors, Record(a)
       PROVE  ActorsTyped' /\ ModelsTyped' /\ ClockTyped' /\ LoopTyped' /\ FlagsTyped'
  <2>1. ActorsTyped'
    BY <1>11, LegacyTypes DEF Record, Goto, Stages, InJob, Drafted
  <2>2. QED BY <1>11, <2>1 DEF Record, clock, models
<1>12. ASSUME NEW a \in Actors, AlertSent(a)
       PROVE  ActorsTyped' /\ ModelsTyped' /\ ClockTyped' /\ LoopTyped' /\ FlagsTyped'
  <2>1. ActorsTyped'
    BY <1>12, GotoTypes DEF AlertSent, Stages, Drafted
  <2>2. QED BY <1>12, <2>1 DEF AlertSent, clock, models
<1>13. ASSUME NEW l \in Loops, LoopEnds(l)
       PROVE  ActorsTyped' /\ ModelsTyped' /\ ClockTyped' /\ LoopTyped' /\ FlagsTyped'
  <2>1. ActorsTyped'
    BY <1>13, GotoTypes DEF LoopEnds, Stages, Drafted, Actors
  <2>2. QED BY <1>13, <2>1 DEF LoopEnds, clock, models, scheduler
<1>14. ASSUME NEW o \in Operators, PostTrain(o)
       PROVE  ActorsTyped' /\ ModelsTyped' /\ ClockTyped' /\ LoopTyped' /\ FlagsTyped'
  <2>1. ActorsTyped'
    BY <1>14, GotoTypes DEF PostTrain, Stages, InJob, Drafted, Actors
  <2>2. QED BY <1>14, <2>1 DEF PostTrain, clock, models, scheduler
<1>15. ASSUME NEW o \in Operators, Start(o)
       PROVE  ActorsTyped' /\ ModelsTyped' /\ ClockTyped' /\ LoopTyped' /\ FlagsTyped'
  <2>1. PICK l \in Loops : task' = l /\ Goto(l, "sleeping")
    BY <1>15 DEF Start
  <2>2. ActorsTyped'
    BY <1>15, <2>1, GotoTypes DEF Start, Stages, Drafted, Actors
  <2>3. task' \in 0..MaxLoops
    BY <2>1, BoundsAssumption DEF Loops
  <2>4. QED BY <1>15, <2>2, <2>3 DEF Start, clock, models
<1>16. ASSUME NEW o \in Operators, Stop(o) \/ StopReturns(o)
       PROVE  ActorsTyped' /\ ModelsTyped' /\ ClockTyped' /\ LoopTyped' /\ FlagsTyped'
  <2>1. LoopTyped'
    BY <1>16, BoundsAssumption DEF Stop, StopReturns
  <2>2. QED BY <1>16, <2>1 DEF Stop, StopReturns, clock, models, running_vars
<1>17. CASE Tick
  <2>1. ClockTyped'
    BY <1>17, BoundsAssumption DEF Tick
  <2>2. QED BY <1>17, <2>1 DEF Tick, models, running_vars, scheduler
<1>18. CASE Restart
  <2>1. ActorsTyped'
    BY <1>18, LegacyTypes DEF Restart, Stages, Drafted
  <2>2. LoopTyped'
    BY <1>18, BoundsAssumption DEF Restart
  <2>3. QED BY <1>18, <2>1, <2>2 DEF Restart, clock, models
<1>19. QED
  BY <1>1, <1>2, <1>3, <1>4, <1>5, <1>6, <1>7, <1>8, <1>9, <1>10, <1>11, <1>12,
     <1>13, <1>14, <1>15, <1>16, <1>17, <1>18
  DEF Next, JobStep, TrainerStep, OperatorStep

\* Every variable keeps its type, and who writes has measured something to
\* write, for any number of operators and loops and any bounds.
THEOREM TrainingTypes == Spec => []TypeOK
<1>1. QED BY TypeInit, TypeStep, PTL DEF Spec

(***************************************************************************)
(* One job at a time                                                       *)
(***************************************************************************)

\* A POST /train is nothing but its request and its training.
PostsTrain == \A o \in posted : stage[o] \in Training \cup {"fetching"}

JobInv == PostsTrain /\ OneJobAtATime /\ RunningIsReported

LEMMA JobInit == Init => JobInv
BY DEF Init, JobInv, PostsTrain, OneJobAtATime, RunningIsReported, InProgress, InJob, Training, Drafted

\* A step of a single actor that neither begins nor ends a job of the
\* scheduler, as far as this is to be seen from its stage.
LEMMA JobKept ==
    ASSUME TypeOK, JobInv, NEW a \in Actors, NEW next \in Stages,
           Goto(a, next), UNCHANGED <<lock, last_status>>,
           posted' \subseteq posted \cup {a}, posted \subseteq posted' \cup {a},
           InProgress(a)' <=> InProgress(a),
           InProgress(a) => (stage'[a] = "alerting" <=> stage[a] = "alerting"),
           a \in posted' => stage'[a] \in Training \cup {"fetching"}
    PROVE  JobInv'
<1>1. stage \in [Actors -> Stages]
  BY DEF TypeOK, Stages
<1>2. \A b \in Actors \ {a} : stage'[b] = stage[b] /\ (b \in posted' <=> b \in posted)
  BY <1>1 DEF Goto
<1>3. stage'[a] = next
  BY <1>1 DEF Goto
<1>4. \A b \in Actors : InProgress(b)' <=> InProgress(b)
  BY <1>2 DEF InProgress
<1>5. PostsTrain'
  BY <1>2 DEF PostsTrain, JobInv, TypeOK, Actors
<1>6. OneJobAtATime'
  BY <1>4 DEF OneJobAtATime, JobInv
<1>7. \A b \in Actors : (InProgress(b) /\ stage[b] # "alerting")'
                           <=> (InProgress(b) /\ stage[b] # "alerting")
  BY <1>2, <1>4
<1>8. RunningIsReported'
  BY <1>7 DEF RunningIsReported, JobInv
<1>9. QED BY <1>5, <1>6, <1>8 DEF JobInv

\* What holds of whoever trains under the lock.
LEMMA JobHasLock ==
    ASSUME JobInv, NEW a \in Actors, InProgress(a)
    PROVE  lock /\ \A b \in Actors \ {a} : ~InProgress(b)
BY DEF JobInv, OneJobAtATime

\* A job that is over, or about to be, and the only one.
LEMMA JobEnds ==
    ASSUME TypeOK, JobInv, NEW a \in Actors, InProgress(a), NEW next \in Stages, Goto(a, next),
           UNCHANGED posted, last_status' # "running",
           \/ next = "alerting" /\ lock' = lock
           \/ next \notin InJob
    PROVE  JobInv'
<1>1. stage \in [Actors -> Stages]
  BY DEF TypeOK, Stages
<1>2. stage'[a] = next /\ \A b \in Actors \ {a} : stage'[b] = stage[b]
  BY <1>1 DEF Goto
<1>3. lock /\ \A b \in Actors \ {a} : ~InProgress(b) /\ ~InProgress(b)'
  BY <1>2, JobHasLock DEF InProgress
<1>4. a \notin posted
  BY DEF InProgress
<1>5. PostsTrain'
  BY <1>2, <1>4 DEF PostsTrain, JobInv, TypeOK, Actors
<1>6. OneJobAtATime'
  BY <1>2, <1>3 DEF OneJobAtATime, InProgress
<1>7. RunningIsReported'
  BY <1>2, <1>3 DEF RunningIsReported, InProgress
<1>8. QED BY <1>5, <1>6, <1>7 DEF JobInv

LEMMA JobStepKeeps == TypeOK /\ JobInv /\ [Next]_vars => JobInv'
<1> SUFFICES ASSUME TypeOK, JobInv, [Next]_vars PROVE JobInv'
  OBVIOUS
<1>0. stage \in [Actors -> Stages] /\ posted \subseteq Operators /\ Operators \subseteq Actors
  BY DEF TypeOK, Stages, Actors
<1>1. CASE UNCHANGED vars
  BY <1>1 DEF vars, running_vars, scheduler, JobInv, PostsTrain, OneJobAtATime, RunningIsReported, InProgress
<1>2. ASSUME NEW a \in Actors, RunOnce(a) PROVE JobInv'
  <2>1. \A b \in Actors : ~InProgress(b)
    BY <1>2 DEF RunOnce, JobInv, OneJobAtATime
  <2>2. stage'[a] = "fetching" /\ \A b \in Actors \ {a} : stage'[b] = stage[b]
    BY <1>0, <1>2 DEF RunOnce, Goto
  <2>3. a \notin posted
    BY <1>2 DEF RunOnce, Due, JobInv, PostsTrain, Training, Drafted
  <2>4. InProgress(a)' /\ \A b \in Actors \ {a} : ~InProgress(b)'
    BY <1>2, <2>1, <2>2, <2>3 DEF RunOnce, InProgress, InJob
  <2>5. PostsTrain'
    BY <1>0, <1>2, <2>2, <2>3 DEF RunOnce, JobInv, PostsTrain
  <2>6. OneJobAtATime' /\ RunningIsReported'
    BY <1>2, <2>2, <2>4 DEF RunOnce, OneJobAtATime, RunningIsReported
  <2>7. QED BY <2>5, <2>6 DEF JobInv
<1>3. ASSUME NEW a \in Actors, NEW next \in Stages, Goto(a, next),
             UNCHANGED <<posted, lock, last_status>>,
             stage[a] \in Training \cup {"fetching"}, next \in Training
      PROVE  JobInv'
  <2>1. stage'[a] = next
    BY <1>0, <1>3 DEF Goto
  <2>2. InProgress(a)' <=> InProgress(a)
    BY <1>3, <2>1 DEF InProgress, InJob
  <2>3. QED BY <1>3, <2>1, <2>2, JobKept DEF Training, Drafted
<1>4. ASSUME NEW a \in Actors, NEW result \in Drafts, Return(a, result),
             UNCHANGED <<lock, last_status>>, stage[a] \in Training
      PROVE  JobInv'
  <2>1. PICK next \in {"none", "trained"} :
            Goto(a, next) /\ next = IF a \in posted THEN "none" ELSE "trained"
    BY <1>4 DEF Return
  <2>2. stage'[a] = next /\ posted' = posted \ {a}
    BY <1>0, <1>4, <2>1 DEF Goto, Return
  <2>3. InProgress(a)' <=> InProgress(a)
    BY <1>4, <2>1, <2>2 DEF InProgress, InJob, Training, Drafted
  <2>4. next \in Stages /\ next # "alerting" /\ stage[a] # "alerting"
    BY <1>4, <2>1 DEF Stages, InJob, Training, Drafted
  <2>5. QED BY <1>4, <2>1, <2>2, <2>3, <2>4, JobKept
<1>5. ASSUME NEW a \in Actors, Fetched(a) PROVE JobInv'
  BY <1>3, <1>5 DEF Fetched, scheduler, Stages, InJob, Training
<1>6. ASSUME NEW a \in Actors, Refuse(a) PROVE JobInv'
  BY <1>4, <1>6, LegacyTypes DEF Refuse, scheduler, Training
<1>7. ASSUME NEW a \in Actors, Evaluate(a) PROVE JobInv'
  BY <1>3, <1>7 DEF Evaluate, scheduler, Stages, InJob, Training, Drafted
<1>8. ASSUME NEW a \in Actors, BeginSave(a) PROVE JobInv'
  BY <1>3, <1>8 DEF BeginSave, scheduler, Stages, InJob, Training, Drafted
<1>9. ASSUME NEW a \in Actors, EndSave(a) PROVE JobInv'
  <2>1. UNCHANGED <<lock, last_status>> /\ stage[a] = "saving" /\ draft[a] \in Drafts
    BY <1>9 DEF EndSave, scheduler, TypeOK
  <2>2. CASE draft[a].metrics.accepted
    <3>1. Goto(a, "saved") /\ UNCHANGED posted
      BY <1>9, <2>2 DEF EndSave
    <3>2. QED BY <1>3, <2>1, <3>1 DEF Stages, InJob, Training, Drafted
  <2>3. CASE ~draft[a].metrics.accepted
    <3>1. Return(a, draft[a])
      BY <1>9, <2>3 DEF EndSave
    <3>2. QED BY <1>4, <2>1, <3>1 DEF Training, Drafted
  <2>4. QED BY <2>2, <2>3
<1>10. ASSUME NEW a \in Actors, BeginPromote(a) PROVE JobInv'
  BY <1>3, <1>10 DEF BeginPromote, scheduler, Stages, InJob, Training, Drafted
<1>11. ASSUME NEW a \in Actors, EndPromote(a) PROVE JobInv'
  BY <1>4, <1>11 DEF EndPromote, scheduler, Training, Drafted, TypeOK
<1>12. ASSUME NEW a \in Actors, Fails(a) PROVE JobInv'
  <2>1. CASE a \in posted
    <3>1. Goto(a, "none") /\ UNCHANGED <<lock, last_status>> /\ posted' = posted \ {a}
      BY <1>12, <2>1 DEF Fails
    <3>2. stage'[a] = "none" /\ ~InProgress(a) /\ ~InProgress(a)'
      BY <1>0, <2>1, <3>1 DEF Goto, InProgress, InJob, Training, Drafted
    <3>3. QED BY <3>1, <3>2, JobKept DEF Stages
  <2>2. CASE a \notin posted
    <3>1. Goto(a, "alerting") /\ last_status' = "failed" /\ UNCHANGED <<posted, lock>>
      BY <1>12, <2>2 DEF Fails
    <3>2. InProgress(a)
      BY <1>12, <2>2 DEF Fails, InProgress, InJob
    <3>3. QED BY <3>1, <3>2, JobEnds DEF Stages, InJob
  <2>3. QED BY <2>1, <2>2
<1>13. ASSUME NEW a \in Actors, Record(a) PROVE JobInv'
  <2>1. InProgress(a)
    BY <1>13 DEF Record, InProgress, InJob, JobInv, PostsTrain, Training, Drafted
  <2>2. QED BY <1>13, <2>1, JobEnds DEF Record, Stages, InJob
<1>14. ASSUME NEW a \in Actors, AlertSent(a) PROVE JobInv'
  <2>1. InProgress(a)
    BY <1>14 DEF AlertSent, InProgress, InJob, JobInv, PostsTrain, Training, Drafted
  <2>2. PICK next \in {"sleeping", "none"} : Goto(a, next)
    BY <1>14 DEF AlertSent
  <2>3. last_status # "running"
    BY <1>14, <2>1 DEF AlertSent, JobInv, RunningIsReported, OneJobAtATime
  <2>4. next \in Stages /\ next \notin InJob
    BY DEF Stages, InJob, Training, Drafted
  <2>5. QED BY <1>14, <2>1, <2>2, <2>3, <2>4, JobEnds DEF AlertSent
<1>15. ASSUME NEW a \in Actors, NEW next \in Stages, Goto(a, next),
              UNCHANGED <<posted, lock, last_status>>,
              stage[a] \in {"none", "sleeping"}, next \in {"none", "sleeping"}
       PROVE  JobInv'
  <2>1. stage'[a] = next
    BY <1>0, <1>15 DEF Goto
  <2>2. ~InProgress(a) /\ ~InProgress(a)' /\ a \notin posted
    BY <1>15, <2>1 DEF InProgress, InJob, Training, Drafted, JobInv, PostsTrain
  <2>3. QED BY <1>15, <2>2, JobKept
<1>16. ASSUME NEW l \in Loops, LoopEnds(l) PROVE JobInv'
  BY <1>15, <1>16 DEF LoopEnds, scheduler, Actors, Stages
<1>17. ASSUME NEW o \in Operators, PostTrain(o) PROVE JobInv'
  <2>1. Goto(o, "fetching") /\ UNCHANGED <<lock, last_status>> /\ posted' = posted \cup {o}
    BY <1>17 DEF PostTrain, scheduler
  <2>2. stage'[o] = "fetching" /\ ~InProgress(o) /\ ~InProgress(o)'
    BY <1>0, <1>17, <2>1 DEF PostTrain, Goto, InProgress, InJob, Training, Drafted
  <2>3. QED BY <1>0, <2>1, <2>2, JobKept DEF Stages, InJob
<1>18. ASSUME NEW o \in Operators, Start(o) PROVE JobInv'
  <2>1. PICK l \in Loops : Unused(l) /\ Goto(l, "sleeping")
    BY <1>18 DEF Start
  <2>2. QED BY <1>15, <1>18, <2>1 DEF Start, Unused, Actors, Stages
<1>19. ASSUME NEW o \in Operators, Stop(o) \/ StopReturns(o) PROVE JobInv'
  BY <1>19 DEF Stop, StopReturns, running_vars, JobInv, PostsTrain, OneJobAtATime, RunningIsReported, InProgress
<1>20. CASE Tick
  BY <1>20 DEF Tick, running_vars, scheduler, JobInv, PostsTrain, OneJobAtATime, RunningIsReported, InProgress
<1>21. CASE Restart
  <2>1. \A a \in Actors : stage'[a] \notin InJob
    BY <1>21 DEF Restart, InJob, Training, Drafted
  <2>2. last_status' # "running" /\ posted' = {}
    BY <1>21 DEF Restart
  <2>3. QED BY <2>1, <2>2 DEF JobInv, PostsTrain, OneJobAtATime, RunningIsReported, InProgress
<1>22. QED
  BY <1>1, <1>2, <1>5, <1>6, <1>7, <1>8, <1>9, <1>10, <1>11, <1>12, <1>13, <1>14,
     <1>16, <1>17, <1>18, <1>19, <1>20, <1>21
  DEF Next, JobStep, TrainerStep, OperatorStep

\* The loop and run-now never train at the same time.
THEOREM OneJobHolds == Spec => []OneJobAtATime
<1>1. TypeOK /\ JobInv /\ [Next]_vars => (TypeOK /\ JobInv)'
  BY TypeStep, JobStepKeeps
<1>2. JobInv => OneJobAtATime
  BY DEF JobInv
<1>3. QED BY <1>1, <1>2, TypeInit, JobInit, PTL DEF Spec

\* The status says "running" exactly while a job of the scheduler trains.
THEOREM RunningHolds == Spec => []RunningIsReported
<1>1. TypeOK /\ JobInv /\ [Next]_vars => (TypeOK /\ JobInv)'
  BY TypeStep, JobStepKeeps
<1>2. JobInv => RunningIsReported
  BY DEF JobInv
<1>3. QED BY <1>1, <1>2, TypeInit, JobInit, PTL DEF Spec

(***************************************************************************)
(* One loop                                                                *)
(***************************************************************************)

\* A loop that is over is not brought back by any step of its own.
LEMMA LoopKept ==
    ASSUME TypeOK, OneTrainingLoop, NEW a \in Actors, NEW next \in Stages, Goto(a, next),
           UNCHANGED task, a \in Loops => stage[a] # "none"
    PROVE  OneTrainingLoop'
<1>1. stage \in [Actors -> Stages]
  BY DEF TypeOK, Stages
<1>2. ASSUME NEW l \in Loops, stage'[l] # "none" PROVE stage[l] # "none"
  BY <1>1, <1>2 DEF Goto, Actors
<1>3. QED BY <1>2 DEF OneTrainingLoop

LEMMA LoopStepKeeps == TypeOK /\ OneTrainingLoop /\ [Next]_vars => OneTrainingLoop'
<1> SUFFICES ASSUME TypeOK, OneTrainingLoop, [Next]_vars PROVE OneTrainingLoop'
  OBVIOUS
<1>0. \A o \in Operators : o \in Actors /\ o \notin Loops
  BY OperatorsAssumption, BoundsAssumption DEF Actors, Loops
<1>1. CASE UNCHANGED vars
  BY <1>1 DEF vars, running_vars, scheduler, OneTrainingLoop
<1>2. ASSUME NEW a \in Actors, RunOnce(a) PROVE OneTrainingLoop'
  BY <1>2, LoopKept DEF RunOnce, Due, Stages, InJob
<1>3. ASSUME NEW a \in Actors, JobStep(a) PROVE OneTrainingLoop'
  <2>1. stage[a] # "none" /\ UNCHANGED task
    BY <1>3 DEF JobStep, TrainerStep, Fetched, Refuse, Evaluate, BeginSave, EndSave,
                BeginPromote, EndPromote, Fails, Record, AlertSent, Training, Drafted, scheduler
  <2>2. \E next \in Stages : Goto(a, next)
    BY <1>3 DEF JobStep, TrainerStep, Fetched, Refuse, Evaluate, BeginSave, EndSave, Return,
                BeginPromote, EndPromote, Fails, Record, AlertSent, Training, Drafted, Stages, InJob
  <2>3. QED BY <2>1, <2>2, LoopKept
<1>4. ASSUME NEW l \in Loops, LoopEnds(l) PROVE OneTrainingLoop'
  BY <1>4, LoopKept DEF LoopEnds, Actors, Stages, scheduler
<1>5. ASSUME NEW o \in Operators, PostTrain(o) PROVE OneTrainingLoop'
  BY <1>0, <1>5, LoopKept DEF PostTrain, Stages, InJob, scheduler
<1>6. ASSUME NEW o \in Operators, Start(o) PROVE OneTrainingLoop'
  <2>1. stage \in [Actors -> Stages] /\ task \in 0..MaxLoops
    BY DEF TypeOK, Stages
  <2>2. \A l \in Loops : stage[l] = "none"
    BY <1>6, <2>1, BoundsAssumption DEF Start, running, OneTrainingLoop, Loops
  <2>3. PICK l \in Loops : task' = l /\ Goto(l, "sleeping")
    BY <1>6 DEF Start
  <2>4. QED BY <2>1, <2>2, <2>3 DEF Goto, OneTrainingLoop
<1>7. ASSUME NEW o \in Operators, Stop(o) \/ StopReturns(o) PROVE OneTrainingLoop'
  BY <1>7 DEF Stop, StopReturns, running_vars, OneTrainingLoop
<1>8. CASE Tick
  BY <1>8 DEF Tick, running_vars, scheduler, OneTrainingLoop
<1>9. CASE Restart
  BY <1>9 DEF Restart, OneTrainingLoop, Actors
<1>10. QED
  BY <1>1, <1>2, <1>3, <1>4, <1>5, <1>6, <1>7, <1>8, <1>9 DEF Next, OperatorStep

\* However start and stop race, at most one loop is alive, and it is known.
THEOREM OneLoopHolds == Spec => []OneTrainingLoop
<1>1. Init => OneTrainingLoop
  BY DEF Init, OneTrainingLoop, Actors
<1>2. TypeOK /\ OneTrainingLoop /\ [Next]_vars => (TypeOK /\ OneTrainingLoop)'
  BY TypeStep, LoopStepKeeps
<1>3. QED BY <1>1, <1>2, TypeInit, PTL DEF Spec

(***************************************************************************)
(* The registry and the model files                                        *)
(***************************************************************************)

\* Every training has a version of its own, ...
VersionsDiffer ==
    /\ stamped <= second
    /\ \A a \in Actors : stage[a] \in Drafted => draft[a].version \in 1..stamped
    /\ \A a, b \in Actors :
          stage[a] \in Drafted /\ stage[b] \in Drafted /\ a # b
              => draft[a].version # draft[b].version

\* ... so no two write one file, what is saved stays as it is, ...
SavedIsKept ==
    /\ \A v \in Versions : files[v].state # "mixed"
    /\ \A a \in Actors :
          stage[a] \in {"saved", "promoting"} =>
              /\ files[draft[a].version] = ModelFile(a)
              /\ draft[a].metrics.accepted

\* ... and what the registry names, even while it is torn, is not written any more.
NamedIsSaved ==
    registry.version # 0 =>
        /\ registry.version \in 1..stamped
        /\ files[registry.version].state = "complete"
        /\ files[registry.version].metrics.accepted
        /\ files[registry.version].metrics.id = registry.metrics.id
        /\ \A a \in Actors :
              stage[a] \in {"fitting", "saving"} => draft[a].version # registry.version

FileInv == VersionsDiffer /\ SavedIsKept /\ NamedIsSaved

LEMMA FileInit == Init => FileInv
BY DEF Init, FileInv, VersionsDiffer, SavedIsKept, NamedIsSaved, Drafted, Absent

\* A step that writes no file, and after which actor a is no longer further
\* along with its draft than it was.
LEMMA FileKept ==
    ASSUME TypeOK, FileInv, NEW a \in Actors, UNCHANGED <<stamped, models>>,
           second' \in Nat, second <= second',
           \A b \in Actors \ {a} : stage'[b] = stage[b] /\ draft'[b] = draft[b],
           \/ stage'[a] \notin Drafted
           \/ stage'[a] = stage[a] /\ draft'[a] = draft[a]
    PROVE  FileInv'
<1>1. stamped \in Nat /\ second \in Nat
  BY DEF TypeOK
<1>2. \A b \in Actors : stage'[b] \in Drafted => stage'[b] = stage[b] /\ draft'[b] = draft[b]
  OBVIOUS
<1>3. VersionsDiffer'
  BY <1>1, <1>2 DEF FileInv, VersionsDiffer
<1>4. SavedIsKept'
  BY <1>2 DEF FileInv, SavedIsKept, ModelFile, models, Drafted
<1>5. NamedIsSaved'
  BY <1>2 DEF FileInv, NamedIsSaved, models, Drafted
<1>6. QED BY <1>3, <1>4, <1>5 DEF FileInv

\* Without two trainings in one second, every step keeps it so.
LEMMA FileStepKeeps == ~SameSecond /\ TypeOK /\ FileInv /\ [Next]_vars => FileInv'
<1> SUFFICES ASSUME ~SameSecond, TypeOK, FileInv, [Next]_vars PROVE FileInv'
  OBVIOUS
<1>0. /\ stage \in [Actors -> Stages] /\ draft \in [Actors -> Drafts]
      /\ files \in [Versions -> Files] /\ registry \in Entries
      /\ second \in Nat /\ stamped \in Nat
  BY DEF TypeOK, Stages
<1>1. ASSUME NEW a \in Actors, NEW next \in Stages, Goto(a, next), next \notin Drafted,
             UNCHANGED <<clock, models>>,
             \A b \in Actors \ {a} : draft'[b] = draft[b]
      PROVE  FileInv'
  BY <1>0, <1>1, FileKept DEF Goto, clock
<1>2. ASSUME NEW a \in Actors, RunOnce(a) \/ Fetched(a) \/ AlertSent(a) PROVE FileInv'
  BY <1>1, <1>2 DEF RunOnce, Fetched, AlertSent, Stages, InJob, Training, Drafted
<1>3. ASSUME NEW a \in Actors, Refuse(a) PROVE FileInv'
  BY <1>0, <1>1, <1>3 DEF Refuse, Return, Stages, InJob, Training, Drafted
<1>4. ASSUME NEW a \in Actors, Fails(a) PROVE FileInv'
  BY <1>0, <1>1, <1>4 DEF Fails, Stages, InJob, Training, Drafted
<1>5. ASSUME NEW a \in Actors, Record(a) PROVE FileInv'
  BY <1>0, <1>1, <1>5 DEF Record, Stages, InJob, Training, Drafted
<1>6. ASSUME NEW a \in Actors, Evaluate(a) PROVE FileInv'
  <2>1. stamped < second /\ stamped' = second /\ second' = second /\ UNCHANGED models
    BY <1>6 DEF Evaluate
  <2>2. stage'[a] = "fitting" /\ draft'[a].version = second
    BY <1>0, <1>6 DEF Evaluate, Goto
  <2>3. \A b \in Actors \ {a} : stage'[b] = stage[b] /\ draft'[b] = draft[b]
    BY <1>0, <1>6 DEF Evaluate, Goto
  <2>4. VersionsDiffer'
    BY <1>0, <2>1, <2>2, <2>3 DEF FileInv, VersionsDiffer
  <2>5. SavedIsKept'
    BY <2>1, <2>2, <2>3 DEF FileInv, SavedIsKept, ModelFile, models
  <2>6. NamedIsSaved'
    BY <1>0, <2>1, <2>2, <2>3 DEF FileInv, NamedIsSaved, models
  <2>7. QED BY <2>4, <2>5, <2>6 DEF FileInv
<1>7. ASSUME NEW a \in Actors, stage[a] \in {"fitting", "saving"}, NEW file,
             files' = [files EXCEPT ![draft[a].version] = file], file.state # "mixed",
             UNCHANGED <<clock, registry>>,
             \A b \in Actors \ {a} : stage'[b] = stage[b] /\ draft'[b] = draft[b],
             \/ stage'[a] \notin Drafted
             \/ stage'[a] = "saving" /\ draft'[a] = draft[a]
             \/ /\ stage'[a] = "saved" /\ draft'[a] = draft[a]
                /\ file = ModelFile(a) /\ draft[a].metrics.accepted
      PROVE  FileInv'
  <2>1. draft[a].version \in Versions /\ files'[draft[a].version] = file
    BY <1>0, <1>7, ContentTypes
  <2>2. \A v \in Versions \ {draft[a].version} : files'[v] = files[v]
    BY <1>0, <1>7
  <2>3. VersionsDiffer'
    BY <1>7 DEF FileInv, VersionsDiffer, Drafted, clock
  <2>4. ASSUME NEW b \in Actors \ {a}, stage[b] \in {"saved", "promoting"}
        PROVE  files'[draft[b].version] = files[draft[b].version]
    <3>1. draft[b].version # draft[a].version
      BY <1>7, <2>4 DEF FileInv, VersionsDiffer, Drafted
    <3>2. draft[b].version \in Versions
      BY ContentTypes
    <3>3. QED BY <2>2, <3>1, <3>2
  <2>5. SavedIsKept'
    BY <1>7, <2>1, <2>2, <2>4 DEF FileInv, SavedIsKept, ModelFile, Drafted
  <2>6. registry.version # 0 => registry.version \in Versions \ {draft[a].version}
    BY <1>0, <1>7 DEF FileInv, NamedIsSaved, Entries
  <2>7. NamedIsSaved'
    BY <1>7, <2>2, <2>6 DEF FileInv, NamedIsSaved, clock, Drafted
  <2>8. QED BY <2>3, <2>5, <2>7 DEF FileInv
<1>8. ASSUME NEW a \in Actors, stage[a] = "saving" \/ stage[a] = "fitting" PROVE ~OthersSaving(a)
  BY <1>8 DEF FileInv, VersionsDiffer, OthersSaving, Drafted
<1>9. ASSUME NEW a \in Actors, BeginSave(a) PROVE FileInv'
  <2>1. Opened(ModelFile(a), OthersSaving(a)).state # "mixed"
    BY <1>8, <1>9 DEF BeginSave, Opened, ModelFile
  <2>2. QED BY <1>0, <1>7, <1>9, <2>1 DEF BeginSave, Goto
<1>10. ASSUME NEW a \in Actors, EndSave(a) PROVE FileInv'
  <2>1. stage[a] = "saving" /\ draft[a].version \in Versions
    BY <1>10, ContentTypes DEF EndSave
  <2>2. Closed(files[draft[a].version], ModelFile(a), OthersSaving(a)) = {ModelFile(a)}
    BY <2>1 DEF Closed, FileInv, SavedIsKept
  <2>3. files' = [files EXCEPT ![draft[a].version] = ModelFile(a)]
    BY <1>10, <2>2 DEF EndSave
  <2>4. ModelFile(a).state # "mixed"
    BY DEF ModelFile
  <2>5. CASE draft[a].metrics.accepted
    <3>1. stage'[a] = "saved" /\ draft' = draft
      BY <1>0, <1>10, <2>5 DEF EndSave, Goto
    <3>2. \A b \in Actors \ {a} : stage'[b] = stage[b]
      BY <1>0, <1>10, <2>5 DEF EndSave, Goto
    <3>3. QED BY <1>7, <1>10, <2>1, <2>3, <2>4, <2>5, <3>1, <3>2 DEF EndSave
  <2>6. CASE ~draft[a].metrics.accepted
    <3>1. stage'[a] \notin Drafted
      BY <1>0, <1>10, <2>6 DEF EndSave, Return, Goto, Drafted
    <3>2. \A b \in Actors \ {a} : stage'[b] = stage[b] /\ draft'[b] = draft[b]
      BY <1>0, <1>10, <2>6 DEF EndSave, Return, Goto
    <3>3. QED BY <1>7, <1>10, <2>1, <2>3, <2>4, <3>1, <3>2 DEF EndSave
  <2>7. QED BY <2>5, <2>6
<1>11. ASSUME NEW a \in Actors, stage[a] \in {"saved", "promoting"},
              UNCHANGED <<clock, files>>,
              \/ /\ registry'.version = draft[a].version
                 /\ registry'.metrics.id = draft[a].metrics.id
              \/ /\ registry'.version = registry.version
                 /\ registry'.metrics.id = registry.metrics.id,
              \A b \in Actors \ {a} : stage'[b] = stage[b] /\ draft'[b] = draft[b],
              \/ stage'[a] \notin Drafted
              \/ stage'[a] = "promoting" /\ draft'[a] = draft[a]
       PROVE  FileInv'
  <2>1. VersionsDiffer'
    BY <1>11 DEF FileInv, VersionsDiffer, Drafted, clock
  <2>2. SavedIsKept'
    BY <1>11 DEF FileInv, SavedIsKept, ModelFile, Drafted
  <2>3. \A b \in Actors : stage'[b] \in {"fitting", "saving"}
                          => b # a /\ stage[b] \in {"fitting", "saving"} /\ draft'[b] = draft[b]
    BY <1>11 DEF Drafted
  <2>4. CASE registry'.version = draft[a].version /\ registry'.metrics.id = draft[a].metrics.id
    <3>1. files[draft[a].version] = ModelFile(a) /\ draft[a].metrics.accepted
      BY <1>11 DEF FileInv, SavedIsKept
    <3>2. draft[a].version \in 1..stamped
      BY <1>11 DEF FileInv, VersionsDiffer, Drafted
    <3>3. \A b \in Actors : stage'[b] \in {"fitting", "saving"} => draft'[b].version # draft[a].version
      BY <1>11, <2>3 DEF FileInv, VersionsDiffer, Drafted
    <3>4. QED BY <1>11, <2>1, <2>2, <2>4, <3>1, <3>2, <3>3 DEF FileInv, NamedIsSaved, ModelFile, clock
  <2>5. CASE registry'.version = registry.version /\ registry'.metrics.id = registry.metrics.id
    BY <1>11, <2>1, <2>2, <2>3, <2>5 DEF FileInv, NamedIsSaved, clock
  <2>6. QED BY <1>11, <2>4, <2>5
<1>12. ASSUME NEW a \in Actors, BeginPromote(a) PROVE FileInv'
  <2>1. /\ registry'.version = draft[a].version
        /\ registry'.metrics.id = draft[a].metrics.id
    BY <1>0, <1>12 DEF BeginPromote, Opened, RegistryEntry, ViaJson, Drafts, Metrics
  <2>2. QED BY <1>0, <1>11, <1>12, <2>1 DEF BeginPromote, Goto
<1>13. ASSUME NEW a \in Actors, EndPromote(a) PROVE FileInv'
  <2>1. \/ /\ registry'.version = draft[a].version
           /\ registry'.metrics.id = draft[a].metrics.id
        \/ /\ registry'.version = registry.version
           /\ registry'.metrics.id = registry.metrics.id
    BY <1>0, <1>13 DEF EndPromote, Closed, RegistryEntry, ViaJson, Drafts, Metrics, Entries
  <2>2. stage'[a] \notin Drafted /\ \A b \in Actors \ {a} : stage'[b] = stage[b] /\ draft'[b] = draft[b]
    BY <1>0, <1>13 DEF EndPromote, Return, Goto, Drafted
  <2>3. QED BY <1>11, <1>13, <2>1, <2>2 DEF EndPromote
<1>14. ASSUME NEW l \in Loops, LoopEnds(l) PROVE FileInv'
  BY <1>1, <1>14 DEF LoopEnds, Stages, Drafted, Actors
<1>15. ASSUME NEW o \in Operators, PostTrain(o) PROVE FileInv'
  BY <1>1, <1>15 DEF PostTrain, Stages, InJob, Drafted, Actors
<1>16. ASSUME NEW o \in Operators, Start(o) PROVE FileInv'
  BY <1>1, <1>16 DEF Start, Stages, Drafted, Actors
<1>17. CASE UNCHANGED <<stage, draft, models, stamped>> /\ second' \in Nat /\ second <= second'
  BY <1>0, <1>17 DEF FileInv, VersionsDiffer, SavedIsKept, NamedIsSaved, ModelFile, models
<1>18. ASSUME NEW o \in Operators, Stop(o) \/ StopReturns(o) PROVE FileInv'
  BY <1>0, <1>17, <1>18 DEF Stop, StopReturns, clock, running_vars
<1>19. CASE Tick
  BY <1>0, <1>17, <1>19 DEF Tick, running_vars
<1>20. CASE UNCHANGED vars
  BY <1>0, <1>17, <1>20 DEF vars, clock, running_vars
<1>21. CASE Restart
  <2>1. \A a \in Actors : stage'[a] \notin Drafted
    BY <1>21 DEF Restart, Drafted
  <2>2. QED BY <1>0, <1>21, <2>1
        DEF Restart, clock, models, FileInv, VersionsDiffer, SavedIsKept, NamedIsSaved, Drafted
<1>22. QED
  BY <1>2, <1>3, <1>4, <1>5, <1>6, <1>9, <1>10, <1>12, <1>13, <1>14, <1>15, <1>16,
     <1>18, <1>19, <1>20, <1>21
  DEF Next, JobStep, TrainerStep, OperatorStep

\* Unless two trainings take their version in the same second, the registry
\* only ever names a finished file of an accepted training: with POST /train
\* in between, with failures and crashes at any step.
THEOREM RegistryHolds == ~SameSecond => (Spec => []RegistryNamesSavedModel)
<1> SUFFICES ASSUME ~SameSecond PROVE Spec => []RegistryNamesSavedModel
  OBVIOUS
<1>1. TypeOK /\ FileInv /\ [Next]_vars => (TypeOK /\ FileInv)'
  BY TypeStep, FileStepKeeps
<1>2. FileInv => RegistryNamesSavedModel
  BY DEF FileInv, NamedIsSaved, RegistryNamesSavedModel
<1>3. QED BY <1>1, <1>2, TypeInit, FileInit, PTL DEF Spec

=============================================================================
