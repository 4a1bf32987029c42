--------------------------- MODULE SchedulerProofs ---------------------------
(***************************************************************************)
(* What holds of the trading scheduler for every number of operators,      *)
(* counted reasons and loops and every limit.  Which database calls may    *)
(* fail, and how many operators there are, is a hypothesis of the theorems *)
(* that need one.                                                          *)
(***************************************************************************)
EXTENDS Scheduler, FiniteSetTheorems, TLAPS

(***************************************************************************)
(* What the database calls return                                          *)
(***************************************************************************)

\* update_scheduler_state writes a row, or leaves the one there is.
LEMMA StateAfterType ==
    ASSUME NEW row \in States, NEW reason \in Reasons \cup {"none"}
    PROVE  /\ StateAfter(row, reason) \subseteq {reason, row}
           /\ "state" \notin Faults => StateAfter(row, reason) = {reason}
           /\ StateAfter(row, "unset") \subseteq States
           /\ StateAfter(row, reason) \subseteq States
           /\ row # "absent" => StateAfter(row, "unset") = {row}
           /\ row = "absent" => StateAfter(row, "unset") \subseteq {"none", "absent"}
<1>1. reason # "unset" /\ Reasons \cup {"none", "absent"} = States
  BY RiskReasonsAssumption DEF Reasons, States
<1>2. QED BY <1>1 DEF StateAfter

LEMMA EventAfterType ==
    ASSUME NEW newest \in Events, NEW kind \in {"pause", "resume"}
    PROVE  EventAfter(newest, kind) \subseteq Events
BY DEF EventAfter, Events

\* What restore_pause_state makes of what it finds.
Restores == [reason : Reasons \cup {"none"}, row : States, newest : Events]

LEMMA RestoreType ==
    ASSUME NEW known \in Reasons \cup {"none"}, NEW row \in States, NEW newest \in Events
    PROVE  /\ Restore(known, row, newest) \subseteq Restores
           /\ row # "absent" => Restored(known, row, newest) = {[reason |-> row, row |-> row, newest |-> newest]}
<1>1. row # "absent" => row \in Reasons \cup {"none"}
  BY DEF States
<1>2. "kill_switch" \in Reasons
  BY DEF Reasons
<1>3. StateAfter(row, "kill_switch") \subseteq States /\ EventAfter(newest, "resume") \subseteq Events
  BY <1>2, StateAfterType, EventAfterType
<1>4. QED BY <1>1, <1>2, <1>3 DEF Restore, Restored, Restores

(***************************************************************************)
(* Types                                                                   *)
(***************************************************************************)

\* A set of numbers that is not empty has a least one.
LEMMA LeastLoop ==
    ASSUME NEW T, T \subseteq Nat, T # {}
    PROVE  \E x \in T : \A y \in T : x <= y
<1> DEFINE R == {ss \in Nat \X Nat : ss[1] < ss[2]}
<1>1. IsWellFoundedOn(R, Nat)
  BY NatLessThanWellFounded DEF OpToRel
<1>2. \E x \in T : \A y \in T : <<y, x>> \notin R
  <2> HIDE DEF R
  <2> QED BY <1>1, WFMin
<1>3. ASSUME NEW x \in T, NEW y \in T, <<y, x>> \notin R PROVE x <= y
  <2>1. x \in Nat /\ y \in Nat /\ <<y, x>> \in Nat \X Nat
    OBVIOUS
  <2>2. ~(<<y, x>>[1] < <<y, x>>[2])
    BY <1>3, <2>1 DEF R
  <2>3. QED BY <2>1, <2>2
<1>4. QED
  <2> HIDE DEF R
  <2> QED BY <1>2, <1>3

\* start() makes a loop of a number that is not in use.
LEMMA LaunchLoop ==
    ASSUME TypeOK, NEW restored, Launch(restored)
    PROVE  task' \in Loops /\ Unused(task') /\ task' # 0
<1> DEFINE free == {l \in Loops : Unused(l)}
           Least(l) == l \in free /\ \A k \in free : l <= k
<1>1. free # {} /\ task' = CHOOSE l \in free : \A k \in free : l <= k
  BY DEF Launch
<1>2. \E l \in free : \A k \in free : l <= k
  <2>1. free \subseteq Nat
    BY DEF Loops
  <2>2. QED
    <3> HIDE DEF free
    <3> QED BY <1>1, <2>1, LeastLoop
<1>3. task' \in free
  <2> HIDE DEF free
  <2> QED BY <1>1, <1>2
<1>4. QED BY <1>3 DEF Loops

\* A pause that is not ignored.
LEMMA PauseType ==
    ASSUME TypeOK, NEW reason \in Reasons, NEW row \in States, PauseFor(reason, row)
    PROVE  pause_reason' \in Reasons /\ state' \in States /\ event' \in Events
<1>1. StateAfter(row, reason) \subseteq States /\ EventAfter(event, "pause") \subseteq Events
  BY StateAfterType, EventAfterType DEF TypeOK
<1>2. QED BY <1>1 DEF PauseFor, TypeOK

LEMMA LaunchType ==
    ASSUME TypeOK, NEW restored \in Restores, Launch(restored), up' \in BOOLEAN
    PROVE  TypeOK'
<1>1. task' \in Loops /\ task' \in 0..MaxLoops
  BY LaunchLoop DEF Loops
<1>2. loops' \in [Loops -> LoopStages]
  BY <1>1 DEF Launch, TypeOK, LoopStages
<1>3. restored.reason \in Reasons \cup {"none"} /\ restored.row \in States /\ restored.newest \in Events
  BY DEF Restores
<1>4. QED BY <1>1, <1>2, <1>3 DEF Launch, TypeOK

\* Every step of the loop goes from one stage to another.
LEMMA GotoType ==
    ASSUME TypeOK, NEW l \in Loops, NEW stage \in LoopStages, Goto(l, stage)
    PROVE  /\ UNCHANGED <<up, stop_set, task, stopping>>
           /\ loops' \in [Loops -> LoopStages] /\ loops'[l] = stage
           /\ \A k \in Loops \ {l} : loops'[k] = loops[k]
BY DEF Goto, TypeOK

LEMMA ScanPausesType ==
    ASSUME TypeOK, NEW l \in Loops, NEW reason \in Reasons, ScanPauses(l, reason)
    PROVE  /\ UNCHANGED <<up, stop_set, task, stopping>>
           /\ loops' \in [Loops -> LoopStages] /\ loops'[l] \in {"recording", "waiting"}
           /\ \A k \in Loops \ {l} : loops'[k] = loops[k]
           /\ pause_reason' = IF pause_reason = "none" THEN reason ELSE pause_reason
           /\ state' \in States /\ event' \in Events
<1>1. PICK row \in {state} \cup StateAfter(state, "unset") :
         IF pause_reason = "none"
         THEN PauseFor(reason, row) /\ Goto(l, "recording")
         ELSE /\ Goto(l, "waiting")
              /\ state' \in StateAfter(row, "unset")
              /\ UNCHANGED <<pause_reason, event>>
  BY DEF ScanPauses
<1>2. state \in States /\ row \in States /\ StateAfter(row, "unset") \subseteq States
  BY StateAfterType DEF TypeOK
<1>3. CASE pause_reason = "none"
  <2>1. PauseFor(reason, row) /\ Goto(l, "recording")
    BY <1>1, <1>3
  <2>2. QED BY <1>2, <1>3, <2>1, PauseType, GotoType DEF PauseFor, LoopStages
<1>4. CASE pause_reason # "none"
  <2>1. Goto(l, "waiting")
    BY <1>1, <1>4
  <2>2. QED BY <1>1, <1>2, <1>4, <2>1, GotoType DEF LoopStages, TypeOK
<1>5. QED BY <1>3, <1>4

LEMMA TypeLoop ==
    ASSUME TypeOK, NEW l \in Loops, LoopStep(l)
    PROVE  TypeOK'
<1>0. StateAfter(state, "unset") \subseteq States /\ StateAfter(state, "none") \subseteq States
  BY StateAfterType DEF TypeOK
<1>1. CASE Iterate(l)
  BY <1>1 DEF Iterate, TypeOK, memory, database, LoopStages
<1>2. CASE ScanReturns(l) \/ RecordSuccess(l) \/ ScanRaises(l)
  <2>1. \E stage \in LoopStages : Goto(l, stage)
    BY <1>2 DEF ScanReturns, RecordSuccess, ScanRaises, LoopStages
  <2>2. state' \in States /\ UNCHANGED <<memory, event>>
    BY <1>0, <1>2 DEF ScanReturns, RecordSuccess, ScanRaises
  <2>3. QED BY <2>1, <2>2, GotoType DEF TypeOK, memory
<1>3. CASE ScanTripsKillSwitch(l)
  <2>1. ScanPauses(l, "kill_switch") /\ UNCHANGED <<blocks, errors>> /\ "kill_switch" \in Reasons
    BY <1>3 DEF ScanTripsKillSwitch, Reasons
  <2>2. QED BY <2>1, ScanPausesType DEF TypeOK
<1>4. ASSUME NEW r \in RiskReasons, ScanBlocked(l, r) PROVE TypeOK'
  <2>1. blocks' \in [RiskReasons -> 0..MaxBlocks] /\ errors' = errors
    BY <1>4, LimitsAssumption DEF ScanBlocked, Counted, TypeOK
  <2>2. CASE blocks'[r] >= MaxBlocks
    <3>1. ScanPauses(l, r) /\ r \in Reasons
      BY <1>4, <2>2 DEF ScanBlocked, Reasons
    <3>2. QED BY <2>1, <3>1, ScanPausesType DEF TypeOK
  <2>3. CASE ~(blocks'[r] >= MaxBlocks)
    <3>1. Goto(l, "waiting") /\ state' \in States /\ UNCHANGED <<pause_reason, event>>
      BY <1>0, <1>4, <2>3 DEF ScanBlocked
    <3>2. QED BY <2>1, <3>1, GotoType DEF TypeOK, LoopStages
  <2>4. QED BY <2>2, <2>3
<1>5. CASE RecordError(l)
  <2>1. Goto(l, "waiting") /\ errors' \in 0..MaxErrors /\ blocks' = blocks
    BY <1>5, LimitsAssumption DEF RecordError, Counted, TypeOK
  <2>2. pause_reason' \in Reasons \cup {"none"} /\ state' \in States /\ event' \in Events
    <3>1. CASE errors' >= MaxErrors
      BY <1>5, <3>1, PauseType DEF RecordError, Reasons, TypeOK
    <3>2. CASE ~(errors' >= MaxErrors)
      BY <1>5, <3>2 DEF RecordError, TypeOK, database
    <3>3. QED BY <3>1, <3>2
  <2>3. QED BY <2>1, <2>2, GotoType DEF TypeOK, LoopStages
<1>6. QED BY <1>1, <1>2, <1>3, <1>4, <1>5 DEF LoopStep

LEMMA TypeAdmin ==
    ASSUME TypeOK, NEW a \in Admins, AdminStep(a)
    PROVE  TypeOK'
<1>1. CASE Pause(a)
  <2>1. PauseFor("manual_pause", state) /\ UNCHANGED <<up, blocks, errors, control>> /\ state \in States
    BY <1>1 DEF Pause, TypeOK
  <2>2. "manual_pause" \in Reasons
    BY DEF Reasons
  <2>3. QED BY <2>1, <2>2, PauseType DEF TypeOK, control
<1>2. CASE Resume(a)
  <2>1. StateAfter(state, "none") \subseteq States /\ EventAfter(event, "resume") \subseteq Events
    BY StateAfterType, EventAfterType DEF TypeOK
  <2>2. pause_reason' = "none" /\ state' \in States /\ event' \in Events
    BY <1>2, <2>1 DEF Resume, TypeOK
  <2>3. blocks' \in [RiskReasons -> 0..MaxBlocks] /\ errors' \in 0..MaxErrors
    BY <1>2, LimitsAssumption DEF Resume
  <2>4. QED BY <1>2, <2>2, <2>3 DEF Resume, TypeOK, control
<1>3. CASE Start(a)
  <2>1. PICK restored \in Restore(pause_reason, state, event) : Launch(restored)
    BY <1>3 DEF Start
  <2>2. restored \in Restores
    BY RestoreType DEF TypeOK
  <2>3. up' \in BOOLEAN
    BY <1>3 DEF Start, TypeOK
  <2>4. QED BY <2>1, <2>2, <2>3, LaunchType
<1>4. CASE Stop(a)
  BY <1>4 DEF Stop, TypeOK, memory, database
<1>5. CASE StopReturns(a)
  BY <1>5, LimitsAssumption DEF StopReturns, TypeOK, memory, database
<1>6. QED BY <1>1, <1>2, <1>3, <1>4, <1>5 DEF AdminStep

\* Nothing is counted, nobody awaited: what a process starts with.
LEMMA ZeroType == 0 \in 0..MaxBlocks /\ 0 \in 0..MaxErrors /\ 0 \in 0..MaxLoops
BY LimitsAssumption

LEMMA TypeInit == Init => TypeOK
BY ZeroType DEF Init, TypeOK, States, Events, LoopStages

LEMMA TypeNext == TypeOK /\ [Next]_vars => TypeOK'
<1> SUFFICES ASSUME TypeOK, [Next]_vars PROVE TypeOK'
  OBVIOUS
<1>1. CASE Boot
  <2>1. PICK first \in Restore(pause_reason, state, event) :
        \E second \in Restore(first.reason, first.row, first.newest) : Launch(second)
    BY <1>1 DEF Boot
  <2>2. first \in Restores
    BY RestoreType DEF TypeOK
  <2>3. Restore(first.reason, first.row, first.newest) \subseteq Restores
    BY <2>2, RestoreType DEF Restores
  <2>4. up' \in BOOLEAN
    BY <1>1 DEF Boot
  <2>5. QED BY <2>1, <2>3, <2>4, LaunchType
<1>2. CASE TimeStep
  BY <1>2, LimitsAssumption
  DEF TimeStep, BlockAges, ErrorAges, PauseExpires, TypeOK, memory, control, database, Events
<1>3. CASE Crash
  BY <1>3, ZeroType DEF Crash, TypeOK, database, LoopStages
<1>4. CASE UNCHANGED vars
  BY <1>4 DEF vars, TypeOK, memory, control, database
<1>5. QED BY <1>1, <1>2, <1>3, <1>4, TypeLoop, TypeAdmin DEF Next

THEOREM SchedulerTypes == Spec => []TypeOK
<1>1. QED BY TypeInit, TypeNext, PTL DEF Spec

(***************************************************************************)
(* The circuit breaker                                                     *)
(***************************************************************************)

\* The pause in memory and the one in the row are only told apart by writes
\* that fail: where none does, a restore cannot replace a pause by nothing.
RowRemembers == pause_reason # "none" => state = pause_reason

BreakerInv == BreakerTrips /\ RowRemembers

\* A restore forgets no pause the row remembers.
LEMMA RestoreRemembers ==
    ASSUME "state" \notin Faults, NEW known \in Reasons \cup {"none"}, NEW row \in States, NEW newest \in Events,
           known # "none" => row = known, NEW restored \in Restore(known, row, newest)
    PROVE  /\ known # "none" => restored.reason = known
           /\ restored.reason # "none" => restored.row = restored.reason
<1>1. CASE row # "absent"
  <2>1. \/ restored = [reason |-> row, row |-> row, newest |-> newest]
        \/ restored = [reason |-> known, row |-> row, newest |-> newest]
    BY <1>1, RestoreType DEF Restore
  <2>2. QED BY <2>1
<1>2. CASE row = "absent"
  <2>1. known = "none"
    BY <1>2, RiskReasonsAssumption DEF Reasons
  <2>2. StateAfter(row, "kill_switch") = {"kill_switch"}
    BY StateAfterType DEF Reasons
  <2>3. \/ restored.reason = "kill_switch" /\ restored.row = "kill_switch"
        \/ restored.reason = "none"
    BY <1>2, <2>1, <2>2 DEF Restore, Restored
  <2>4. QED BY <2>1, <2>3
<1>3. QED BY <1>1, <1>2

LEMMA BreakerLaunch ==
    ASSUME BreakerInv, NEW restored, Launch(restored),
           pause_reason # "none" => restored.reason = pause_reason,
           restored.reason # "none" => restored.row = restored.reason
    PROVE  BreakerInv'
BY DEF BreakerInv, BreakerTrips, RowRemembers, Launch

\* A pause keeps what the breaker has counted, and so does one that is ignored.
LEMMA BreakerPause ==
    ASSUME "state" \notin Faults, TypeOK, RowRemembers, NEW reason \in Reasons, PauseFor(reason, state)
    PROVE  pause_reason' # "none" /\ RowRemembers'
<1>1. reason # "none"
  BY RiskReasonsAssumption DEF Reasons
<1>2. StateAfter(state, reason) = {reason}
  BY StateAfterType DEF TypeOK
<1>3. QED BY <1>1, <1>2 DEF PauseFor, RowRemembers

LEMMA BreakerScan ==
    ASSUME "state" \notin Faults, TypeOK, RowRemembers, NEW l \in Loops, NEW reason \in Reasons,
           ScanPauses(l, reason)
    PROVE  pause_reason' # "none" /\ RowRemembers'
<1>1. reason # "none" /\ (pause_reason # "none" => pause_reason # "absent")
  BY RiskReasonsAssumption DEF Reasons, TypeOK
<1>2. PICK row \in {state} \cup StateAfter(state, "unset") :
         IF pause_reason = "none"
         THEN PauseFor(reason, row) /\ Goto(l, "recording")
         ELSE /\ Goto(l, "waiting")
              /\ state' \in StateAfter(row, "unset")
              /\ UNCHANGED <<pause_reason, event>>
  BY DEF ScanPauses
<1>3. row \in States
  BY <1>2, StateAfterType DEF TypeOK
<1>4. CASE pause_reason = "none"
  BY <1>1, <1>2, <1>3, <1>4, StateAfterType DEF PauseFor, RowRemembers
<1>5. CASE pause_reason # "none"
  <2>1. state # "absent" /\ state = pause_reason
    BY <1>1, <1>5 DEF RowRemembers
  <2>2. StateAfter(state, "unset") = {state}
    BY <2>1, StateAfterType DEF TypeOK
  <2>3. QED BY <1>2, <1>5, <2>1, <2>2 DEF RowRemembers
<1>6. QED BY <1>4, <1>5

\* A write of other columns leaves what the row says of the pause.
LEMMA BreakerWrites ==
    ASSUME TypeOK, RowRemembers, state' \in StateAfter(state, "unset"), pause_reason' = pause_reason
    PROVE  RowRemembers'
<1>1. pause_reason # "none" => pause_reason # "absent"
  BY RiskReasonsAssumption DEF Reasons, TypeOK
<1>2. pause_reason # "none" => StateAfter(state, "unset") = {state}
  BY <1>1, StateAfterType DEF RowRemembers, TypeOK
<1>3. QED BY <1>2 DEF RowRemembers

LEMMA BreakerLoop ==
    ASSUME "state" \notin Faults, TypeOK, BreakerInv, NEW l \in Loops, LoopStep(l)
    PROVE  BreakerInv'
<1> USE DEF BreakerInv
<1>1. CASE Iterate(l)
  BY <1>1 DEF Iterate, memory, database, BreakerTrips, RowRemembers
<1>2. CASE ScanReturns(l) \/ RecordSuccess(l) \/ ScanRaises(l)
  <2>1. state' \in StateAfter(state, "unset") /\ UNCHANGED <<pause_reason, blocks, errors>>
    BY <1>2 DEF ScanReturns, RecordSuccess, ScanRaises, memory
  <2>2. QED BY <2>1, BreakerWrites DEF BreakerTrips
<1>3. CASE ScanTripsKillSwitch(l)
  BY <1>3, BreakerScan DEF ScanTripsKillSwitch, BreakerTrips, Reasons
<1>4. ASSUME NEW r \in RiskReasons, ScanBlocked(l, r) PROVE BreakerInv'
  <2>1. CASE blocks'[r] >= MaxBlocks
    BY <1>4, <2>1, BreakerScan DEF ScanBlocked, BreakerTrips, Reasons
  <2>2. CASE ~(blocks'[r] >= MaxBlocks)
    <3>1. state' \in StateAfter(state, "unset") /\ UNCHANGED <<pause_reason, errors>>
      BY <1>4, <2>2 DEF ScanBlocked
    <3>2. blocks' = [blocks EXCEPT ![r] = Counted(blocks[r], MaxBlocks)]
      BY <1>4 DEF ScanBlocked
    <3>3. blocks'[r] \in Nat /\ MaxBlocks \in Nat /\ \A q \in RiskReasons \ {r} : blocks'[q] = blocks[q]
      BY <3>2, LimitsAssumption DEF TypeOK, Counted
    <3>4. BreakerTrips'
      BY <2>2, <3>1, <3>3 DEF BreakerTrips
    <3>5. QED BY <3>1, <3>4, BreakerWrites
  <2>3. QED BY <2>1, <2>2
<1>5. CASE RecordError(l)
  <2>1. CASE errors' >= MaxErrors
    BY <1>5, <2>1, BreakerPause DEF RecordError, BreakerTrips, Reasons
  <2>2. CASE ~(errors' >= MaxErrors)
    <3>1. UNCHANGED <<pause_reason, blocks, state>>
      BY <1>5, <2>2 DEF RecordError, database
    <3>2. errors' \in Nat /\ MaxErrors \in Nat
      BY <1>5, LimitsAssumption DEF RecordError, Counted, TypeOK
    <3>3. QED BY <2>2, <3>1, <3>2 DEF BreakerTrips, RowRemembers
  <2>3. QED BY <2>1, <2>2
<1>6. QED BY <1>1, <1>2, <1>3, <1>4, <1>5 DEF LoopStep

LEMMA BreakerAdmin ==
    ASSUME "state" \notin Faults, TypeOK, BreakerInv, NEW a \in Admins, AdminStep(a)
    PROVE  BreakerInv'
<1> USE DEF BreakerInv
<1>1. CASE Pause(a)
  BY <1>1, BreakerPause DEF Pause, BreakerTrips, Reasons
<1>2. CASE Resume(a)
  <2>1. pause_reason' = "none" /\ blocks' = [r \in RiskReasons |-> 0] /\ errors' = 0
    BY <1>2 DEF Resume
  <2>2. 0 < MaxBlocks /\ 0 < MaxErrors
    BY LimitsAssumption
  <2>3. QED BY <2>1, <2>2 DEF BreakerTrips, RowRemembers
<1>3. CASE Start(a)
  <2>1. PICK restored \in Restore(pause_reason, state, event) : Launch(restored)
    BY <1>3 DEF Start
  <2>2. QED BY <2>1, RestoreRemembers, BreakerLaunch DEF TypeOK, RowRemembers
<1>4. CASE Stop(a) \/ StopReturns(a)
  BY <1>4 DEF Stop, StopReturns, memory, database, BreakerTrips, RowRemembers
<1>5. QED BY <1>1, <1>2, <1>3, <1>4 DEF AdminStep

LEMMA BreakerNext == "state" \notin Faults /\ TypeOK /\ BreakerInv /\ [Next]_vars => BreakerInv'
<1> SUFFICES ASSUME "state" \notin Faults, TypeOK, BreakerInv, [Next]_vars PROVE BreakerInv'
  OBVIOUS
<1> USE DEF BreakerInv
<1>1. CASE Boot
  <2>1. PICK first \in Restore(pause_reason, state, event) :
        \E second \in Restore(first.reason, first.row, first.newest) : Launch(second)
    BY <1>1 DEF Boot
  <2>2. PICK second \in Restore(first.reason, first.row, first.newest) : Launch(second)
    BY <2>1
  <2>3. first \in Restores
    BY RestoreType DEF TypeOK
  <2>4. /\ pause_reason # "none" => first.reason = pause_reason
        /\ first.reason # "none" => first.row = first.reason
    BY <2>1, RestoreRemembers DEF TypeOK, RowRemembers
  <2>5. /\ first.reason # "none" => second.reason = first.reason
        /\ second.reason # "none" => second.row = second.reason
    BY <2>2, <2>3, <2>4, RestoreRemembers DEF Restores
  <2>6. QED BY <2>2, <2>4, <2>5, BreakerLaunch
<1>2. CASE \E r \in RiskReasons : BlockAges(r)
  <2>1. PICK r \in RiskReasons : BlockAges(r)
    BY <1>2
  <2>2. /\ blocks[r] \in Nat /\ blocks'[r] = blocks[r] - 1 /\ MaxBlocks \in Nat
        /\ \A q \in RiskReasons \ {r} : blocks'[q] = blocks[q]
    BY <2>1, LimitsAssumption DEF BlockAges, TypeOK
  <2>3. UNCHANGED <<pause_reason, errors, state>>
    BY <2>1 DEF BlockAges, database
  <2>4. BreakerTrips'
    BY <2>2, <2>3 DEF BreakerTrips
  <2>5. QED BY <2>3, <2>4 DEF RowRemembers
<1>3. CASE ErrorAges
  <2>1. errors \in Nat /\ errors' = errors - 1 /\ MaxErrors \in Nat /\ UNCHANGED <<pause_reason, blocks, state>>
    BY <1>3, LimitsAssumption DEF ErrorAges, TypeOK, database
  <2>2. QED BY <2>1 DEF BreakerTrips, RowRemembers
<1>4. CASE PauseExpires
  BY <1>4 DEF PauseExpires, memory, BreakerTrips, RowRemembers
<1>5. CASE Crash
  <2>1. 0 < MaxBlocks /\ 0 < MaxErrors
    BY LimitsAssumption
  <2>2. QED BY <1>5, <2>1 DEF Crash, BreakerTrips, RowRemembers
<1>6. CASE UNCHANGED vars
  BY <1>6 DEF vars, memory, database, BreakerTrips, RowRemembers
<1>7. QED BY <1>1, <1>2, <1>3, <1>4, <1>5, <1>6, BreakerLoop, BreakerAdmin DEF Next, TimeStep

LEMMA BreakerInvHolds == "state" \notin Faults => (Spec => [](TypeOK /\ BreakerInv))
<1> SUFFICES ASSUME "state" \notin Faults PROVE Spec => [](TypeOK /\ BreakerInv)
  OBVIOUS
<1>1. Init => BreakerInv
  <2>1. 0 < MaxBlocks /\ 0 < MaxErrors
    BY LimitsAssumption
  <2>2. QED BY <2>1 DEF Init, BreakerInv, BreakerTrips, RowRemembers
<1>2. TypeOK /\ BreakerInv /\ [Next]_vars => BreakerInv'
  BY BreakerNext
<1>3. QED BY <1>1, <1>2, SchedulerTypes, PTL DEF Spec

\* As long as the scheduler row can be written, trading is paused whenever a
\* window holds as many events as it may, however many operators there are
\* and however often the process dies.  A row that was not written is how a
\* restart of the loop lifts a pause the breaker still stands for.
THEOREM BreakerTheorem == "state" \notin Faults => (Spec => []BreakerTrips)
<1> SUFFICES ASSUME "state" \notin Faults PROVE Spec => []BreakerTrips
  OBVIOUS
<1>1. QED BY BreakerInvHolds, PTL DEF BreakerInv

(***************************************************************************)
(* The row that says paused                                                *)
(***************************************************************************)

\* What the row says, a pause that is not asked for does not unsay.
LEMMA RowStaysPaused ==
    ASSUME TypeOK, state \in Reasons
    PROVE  /\ StateAfter(state, "unset") = {state}
           /\ \A reason \in Reasons : StateAfter(state, reason) \subseteq Reasons
           /\ \A reason \in Reasons, row \in {state} : PauseFor(reason, row) => state' \in Reasons
           /\ \A known \in Reasons \cup {"none"}, newest \in Events :
                 \A restored \in Restore(known, state, newest) : restored.row = state
<1>1. state # "absent" /\ state \in States
  BY RiskReasonsAssumption DEF Reasons, TypeOK
<1>2. \A reason \in Reasons : StateAfter(state, reason) \subseteq {reason, state}
  BY <1>1, StateAfterType
<1>3. \A known \in Reasons \cup {"none"}, newest \in Events :
         \A restored \in Restore(known, state, newest) : restored.row = state
  <2> SUFFICES ASSUME NEW known \in Reasons \cup {"none"}, NEW newest \in Events,
                      NEW restored \in Restore(known, state, newest)
               PROVE  restored.row = state
    OBVIOUS
  <2>1. Restored(known, state, newest) = {[reason |-> state, row |-> state, newest |-> newest]}
    BY <1>1, RestoreType
  <2>2. QED BY <2>1 DEF Restore
<1>4. QED BY <1>1, <1>2, <1>3, StateAfterType DEF PauseFor

LEMMA RowStays ==
    ASSUME TypeOK, [Next]_vars, state \in Reasons, state' \notin Reasons
    PROVE  \E a \in Admins : Resume(a)
<1> SUFFICES ASSUME \A a \in Admins : ~Resume(a) PROVE FALSE
  OBVIOUS
<1>1. ASSUME NEW l \in Loops, NEW reason \in Reasons, ScanPauses(l, reason) PROVE FALSE
  BY <1>1, RowStaysPaused DEF ScanPauses
<1>2. ASSUME NEW l \in Loops, LoopStep(l) PROVE FALSE
  <2>1. CASE Iterate(l)
    BY <2>1 DEF Iterate, database
  <2>2. CASE ScanReturns(l) \/ RecordSuccess(l) \/ ScanRaises(l)
    BY <2>2, RowStaysPaused DEF ScanReturns, RecordSuccess, ScanRaises
  <2>3. CASE ScanTripsKillSwitch(l)
    BY <1>1, <2>3 DEF ScanTripsKillSwitch, Reasons
  <2>4. ASSUME NEW r \in RiskReasons, ScanBlocked(l, r) PROVE FALSE
    BY <1>1, <2>4, RowStaysPaused DEF ScanBlocked, Reasons
  <2>5. CASE RecordError(l)
    BY <2>5, RowStaysPaused DEF RecordError, Reasons, database
  <2>6. QED BY <1>2, <2>1, <2>2, <2>3, <2>4, <2>5 DEF LoopStep
<1>3. ASSUME NEW a \in Admins, AdminStep(a) PROVE FALSE
  <2>1. CASE Pause(a)
    BY <2>1, RowStaysPaused DEF Pause, Reasons
  <2>2. CASE Start(a)
    BY <2>2, RowStaysPaused DEF Start, Launch, TypeOK
  <2>3. CASE Stop(a) \/ StopReturns(a)
    BY <2>3 DEF Stop, StopReturns, database
  <2>4. QED BY <1>3, <2>1, <2>2, <2>3 DEF AdminStep
<1>4. CASE Boot
  <2>1. PICK first \in Restore(pause_reason, state, event) :
        \E second \in Restore(first.reason, first.row, first.newest) : Launch(second)
    BY <1>4 DEF Boot
  <2>2. first.row = state /\ first \in Restores
    BY RowStaysPaused, RestoreType DEF TypeOK
  <2>3. \A second \in Restore(first.reason, first.row, first.newest) : second.row = state
    BY <2>2, RowStaysPaused DEF Restores
  <2>4. QED BY <2>1, <2>3 DEF Launch
<1>5. CASE TimeStep \/ Crash \/ UNCHANGED vars
  BY <1>5 DEF TimeStep, BlockAges, ErrorAges, PauseExpires, Crash, vars, database
<1>6. QED BY <1>2, <1>3, <1>4, <1>5 DEF Next

\* Whatever database calls fail, and whatever is crashed, stopped or started:
\* only a resume unsays a pause in the row.
THEOREM UnpauseTheorem == Spec => OnlyResumeUnpausesRow
<1>1. TypeOK /\ [Next]_vars =>
        [(state \in Reasons /\ state' \notin Reasons) => \E a \in Admins : Resume(a)]_vars
  BY RowStays
<1>2. QED BY <1>1, SchedulerTypes, PTL DEF Spec, OnlyResumeUnpausesRow

(***************************************************************************)
(* A pause outlives the process                                            *)
(***************************************************************************)

\* While rows can be written and read, a process that is up has the pause its
\* row has.
InForceInv == up => (state \in Reasons => pause_reason = state)

LEMMA InForceLaunch ==
    ASSUME Faults \cap {"state", "restore"} = {}, NEW known \in Reasons \cup {"none"}, NEW row \in States,
           NEW newest \in Events, NEW restored \in Restore(known, row, newest)
    PROVE  restored.row \in Reasons => restored.reason = restored.row
<1>1. CASE row # "absent"
  BY <1>1, RestoreType DEF Restore
<1>2. CASE row = "absent"
  <2>1. StateAfter(row, "kill_switch") = {"kill_switch"}
    BY StateAfterType DEF Reasons
  <2>2. row \notin Reasons
    BY <1>2, RiskReasonsAssumption DEF Reasons
  <2>3. QED BY <1>2, <2>1, <2>2 DEF Restore, Restored
<1>3. QED BY <1>1, <1>2

\* A write of other columns never makes a pause.
LEMMA InForceWrites ==
    ASSUME TypeOK, InForceInv, state' \in StateAfter(state, "unset"), UNCHANGED <<up, pause_reason>>
    PROVE  InForceInv'
<1>1. "none" \notin Reasons /\ "absent" \notin Reasons
  BY RiskReasonsAssumption DEF Reasons
<1>2. state' = state \/ state' \notin Reasons
  BY <1>1, StateAfterType DEF TypeOK
<1>3. QED BY <1>2 DEF InForceInv

LEMMA InForcePause ==
    ASSUME "state" \notin Faults, TypeOK, InForceInv, RowRemembers, NEW reason \in Reasons, up' = up,
           PauseFor(reason, state) \/ \E l \in Loops : ScanPauses(l, reason)
    PROVE  InForceInv'
<1>1. pause_reason' # "none" /\ RowRemembers'
  BY BreakerPause, BreakerScan
<1>2. QED BY <1>1 DEF RowRemembers, InForceInv

LEMMA InForceNext ==
    ASSUME Faults \cap {"state", "restore"} = {}, TypeOK, RowRemembers, InForceInv, [Next]_vars
    PROVE  InForceInv'
<1> USE DEF TypeOK
<1>1. ASSUME NEW l \in Loops, LoopStep(l) PROVE InForceInv'
  <2>1. CASE Iterate(l)
    BY <2>1 DEF Iterate, memory, database, InForceInv
  <2>2. CASE ScanReturns(l) \/ RecordSuccess(l) \/ ScanRaises(l)
    BY <2>2, InForceWrites DEF ScanReturns, RecordSuccess, ScanRaises, Goto, memory
  <2>3. CASE ScanTripsKillSwitch(l)
    BY <2>3, InForcePause, ScanPausesType DEF ScanTripsKillSwitch, Reasons
  <2>4. ASSUME NEW r \in RiskReasons, ScanBlocked(l, r) PROVE InForceInv'
    <3>1. CASE blocks'[r] >= MaxBlocks
      BY <2>4, <3>1, InForcePause, ScanPausesType DEF ScanBlocked, Reasons
    <3>2. CASE ~(blocks'[r] >= MaxBlocks)
      BY <2>4, <3>2, InForceWrites DEF ScanBlocked, Goto
    <3>3. QED BY <3>1, <3>2
  <2>5. CASE RecordError(l)
    <3>1. up' = up
      BY <2>5 DEF RecordError, Goto
    <3>2. CASE errors' >= MaxErrors
      BY <2>5, <3>1, <3>2, InForcePause DEF RecordError, Reasons
    <3>3. CASE ~(errors' >= MaxErrors)
      BY <2>5, <3>1, <3>3 DEF RecordError, database, InForceInv
    <3>4. QED BY <3>2, <3>3
  <2>6. QED BY <1>1, <2>1, <2>2, <2>3, <2>4, <2>5 DEF LoopStep
<1>2. ASSUME NEW a \in Admins, AdminStep(a) PROVE InForceInv'
  <2>1. CASE Pause(a)
    BY <2>1, InForcePause DEF Pause, Reasons
  <2>2. CASE Resume(a)
    <3>1. StateAfter(state, "none") = {"none"} /\ "none" \notin Reasons
      BY StateAfterType, RiskReasonsAssumption DEF Reasons
    <3>2. QED BY <2>2, <3>1 DEF Resume, InForceInv
  <2>3. CASE Start(a)
    <3>1. PICK restored \in Restore(pause_reason, state, event) : Launch(restored)
      BY <2>3 DEF Start
    <3>2. QED BY <3>1, InForceLaunch DEF Launch, InForceInv
  <2>4. CASE Stop(a) \/ StopReturns(a)
    BY <2>4 DEF Stop, StopReturns, memory, database, InForceInv
  <2>5. QED BY <1>2, <2>1, <2>2, <2>3, <2>4 DEF AdminStep
<1>3. CASE Boot
  <2>1. PICK first \in Restore(pause_reason, state, event) :
        \E second \in Restore(first.reason, first.row, first.newest) : Launch(second)
    BY <1>3 DEF Boot
  <2>2. PICK second \in Restore(first.reason, first.row, first.newest) : Launch(second)
    BY <2>1
  <2>3. first \in Restores
    BY RestoreType
  <2>4. second.row \in Reasons => second.reason = second.row
    BY <2>2, <2>3, InForceLaunch DEF Restores
  <2>5. QED BY <2>2, <2>4 DEF Launch, InForceInv
<1>4. CASE Crash
  BY <1>4 DEF Crash, InForceInv
<1>5. CASE TimeStep \/ UNCHANGED vars
  BY <1>5 DEF TimeStep, BlockAges, ErrorAges, PauseExpires, vars, memory, database, InForceInv
<1>6. QED BY <1>1, <1>2, <1>3, <1>4, <1>5 DEF Next

\* While the scheduler row can be written and read, a pause it holds is in
\* force in every process that has started since, even if risk events cannot
\* be written.  Run MCSchedulerFailOpen shows what an unreadable row does.
THEOREM PersistedTheorem ==
    Faults \cap {"state", "restore"} = {} => (Spec => []PersistedPauseIsInForce)
<1> SUFFICES ASSUME Faults \cap {"state", "restore"} = {} PROVE Spec => []PersistedPauseIsInForce
  OBVIOUS
<1>1. Init => InForceInv
  BY DEF Init, InForceInv
<1>2. TypeOK /\ BreakerInv /\ InForceInv /\ [Next]_vars => InForceInv'
  BY InForceNext DEF BreakerInv
<1>3. TypeOK /\ InForceInv => PersistedPauseIsInForce
  BY RiskReasonsAssumption DEF InForceInv, PersistedPauseIsInForce, Reasons
<1>4. "state" \notin Faults
  OBVIOUS
<1>5. QED BY <1>1, <1>2, <1>3, <1>4, BreakerInvHolds, PTL DEF Spec

(***************************************************************************)
(* Loops that are lost sight of                                            *)
(***************************************************************************)

\* A process that is down has no loop.
DownHasNoLoop == ~up => \A l \in Loops : loops[l] = "none"

\* The steps of a loop leave the known task alone.
LEMMA LoopStepTask ==
    ASSUME TypeOK, NEW l \in Loops, LoopStep(l)
    PROVE  UNCHANGED <<up, task, stopping>> /\ loops[l] # "none"
<1>1. CASE Iterate(l)
  BY <1>1 DEF Iterate
<1>2. CASE ScanReturns(l) \/ RecordSuccess(l) \/ ScanRaises(l) \/ RecordError(l)
  BY <1>2 DEF ScanReturns, RecordSuccess, ScanRaises, RecordError, Goto
<1>3. CASE ScanTripsKillSwitch(l)
  BY <1>3, ScanPausesType DEF ScanTripsKillSwitch, Reasons
<1>4. ASSUME NEW r \in RiskReasons, ScanBlocked(l, r)
      PROVE  UNCHANGED <<up, task, stopping>> /\ loops[l] # "none"
  <2>1. CASE blocks'[r] >= MaxBlocks
    BY <1>4, <2>1, ScanPausesType DEF ScanBlocked, Reasons
  <2>2. CASE ~(blocks'[r] >= MaxBlocks)
    BY <1>4, <2>2 DEF ScanBlocked, Goto
  <2>3. QED BY <2>1, <2>2
<1>5. QED BY <1>1, <1>2, <1>3, <1>4 DEF LoopStep

LEMMA DownNext == TypeOK /\ DownHasNoLoop /\ [Next]_vars => DownHasNoLoop'
<1> SUFFICES ASSUME TypeOK, DownHasNoLoop, [Next]_vars PROVE DownHasNoLoop'
  OBVIOUS
<1>1. ASSUME NEW l \in Loops, LoopStep(l) PROVE DownHasNoLoop'
  BY <1>1, LoopStepTask DEF DownHasNoLoop
<1>2. ASSUME NEW a \in Admins, AdminStep(a) PROVE DownHasNoLoop'
  BY <1>2 DEF AdminStep, Pause, Resume, Start, Stop, StopReturns, Ready, Launch, control, DownHasNoLoop
<1>3. CASE Boot
  BY <1>3 DEF Boot, DownHasNoLoop
<1>4. CASE Crash
  BY <1>4 DEF Crash, DownHasNoLoop
<1>5. CASE TimeStep \/ UNCHANGED vars
  BY <1>5 DEF TimeStep, BlockAges, ErrorAges, PauseExpires, vars, control, DownHasNoLoop
<1>6. QED BY <1>1, <1>2, <1>3, <1>4, <1>5 DEF Next

LEMMA OnlyStopsForget ==
    ASSUME TypeOK, DownHasNoLoop, Next, NEW l \in Loops,
           task = l, loops[l] # "none", task' # l, loops'[l] # "none"
    PROVE  \E a \in Admins : StopReturns(a) /\ stopping[a] # l
<1>1. ASSUME NEW k \in Loops, LoopStep(k) PROVE FALSE
  BY <1>1, LoopStepTask
<1>2. ASSUME NEW a \in Admins, AdminStep(a) PROVE StopReturns(a) /\ stopping[a] # l
  <2>1. CASE Start(a)
    BY <2>1 DEF Start, running, TypeOK, Loops
  <2>2. CASE StopReturns(a)
    BY <2>2 DEF StopReturns
  <2>3. QED BY <1>2, <2>1, <2>2 DEF AdminStep, Pause, Resume, Stop, control
<1>3. ~Boot
  BY DEF Boot, DownHasNoLoop
<1>4. ~Crash
  BY DEF Crash
<1>5. ~TimeStep
  BY DEF TimeStep, BlockAges, ErrorAges, PauseExpires, control
<1>6. QED BY <1>1, <1>2, <1>3, <1>4, <1>5 DEF Next

\* For any number of operators, over all races of start, stop, the end of a loop
\* and a crash: a living loop is only ever lost to a stop() that has awaited
\* another.  Run scheduler_two_operators shows one that is.
THEOREM ForgottenTheorem == Spec => LoopsAreForgottenByStops
<1>1. Init => DownHasNoLoop
  BY DEF Init, DownHasNoLoop
<1>2. TypeOK /\ DownHasNoLoop /\ [Next]_vars => DownHasNoLoop'
  BY DownNext
<1>3. TypeOK /\ DownHasNoLoop /\ [Next]_vars
      => [\A l \in Loops :
             task = l /\ loops[l] # "none" /\ task' # l /\ loops'[l] # "none"
                 => \E a \in Admins : StopReturns(a) /\ stopping[a] # l]_vars
  BY OnlyStopsForget
<1>4. QED BY <1>1, <1>2, <1>3, SchedulerTypes, PTL DEF Spec, LoopsAreForgottenByStops

(***************************************************************************)
(* The scheduler implements the gate                                       *)
(***************************************************************************)

\* The two variables of TradingGate, as Scheduler!Gate maps them.
PauseInForce == IF up THEN pause_reason ELSE DurableReason
Scanning == {l \in Loops : loops[l] = "scanning"}
Scans == Cardinality(Scanning)

GateInv ==
    /\ RowRemembers
    /\ PauseIsDurable
    /\ ~up => pause_reason = "none" /\ \A l \in Loops : loops[l] = "none"

\* What a gate step is in terms of them.
LEMMA GateSteps ==
    ASSUME \/ UNCHANGED <<PauseInForce, Scans>>
           \/ Scans' = Scans /\ PauseInForce' = "none"
           \/ Scans' = 0 /\ PauseInForce' = PauseInForce
           \/ Scans' = Scans + 1 /\ PauseInForce = "none" /\ PauseInForce' = "none"
           \/ /\ Scans' = Scans \/ (Scans > 0 /\ Scans' = Scans - 1)
              /\ \/ \E why \in Reasons : PauseInForce' = IF PauseInForce = "none" THEN why ELSE PauseInForce
                 \/ PauseInForce' = PauseInForce
           \/ Scans = 0 /\ Scans' = 0 /\ PauseInForce = "kill_switch" /\ PauseInForce' = "none"
    PROVE  [Gate!GateNext]_(Gate!gateVars)
BY DEF PauseInForce, Scans, Scanning, Gate!GateNext, Gate!gateVars, Gate!Pause, Gate!PauseFor, Gate!Resume,
       Gate!BeginScan, Gate!EndScan, Gate!Crash, Gate!Lapse

\* A step of one loop moves the number of scans by one at most.
LEMMA ScansMove ==
    ASSUME TypeOK, NEW l \in Loops, loops' \in [Loops -> LoopStages],
           \A k \in Loops \ {l} : loops'[k] = loops[k]
    PROVE  /\ loops[l] = "scanning" /\ loops'[l] # "scanning" => Scans > 0 /\ Scans' = Scans - 1
           /\ loops[l] # "scanning" /\ loops'[l] = "scanning" => Scans' = Scans + 1
           /\ (loops[l] = "scanning" <=> loops'[l] = "scanning") => Scans' = Scans
<1>1. IsFiniteSet(Scanning)
  <2>1. IsFiniteSet(Loops)
    BY FS_Interval, LimitsAssumption DEF Loops
  <2>2. Scanning \in SUBSET Loops
    BY DEF Scanning
  <2>3. QED BY <2>1, <2>2, FS_Subset
<1>2. Cardinality(Scanning) \in Nat
  BY <1>1, FS_CardinalityType
<1>3. CASE loops[l] = "scanning" /\ loops'[l] # "scanning"
  <2>1. Scanning' = Scanning \ {l} /\ l \in Scanning
    BY <1>3 DEF Scanning
  <2>2. Cardinality(Scanning \ {l}) = Cardinality(Scanning) - 1 /\ Cardinality(Scanning) # 0
    BY <1>1, <2>1, FS_RemoveElement, FS_EmptySet
  <2>3. QED BY <1>2, <1>3, <2>1, <2>2 DEF Scans
<1>4. CASE loops[l] # "scanning" /\ loops'[l] = "scanning"
  <2>1. Scanning' = Scanning \cup {l} /\ l \notin Scanning
    BY <1>4 DEF Scanning
  <2>2. Cardinality(Scanning \cup {l}) = Cardinality(Scanning) + 1
    BY <1>1, <2>1, FS_AddElement
  <2>3. QED BY <1>4, <2>1, <2>2 DEF Scans
<1>5. CASE loops[l] = "scanning" <=> loops'[l] = "scanning"
  <2>1. Scanning' = Scanning
    BY <1>5 DEF Scanning
  <2>2. QED BY <1>5, <2>1 DEF Scans
<1>6. QED BY <1>3, <1>4, <1>5

LEMMA NoScans ==
    ASSUME \A l \in Loops : loops[l] = "none"
    PROVE  Scans = 0
<1>1. Scanning = {}
  BY DEF Scanning
<1>2. QED BY <1>1, FS_EmptySet DEF Scans

\* What the database says to the next process.
Durable(row, newest) ==
    IF row # "absent" THEN row ELSE IF KillSwitch /\ newest = "pause" THEN "kill_switch" ELSE "none"

LEMMA RestoreDurable ==
    ASSUME Faults = {}, NEW known \in Reasons \cup {"none"}, NEW row \in States, NEW newest \in Events,
           known # "none" => row = known, NEW restored \in Restore(known, row, newest)
    PROVE  /\ restored.reason = Durable(row, newest)
           /\ restored.reason = Durable(restored.row, restored.newest)
           /\ restored.reason # "none" => restored.row = restored.reason
<1>1. CASE row # "absent"
  BY <1>1, RestoreType DEF Restore, Durable
<1>2. CASE row = "absent"
  <2>1. known = "none"
    BY <1>2, RiskReasonsAssumption DEF Reasons
  <2>2. StateAfter(row, "kill_switch") = {"kill_switch"} /\ EventAfter(newest, "resume") = {"resume"}
    BY StateAfterType DEF Reasons, EventAfter
  <2>3. QED BY <1>2, <2>1, <2>2 DEF Restore, Restored, Durable
<1>3. QED BY <1>1, <1>2

\* A launched loop waits, and the pause it restores is the one in force.
LEMMA GateLaunch ==
    ASSUME TypeOK, NEW restored, Launch(restored), up', restored.reason = PauseInForce,
           restored.reason = Durable(restored.row, restored.newest),
           restored.reason # "none" => restored.row = restored.reason
    PROVE  GateInv' /\ UNCHANGED <<PauseInForce, Scans>>
<1>1. task' \in Loops /\ loops[task'] = "none"
  BY LaunchLoop DEF Unused
<1>2. loops' \in [Loops -> LoopStages] /\ loops'[task'] = "waiting" /\ \A k \in Loops \ {task'} : loops'[k] = loops[k]
  BY <1>1 DEF Launch, TypeOK, LoopStages
<1>3. Scans' = Scans
  BY <1>1, <1>2, ScansMove
<1>4. /\ pause_reason' = restored.reason /\ state' = restored.row /\ event' = restored.newest
  BY DEF Launch
<1>5. GateInv'
  BY <1>4 DEF GateInv, RowRemembers, PauseIsDurable, DurableReason, Durable
<1>6. PauseInForce' = PauseInForce
  BY <1>4 DEF PauseInForce
<1>7. QED BY <1>3, <1>5, <1>6

\* A process that is up: a write of other columns, or a pause.
LEMMA GateWrites ==
    ASSUME TypeOK, GateInv, up, up', state' \in StateAfter(state, "unset"), UNCHANGED <<pause_reason, event>>
    PROVE  GateInv' /\ PauseInForce' = PauseInForce
<1>1. CASE state = "absent"
  <2>1. pause_reason = "none" /\ state' \in {"none", "absent"}
    BY <1>1, StateAfterType, RiskReasonsAssumption DEF GateInv, RowRemembers, TypeOK, Reasons
  <2>2. QED BY <1>1, <2>1 DEF GateInv, RowRemembers, PauseIsDurable, DurableReason, PauseInForce
<1>2. CASE state # "absent"
  <2>1. state' = state
    BY <1>2, StateAfterType DEF TypeOK
  <2>2. QED BY <2>1 DEF GateInv, RowRemembers, PauseIsDurable, DurableReason, PauseInForce
<1>3. QED BY <1>1, <1>2

LEMMA GatePause ==
    ASSUME Faults = {}, TypeOK, GateInv, up, up', NEW reason \in Reasons,
           PauseFor(reason, state) \/ \E l \in Loops : ScanPauses(l, reason)
    PROVE  /\ GateInv'
           /\ PauseInForce' = IF PauseInForce = "none" THEN reason ELSE PauseInForce
<1>1. reason # "none" /\ reason # "absent" /\ (pause_reason # "none" => pause_reason # "absent")
  BY RiskReasonsAssumption DEF Reasons, TypeOK
<1>2. RowRemembers' /\ pause_reason' # "none"
  BY BreakerPause, BreakerScan DEF GateInv
<1>3. pause_reason' \in Reasons \cup {"none"} /\ pause_reason' = IF pause_reason = "none" THEN reason ELSE pause_reason
  <2>1. ASSUME PauseFor(reason, state)
        PROVE  pause_reason' = IF pause_reason = "none" THEN reason ELSE pause_reason
    BY <2>1 DEF PauseFor
  <2>2. QED BY <2>1, ScanPausesType DEF TypeOK
<1>4. state' = pause_reason' /\ pause_reason' # "absent"
  BY <1>1, <1>2, <1>3 DEF RowRemembers
<1>5. QED BY <1>2, <1>3, <1>4 DEF GateInv, RowRemembers, PauseIsDurable, DurableReason, PauseInForce

LEMMA GateLoop ==
    ASSUME Faults = {}, TypeOK, GateInv, NEW l \in Loops, LoopStep(l)
    PROVE  GateInv' /\ [Gate!GateNext]_(Gate!gateVars)
<1>1. ASSUME loops[l] # "none" PROVE up
  BY <1>1 DEF GateInv
<1>2. CASE Iterate(l)
  <2>1. loops' \in [Loops -> LoopStages] /\ \A k \in Loops \ {l} : loops'[k] = loops[k]
    BY <1>2 DEF Iterate, TypeOK, LoopStages
  <2>2. loops[l] = "waiting" /\ (loops'[l] = "none" \/ (pause_reason = "none" /\ loops'[l] = "scanning"))
    BY <1>2 DEF Iterate, TypeOK
  <2>3. up /\ UNCHANGED <<up, pause_reason, state, event>>
    BY <1>1, <1>2, <2>2 DEF Iterate, memory, database
  <2>4. GateInv' /\ PauseInForce' = PauseInForce
    BY <2>3 DEF GateInv, RowRemembers, PauseIsDurable, DurableReason, PauseInForce
  <2>5. \/ Scans' = Scans
        \/ Scans' = Scans + 1 /\ PauseInForce = "none"
    BY <2>1, <2>2, <2>3, ScansMove DEF PauseInForce
  <2>6. QED BY <2>4, <2>5, GateSteps
<1>3. CASE ScanReturns(l) \/ RecordSuccess(l) \/ ScanRaises(l)
  <2>1. PICK stage \in {"waiting", "erring"} : Goto(l, stage)
    BY <1>3 DEF ScanReturns, RecordSuccess, ScanRaises
  <2>2. /\ UNCHANGED up /\ loops' \in [Loops -> LoopStages] /\ loops'[l] = stage
        /\ \A k \in Loops \ {l} : loops'[k] = loops[k]
    BY <2>1, GotoType DEF LoopStages
  <2>3. loops[l] \in {"scanning", "recording"} /\ state' \in StateAfter(state, "unset") /\ UNCHANGED <<memory, event>>
    BY <1>3 DEF ScanReturns, RecordSuccess, ScanRaises
  <2>4. up
    BY <1>1, <2>3
  <2>5. GateInv' /\ PauseInForce' = PauseInForce
    BY <2>2, <2>3, <2>4, GateWrites DEF memory
  <2>6. Scans' = Scans \/ (Scans > 0 /\ Scans' = Scans - 1)
    BY <2>2, <2>3, ScansMove
  <2>7. QED BY <2>5, <2>6, GateSteps
<1>4. ASSUME NEW reason \in Reasons, loops[l] = "scanning", ScanPauses(l, reason)
      PROVE  GateInv' /\ [Gate!GateNext]_(Gate!gateVars)
  <2>1. /\ UNCHANGED up /\ loops' \in [Loops -> LoopStages] /\ loops'[l] # "scanning"
        /\ \A k \in Loops \ {l} : loops'[k] = loops[k]
    BY <1>4, ScanPausesType
  <2>2. up /\ up'
    BY <1>1, <1>4, <2>1
  <2>3. GateInv' /\ PauseInForce' = IF PauseInForce = "none" THEN reason ELSE PauseInForce
    BY <1>4, <2>2, GatePause
  <2>4. Scans > 0 /\ Scans' = Scans - 1
    BY <1>4, <2>1, ScansMove
  <2>5. QED BY <2>3, <2>4, GateSteps
<1>5. CASE ScanTripsKillSwitch(l)
  BY <1>4, <1>5 DEF ScanTripsKillSwitch, Reasons
<1>6. ASSUME NEW r \in RiskReasons, ScanBlocked(l, r)
      PROVE  GateInv' /\ [Gate!GateNext]_(Gate!gateVars)
  <2>1. CASE blocks'[r] >= MaxBlocks
    BY <1>4, <1>6, <2>1 DEF ScanBlocked, Reasons
  <2>2. CASE ~(blocks'[r] >= MaxBlocks)
    <3>1. /\ loops[l] = "scanning" /\ Goto(l, "waiting")
          /\ state' \in StateAfter(state, "unset") /\ UNCHANGED <<pause_reason, event>>
      BY <1>6, <2>2 DEF ScanBlocked
    <3>2. /\ UNCHANGED up /\ loops' \in [Loops -> LoopStages] /\ loops'[l] = "waiting"
          /\ \A k \in Loops \ {l} : loops'[k] = loops[k]
      BY <3>1, GotoType DEF LoopStages
    <3>3. GateInv' /\ PauseInForce' = PauseInForce
      BY <1>1, <3>1, <3>2, GateWrites
    <3>4. Scans > 0 /\ Scans' = Scans - 1
      BY <3>1, <3>2, ScansMove
    <3>5. QED BY <3>3, <3>4, GateSteps
  <2>3. QED BY <2>1, <2>2
<1>7. CASE RecordError(l)
  <2>1. loops[l] = "erring" /\ Goto(l, "waiting")
    BY <1>7 DEF RecordError
  <2>2. /\ UNCHANGED up /\ loops' \in [Loops -> LoopStages] /\ loops'[l] = "waiting"
        /\ \A k \in Loops \ {l} : loops'[k] = loops[k]
    BY <2>1, GotoType DEF LoopStages
  <2>3. up /\ up' /\ Scans' = Scans
    BY <1>1, <2>1, <2>2, ScansMove
  <2>4. CASE errors' >= MaxErrors
    <3>1. PICK reason \in Reasons : PauseFor(reason, state)
      BY <1>7, <2>4 DEF RecordError, Reasons
    <3>2. GateInv' /\ PauseInForce' = IF PauseInForce = "none" THEN reason ELSE PauseInForce
      BY <2>3, <3>1, GatePause
    <3>3. QED BY <2>3, <3>2, GateSteps
  <2>5. CASE ~(errors' >= MaxErrors)
    <3>1. UNCHANGED <<pause_reason, state, event>>
      BY <1>7, <2>5 DEF RecordError, database
    <3>2. GateInv' /\ PauseInForce' = PauseInForce
      BY <2>2, <2>3, <3>1 DEF GateInv, RowRemembers, PauseIsDurable, DurableReason, PauseInForce
    <3>3. QED BY <2>3, <3>2, GateSteps
  <2>6. QED BY <2>4, <2>5
<1>8. QED BY <1>2, <1>3, <1>5, <1>6, <1>7 DEF LoopStep

LEMMA GateAdmin ==
    ASSUME Faults = {}, TypeOK, GateInv, NEW a \in Admins, AdminStep(a)
    PROVE  GateInv' /\ [Gate!GateNext]_(Gate!gateVars)
<1>1. CASE Pause(a)
  <2>1. up /\ up' /\ loops' = loops /\ PauseFor("manual_pause", state) /\ "manual_pause" \in Reasons
    BY <1>1 DEF Pause, Ready, control, Reasons
  <2>2. GateInv' /\ PauseInForce' = IF PauseInForce = "none" THEN "manual_pause" ELSE PauseInForce
    BY <2>1, GatePause
  <2>3. Scans' = Scans
    BY <2>1 DEF Scans, Scanning
  <2>4. QED BY <2>1, <2>2, <2>3, GateSteps
<1>2. CASE Resume(a)
  <2>1. up /\ up' /\ loops' = loops /\ pause_reason' = "none"
    BY <1>2 DEF Resume, Ready, control
  <2>2. state' = "none"
    BY <1>2, StateAfterType DEF Resume, TypeOK
  <2>3. GateInv' /\ PauseInForce' = "none"
    BY <2>1, <2>2 DEF GateInv, RowRemembers, PauseIsDurable, DurableReason, PauseInForce
  <2>4. Scans' = Scans
    BY <2>1 DEF Scans, Scanning
  <2>5. QED BY <2>3, <2>4, GateSteps
<1>3. CASE Start(a)
  <2>1. PICK restored \in Restore(pause_reason, state, event) : Launch(restored)
    BY <1>3 DEF Start
  <2>2. up /\ up'
    BY <1>3 DEF Start, Ready
  <2>3. PauseInForce = Durable(state, event)
    BY <2>2 DEF GateInv, PauseIsDurable, PauseInForce, Durable, DurableReason
  <2>4. GateInv' /\ UNCHANGED <<PauseInForce, Scans>>
    BY <2>1, <2>2, <2>3, RestoreDurable, GateLaunch DEF TypeOK, GateInv, RowRemembers
  <2>5. QED BY <2>4, GateSteps
<1>4. CASE Stop(a) \/ StopReturns(a)
  <2>1. UNCHANGED <<up, pause_reason, state, event, loops>>
    BY <1>4 DEF Stop, StopReturns, memory, database
  <2>2. GateInv' /\ UNCHANGED <<PauseInForce, Scans>>
    BY <2>1 DEF GateInv, RowRemembers, PauseIsDurable, DurableReason, PauseInForce, Scans, Scanning
  <2>3. QED BY <2>2, GateSteps
<1>5. QED BY <1>1, <1>2, <1>3, <1>4 DEF AdminStep

LEMMA GateStep ==
    Faults = {} /\ TypeOK /\ GateInv /\ [Next]_vars => GateInv' /\ [Gate!GateNext]_(Gate!gateVars)
<1> SUFFICES ASSUME Faults = {}, TypeOK, GateInv, [Next]_vars
             PROVE  GateInv' /\ [Gate!GateNext]_(Gate!gateVars)
  OBVIOUS
<1>1. CASE Boot
  <2>1. PICK first \in Restore(pause_reason, state, event) :
        \E second \in Restore(first.reason, first.row, first.newest) : Launch(second)
    BY <1>1 DEF Boot
  <2>2. PICK second \in Restore(first.reason, first.row, first.newest) : Launch(second)
    BY <2>1
  <2>3. first \in Restores
    BY RestoreType DEF TypeOK
  <2>4. /\ first.reason = Durable(state, event)
        /\ first.reason = Durable(first.row, first.newest)
        /\ first.reason # "none" => first.row = first.reason
    BY <2>1, RestoreDurable DEF TypeOK, GateInv, RowRemembers
  <2>5. /\ second.reason = Durable(first.row, first.newest)
        /\ second.reason = Durable(second.row, second.newest)
        /\ second.reason # "none" => second.row = second.reason
    BY <2>2, <2>3, <2>4, RestoreDurable DEF Restores
  <2>6. PauseInForce = Durable(state, event) /\ up'
    BY <1>1 DEF Boot, PauseInForce, DurableReason, Durable
  <2>7. GateInv' /\ UNCHANGED <<PauseInForce, Scans>>
    BY <2>2, <2>4, <2>5, <2>6, GateLaunch
  <2>8. QED BY <2>7, GateSteps
<1>2. CASE (\E r \in RiskReasons : BlockAges(r)) \/ ErrorAges \/ UNCHANGED vars
  <2>1. UNCHANGED <<up, pause_reason, state, event, loops>>
    BY <1>2 DEF BlockAges, ErrorAges, vars, memory, control, database
  <2>2. GateInv' /\ UNCHANGED <<PauseInForce, Scans>>
    BY <2>1 DEF GateInv, RowRemembers, PauseIsDurable, DurableReason, PauseInForce, Scans, Scanning
  <2>3. QED BY <2>2, GateSteps
<1>3. CASE PauseExpires
  <2>1. UNCHANGED <<up, pause_reason, state, loops>> /\ event = "pause" /\ event' = "expired_pause"
    BY <1>3 DEF PauseExpires, memory, control
  <2>2. Scans' = Scans
    BY <2>1 DEF Scans, Scanning
  <2>3. GateInv'
    <3>1. up => pause_reason = DurableReason'
      <4>1. CASE state = "absent"
        <5>1. pause_reason = "none"
          BY <4>1, RiskReasonsAssumption DEF GateInv, RowRemembers, TypeOK, Reasons
        <5>2. QED BY <2>1, <4>1, <5>1 DEF DurableReason
      <4>2. CASE state # "absent"
        BY <2>1, <4>2 DEF GateInv, PauseIsDurable, DurableReason
      <4>3. QED BY <4>1, <4>2
    <3>2. QED BY <2>1, <3>1 DEF GateInv, RowRemembers, PauseIsDurable
  <2>4. CASE PauseInForce' = PauseInForce
    BY <2>2, <2>3, <2>4, GateSteps
  <2>5. CASE PauseInForce' # PauseInForce
    <3>1. ~up /\ PauseInForce = "kill_switch" /\ PauseInForce' = "none"
      BY <2>1, <2>5 DEF PauseInForce, DurableReason
    <3>2. Scans = 0
      BY <3>1, NoScans DEF GateInv
    <3>3. QED BY <2>2, <2>3, <3>1, <3>2, GateSteps
  <2>6. QED BY <2>4, <2>5
<1>4. CASE Crash
  <2>1. /\ up /\ ~up' /\ pause_reason' = "none" /\ UNCHANGED <<state, event>>
        /\ \A l \in Loops : loops'[l] = "none"
    BY <1>4 DEF Crash, database
  <2>2. Scans' = 0
    <3>1. Scanning' = {}
      BY <2>1 DEF Scanning
    <3>2. QED BY <3>1, FS_EmptySet DEF Scans
  <2>3. GateInv' /\ PauseInForce' = PauseInForce
    BY <2>1 DEF GateInv, RowRemembers, PauseIsDurable, DurableReason, PauseInForce
  <2>4. QED BY <2>2, <2>3, GateSteps
<1>5. QED BY <1>1, <1>2, <1>3, <1>4, GateLoop, GateAdmin DEF Next, TimeStep

LEMMA GateInitial == Init => GateInv /\ Gate!GateInit
<1> SUFFICES ASSUME Init PROVE GateInv /\ Gate!GateInit
  OBVIOUS
<1>1. GateInv
  BY DEF Init, GateInv, RowRemembers, PauseIsDurable
<1>2. Scans = 0
  BY NoScans DEF Init
<1>3. PauseInForce \in Reasons \cup {"none"}
  BY DEF Init, PauseInForce, DurableReason, Reasons
<1>4. QED BY <1>1, <1>2, <1>3 DEF Gate!GateInit, PauseInForce, Scans, Scanning

\* While no database call fails, memory and database never disagree about the
\* pause: dying at any moment neither lifts a pause nor makes one.
THEOREM DurableTheorem == Faults = {} => (Spec => []PauseIsDurable)
<1> SUFFICES ASSUME Faults = {} PROVE Spec => []PauseIsDurable
  OBVIOUS
<1>1. TypeOK /\ GateInv /\ [Next]_vars => GateInv'
  BY GateStep
<1>2. Init => GateInv
  BY GateInitial
<1>3. GateInv => PauseIsDurable
  BY DEF GateInv
<1>4. QED BY <1>1, <1>2, <1>3, SchedulerTypes, PTL DEF Spec

\* The scheduler implements TradingGate: with any number of operators, loops
\* and counted reasons, through restarts, restores and their races, no scan
\* starts while trading is paused and only a resume lifts a pause, except one
\* of the kill switch that a database without a scheduler row outlives.
THEOREM GateTheorem == Faults = {} => (Spec => GateImplemented)
<1> SUFFICES ASSUME Faults = {} PROVE Spec => GateImplemented
  OBVIOUS
<1>1. Init => GateInv /\ Gate!GateInit
  BY GateInitial
<1>2. TypeOK /\ GateInv /\ [Next]_vars => GateInv' /\ [Gate!GateNext]_(Gate!gateVars)
  BY GateStep
<1>3. QED BY <1>1, <1>2, SchedulerTypes, PTL DEF Spec, GateImplemented, Gate!GateSpec

=============================================================================
